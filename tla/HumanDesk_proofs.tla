--------------------------- MODULE HumanDesk_proofs ---------------------------
(* Proofs about the work that waits for people, for any number of tickets,   *)
(* reviews, operators and submissions.  The audit and the material are       *)
(* inductive with the types; ListingIsComplete is not: it needs what the     *)
(* cursor has passed and what is still owed (ListingInv), that a page's rows *)
(* have a first one (FirstOfPage), and that a ticket that stops matching a   *)
(* filter it matched never matches it again (RowsMove).                      *)
EXTENDS HumanDesk, FiniteSetTheorems, TLAPS

\* The values of the variables.
TypeOK ==
  /\ clock \in 0..MaxClock
  /\ ticket \in [TicketId -> TicketRow \cup {None}]
  /\ review \in [Review -> ReviewRow \cup {None}]
  /\ seen \in [Operator -> [Review -> Nat]]
  /\ listing \in Reading \cup {None}

-----------------------------------------------------------------------------
(* Rows.                                                                   *)

LEMMA TicketFields ==
  \A row \in TicketRow :
    /\ row.status \in Open \cup {"resolved"} /\ row.assigned \in Operator \cup {None}
    /\ row.audit \in Seq(Entry) /\ row.created \in 0..MaxClock /\ row.created \in Nat
    /\ row # None
BY NoneAssumption, DeskAssumption DEF TicketRow

LEMMA NewTicketRow ==
  ASSUME NEW origin \in Review \cup {"tool", "transfer"}, NEW now \in 0..MaxClock
  PROVE  NewTicket(origin, now) \in TicketRow
<1>1. << >> \in Seq(Entry)
  OBVIOUS
<1> QED
  BY <1>1 DEF NewTicket, TicketRow, Open

\* What a transaction on a ticket leaves of its row.
LEMMA SavedRow ==
  ASSUME NEW row \in TicketRow, NEW entry \in Entry
  PROVE  LET saved == [row EXCEPT !.audit = Append(@, entry)] IN
         /\ saved \in TicketRow
         /\ saved.audit = Append(row.audit, entry)
         /\ saved.status = row.status /\ saved.assigned = row.assigned
         /\ saved.created = row.created
<1>1. Append(row.audit, entry) \in Seq(Entry)
  BY TicketFields
<1> QED
  BY <1>1 DEF TicketRow

LEMMA AuditAppend ==
  ASSUME NEW audit \in Seq(Entry), NEW entry \in Entry
  PROVE  LET longer == Append(audit, entry) IN
         /\ Len(longer) = Len(audit) + 1 /\ Len(audit) \in Nat
         /\ DOMAIN longer = 1..Len(audit) + 1 /\ DOMAIN audit = 1..Len(audit)
         /\ \A i \in 1..Len(audit) : longer[i] = audit[i]
         /\ longer[Len(audit) + 1] = entry
         /\ longer # << >> /\ Last(longer) = entry
         /\ audit # << >> => Last(audit) = audit[Len(audit)] /\ Len(audit) > 0
<1> DEFINE longer == Append(audit, entry)
<1>1. Len(audit) \in Nat /\ DOMAIN audit = 1..Len(audit)
  OBVIOUS
<1>2. longer \in Seq(Entry) /\ Len(longer) = Len(audit) + 1
  OBVIOUS
<1>3. DOMAIN longer = 1..Len(audit) + 1
  BY <1>2
<1>4. \A i \in 1..Len(audit) : longer[i] = audit[i]
  OBVIOUS
<1>5. longer[Len(audit) + 1] = entry
  OBVIOUS
<1>6. longer # << >>
  BY <1>1, <1>2
<1>7. Last(longer) = entry
  BY <1>2, <1>5 DEF Last
<1>8. audit # << >> => Last(audit) = audit[Len(audit)] /\ Len(audit) > 0
  BY <1>1 DEF Last
<1> QED
  BY <1>1, <1>2, <1>3, <1>4, <1>5, <1>6, <1>7, <1>8

\* A transaction of an operator: one ticket's row is replaced, and its audit
\* gets one entry.
Transaction(o, t, row, entry) ==
  /\ Row(t)
  /\ row \in TicketRow /\ entry \in Entry
  /\ row.audit = Append(ticket[t].audit, entry)
  /\ row.created = ticket[t].created
  /\ ticket' = [ticket EXCEPT ![t] = row]
  /\ \/ /\ ticket[t].status = "pending" /\ row.status = "in_progress"
        /\ row.assigned = o
        /\ entry = [action |-> "claim", by |-> o, from |-> None, to |-> o]
     \/ /\ ticket[t].status = "in_progress" /\ row.status = "resolved"
        /\ row.assigned = o /\ ticket[t].assigned = o
        /\ entry = [action |-> "resolve", by |-> o, from |-> o, to |-> o]
     \/ /\ ticket[t].status = "in_progress" /\ row.status = "in_progress"
        /\ \E target \in Operator, expected \in Operator :
             /\ ticket[t].assigned = expected /\ row.assigned = target
             /\ entry = [action |-> "reassign", by |-> o, from |-> expected, to |-> target]

OfOperator(o, t) ==
  \/ ClaimTicket(o, t)
  \/ \E outcome \in Outcome : ResolveTicket(o, t, outcome)
  \/ \E target, expected \in Operator : ReassignTicket(o, t, target, expected)

LEMMA OperatorStep ==
  ASSUME TypeOK, NEW o \in Operator, NEW t \in TicketId, OfOperator(o, t)
  PROVE  /\ \E row \in TicketRow, entry \in Entry : Transaction(o, t, row, entry)
         /\ UNCHANGED <<clock, review, seen, listing>>
<1>1. Row(t) /\ UNCHANGED <<clock, review, seen, listing>>
  BY DEF OfOperator, ClaimTicket, ResolveTicket, ReassignTicket, HandOver, Save
<1>2. PICK old \in TicketRow : old = ticket[t]
  BY <1>1 DEF Row, TypeOK
<1>3. CASE ClaimTicket(o, t)
  <2> DEFINE new == [old EXCEPT !.status = "in_progress", !.assigned = o]
             entry == [action |-> "claim", by |-> o, from |-> None, to |-> o]
             row == [new EXCEPT !.audit = Append(@, entry)]
  <2>1. entry \in Entry
    BY DEF Entry
  <2>2. /\ new \in TicketRow /\ new.audit = old.audit /\ new.created = old.created
        /\ new.status = "in_progress" /\ new.assigned = o
    BY DEF TicketRow, Open
  <2>3. ticket' = [ticket EXCEPT ![t] = row] /\ old.status = "pending"
    BY <1>2, <1>3 DEF ClaimTicket, Save
  <2> HIDE DEF new
  <2>4. /\ row \in TicketRow /\ row.audit = Append(new.audit, entry)
        /\ row.status = new.status /\ row.assigned = new.assigned
        /\ row.created = new.created
    BY <2>1, <2>2, SavedRow
  <2>5. Transaction(o, t, row, entry)
    BY <1>1, <1>2, <2>1, <2>2, <2>3, <2>4 DEF Transaction
  <2> QED
    BY <1>1, <2>1, <2>4, <2>5
<1>4. ASSUME NEW outcome \in Outcome, ResolveTicket(o, t, outcome)
      PROVE  \E row \in TicketRow, entry \in Entry : Transaction(o, t, row, entry)
  <2> DEFINE new == [old EXCEPT !.status = "resolved", !.resolution = outcome]
             entry == [action |-> "resolve", by |-> o, from |-> o, to |-> o]
             row == [new EXCEPT !.audit = Append(@, entry)]
  <2>1. entry \in Entry
    BY DEF Entry
  <2>2. /\ new \in TicketRow /\ new.audit = old.audit /\ new.created = old.created
        /\ new.status = "resolved" /\ new.assigned = old.assigned
    BY DEF TicketRow, Open
  <2>3. /\ ticket' = [ticket EXCEPT ![t] = row]
        /\ old.status = "in_progress" /\ old.assigned = o
    BY <1>2, <1>4 DEF ResolveTicket, Save
  <2> HIDE DEF new
  <2>4. /\ row \in TicketRow /\ row.audit = Append(new.audit, entry)
        /\ row.status = new.status /\ row.assigned = new.assigned
        /\ row.created = new.created
    BY <2>1, <2>2, SavedRow
  <2>5. Transaction(o, t, row, entry)
    BY <1>1, <1>2, <2>1, <2>2, <2>3, <2>4 DEF Transaction
  <2> QED
    BY <2>1, <2>4, <2>5
<1>5. ASSUME NEW target \in Operator, NEW expected \in Operator,
             ReassignTicket(o, t, target, expected)
      PROVE  \E row \in TicketRow, entry \in Entry : Transaction(o, t, row, entry)
  <2> DEFINE new == [old EXCEPT !.assigned = target]
             entry == [action |-> "reassign", by |-> o, from |-> expected, to |-> target]
             row == [new EXCEPT !.audit = Append(@, entry)]
  <2>1. entry \in Entry
    BY DEF Entry
  <2>2. /\ new \in TicketRow /\ new.audit = old.audit /\ new.created = old.created
        /\ new.status = old.status /\ new.assigned = target
    BY DEF TicketRow, Open
  <2>3. /\ ticket' = [ticket EXCEPT ![t] = row]
        /\ old.status = "in_progress" /\ old.assigned = expected
    BY <1>2, <1>5 DEF ReassignTicket, HandOver, Save
  <2> HIDE DEF new
  <2>4. /\ row \in TicketRow /\ row.audit = Append(new.audit, entry)
        /\ row.status = new.status /\ row.assigned = new.assigned
        /\ row.created = new.created
    BY <2>1, <2>2, SavedRow
  <2>5. Transaction(o, t, row, entry)
    BY <1>1, <1>2, <2>1, <2>2, <2>3, <2>4 DEF Transaction
  <2> QED
    BY <2>1, <2>4, <2>5
<1> QED
  BY <1>1, <1>3, <1>4, <1>5 DEF OfOperator

LEMMA SaveStep ==
  ASSUME TypeOK, NEW t \in TicketId, NEW origin \in Review \cup {"tool", "transfer"},
         SaveTicket(t, origin)
  PROVE  /\ ~Row(t) /\ clock' \in 0..MaxClock
         /\ \E now \in 0..MaxClock :
              /\ NewTicket(origin, now) \in TicketRow
              /\ ticket' = [ticket EXCEPT ![t] = NewTicket(origin, now)]
<1>1. PICK now \in {n \in clock .. clock + 1 : n <= MaxClock} :
        clock' = now /\ ticket' = [ticket EXCEPT ![t] = NewTicket(origin, now)]
  BY DEF SaveTicket
<1>2. now \in 0..MaxClock
  BY DeskAssumption DEF TypeOK
<1> QED
  BY <1>1, <1>2, NewTicketRow DEF SaveTicket

\* What a step does to the rows of tickets: nothing, a new row, or a transaction.
LEMMA TicketStep ==
  ASSUME TypeOK, [Next]_vars
  PROVE  /\ clock' \in 0..MaxClock
         /\ \/ ticket' = ticket
            \/ \E t \in TicketId, o \in Operator, row \in TicketRow, entry \in Entry :
                 Transaction(o, t, row, entry) /\ listing' = listing
            \/ \E t \in TicketId, origin \in Review \cup {"tool", "transfer"},
                  now \in 0..MaxClock :
                 /\ ~Row(t) /\ NewTicket(origin, now) \in TicketRow
                 /\ ticket' = [ticket EXCEPT ![t] = NewTicket(origin, now)]
                 /\ listing' = listing
<1>1. ASSUME NEW t \in TicketId, CreateTicket(t)
      PROVE  /\ clock' \in 0..MaxClock
             /\ \E origin \in Review \cup {"tool", "transfer"}, now \in 0..MaxClock :
                  /\ ~Row(t) /\ NewTicket(origin, now) \in TicketRow
                  /\ ticket' = [ticket EXCEPT ![t] = NewTicket(origin, now)]
                  /\ listing' = listing
  BY <1>1, SaveStep DEF CreateTicket
<1>2. ASSUME NEW o \in Operator, NEW t \in TicketId, OfOperator(o, t)
      PROVE  /\ clock' \in 0..MaxClock
             /\ \E row \in TicketRow, entry \in Entry :
                  Transaction(o, t, row, entry) /\ listing' = listing
  BY <1>2, OperatorStep DEF TypeOK
<1>3. ASSUME NEW r \in Review, NEW o \in Operator, NEW status, NEW version,
             ResolveReview(o, r, status, version)
      PROVE  /\ clock' \in 0..MaxClock
             /\ \/ ticket' = ticket
                \/ \E t \in TicketId, now \in 0..MaxClock :
                     /\ ~Row(t) /\ NewTicket(r, now) \in TicketRow
                     /\ ticket' = [ticket EXCEPT ![t] = NewTicket(r, now)]
                     /\ listing' = listing
  BY <1>3, SaveStep DEF ResolveReview, Decide, TypeOK
<1>4. ASSUME \/ \E r \in Review :
                  \/ CreateReview(r)
                  \/ \E s \in Submission : AppendReviewSupplement(r, s)
                  \/ \E o \in Operator : ReviewDetails(o, r)
             \/ \E filter \in Filter : BeginListing(filter)
             \/ NextPage
             \/ UNCHANGED vars
      PROVE  clock' \in 0..MaxClock /\ ticket' = ticket
  BY <1>4
     DEF CreateReview, AppendReviewSupplement, AddSupplement, ReviewDetails, BeginListing,
         NextPage, vars, TypeOK
<1> QED
  BY <1>1, <1>2, <1>3, <1>4 DEF Next, OfOperator

-----------------------------------------------------------------------------
(* Reviews.                                                                *)

LEMMA ReviewFields ==
  \A row \in ReviewRow :
    /\ row.status \in Verdict \cup {"pending_review"}
    /\ row.supplements \in Seq(Supplement) /\ Len(row.supplements) \in Nat
    /\ row # None
BY NoneAssumption DEF ReviewRow

LEMMA NewReviewRow ==
  /\ NewReview \in ReviewRow
  /\ NewReview.supplements = << >>
<1>1. << >> \in Seq(Supplement)
  OBVIOUS
<1> QED
  BY <1>1 DEF NewReview, ReviewRow

\* What a step does to a review: nothing, a first row, a submission that is not
\* there, or a decision on all its material, by an operator who saw it.
ReviewMove(r) ==
  \/ review'[r] = review[r]
  \/ review[r] = None /\ review'[r] = NewReview
  \/ /\ review[r] \in ReviewRow /\ review'[r] \in ReviewRow
     /\ review'[r].status = review[r].status
     /\ \E s \in Submission :
          /\ ~Submitted(r, s)
          /\ \E more \in Supplement :
               /\ more.id = s /\ more.version = Version(r) + 1
               /\ review'[r].supplements = Append(review[r].supplements, more)
  \/ /\ review[r] \in ReviewRow /\ review'[r] \in ReviewRow
     /\ review'[r].supplements = review[r].supplements
     /\ Version(r) > 0 => \E o \in Operator : seen[o][r] = Version(r)

LEMMA SupplementStep ==
  ASSUME TypeOK, NEW r \in Review, NEW s \in Submission, AppendReviewSupplement(r, s)
  PROVE  /\ review' \in [Review -> ReviewRow \cup {None}]
         /\ \A q \in Review : ReviewMove(q)
<1>1. review[r] \in ReviewRow /\ ~Submitted(r, s)
  BY DEF AppendReviewSupplement, TypeOK
<1>2. PICK old \in ReviewRow : old = review[r]
  BY <1>1
<1> DEFINE more == [id |-> s, version |-> Version(r) + 1, at |-> old.status]
           row == [old EXCEPT !.supplements = Append(@, more)]
<1>3. Version(r) \in Nat
  BY <1>2, ReviewFields DEF Version
<1>4. more \in Supplement /\ more.id = s /\ more.version = Version(r) + 1
  BY <1>2, <1>3, ReviewFields DEF Supplement
<1>5. review' = [review EXCEPT ![r] = row]
  BY <1>1, <1>2 DEF AppendReviewSupplement, AddSupplement, TypeOK
<1> HIDE DEF more
<1>6. Append(old.supplements, more) \in Seq(Supplement)
  BY <1>4, ReviewFields
<1>7. /\ row \in ReviewRow /\ row.status = old.status
      /\ row.supplements = Append(old.supplements, more)
  BY <1>6 DEF ReviewRow
<1> HIDE DEF row
<1>8. review'[r] = row /\ \A q \in Review \ {r} : review'[q] = review[q]
  BY <1>5 DEF TypeOK
<1>9. review' \in [Review -> ReviewRow \cup {None}]
  BY <1>5, <1>7 DEF TypeOK
<1>10. ReviewMove(r)
  BY <1>1, <1>2, <1>4, <1>7, <1>8 DEF ReviewMove
<1> QED
  BY <1>8, <1>9, <1>10 DEF ReviewMove

LEMMA DecisionStep ==
  ASSUME TypeOK, NEW o \in Operator, NEW r \in Review, NEW status \in Verdict,
         NEW version \in Stated(o, r), ResolveReview(o, r, status, version)
  PROVE  /\ review' \in [Review -> ReviewRow \cup {None}]
         /\ \A q \in Review : ReviewMove(q)
<1>1. PICK old \in ReviewRow : old = review[r]
  BY DEF ResolveReview, TypeOK
<1> DEFINE row == [old EXCEPT !.status = status]
<1>2. row \in ReviewRow /\ row.supplements = old.supplements
  BY DEF ReviewRow
<1>3. review' = [review EXCEPT ![r] = row]
  BY <1>1 DEF ResolveReview, Decide, TypeOK
<1> HIDE DEF row
<1>4. review'[r] = row /\ \A q \in Review \ {r} : review'[q] = review[q]
  BY <1>3 DEF TypeOK
<1>5. Version(r) > 0 => seen[o][r] = Version(r)
  BY DEF ResolveReview, Stated
<1>6. ReviewMove(r)
  BY <1>1, <1>2, <1>4, <1>5 DEF ReviewMove
<1> QED
  BY <1>2, <1>3, <1>4, <1>6 DEF ReviewMove, TypeOK

LEMMA ReviewStep ==
  ASSUME TypeOK, [Next]_vars
  PROVE  /\ review' \in [Review -> ReviewRow \cup {None}]
         /\ seen' \in [Operator -> [Review -> Nat]]
         /\ \A r \in Review : ReviewMove(r)
<1>1. ASSUME \/ \E t \in TicketId : CreateTicket(t)
             \/ \E o \in Operator, t \in TicketId : OfOperator(o, t)
             \/ \E filter \in Filter : BeginListing(filter)
             \/ NextPage
             \/ UNCHANGED vars
      PROVE  UNCHANGED <<review, seen>>
  BY <1>1
     DEF CreateTicket, OfOperator, ClaimTicket, ResolveTicket, ReassignTicket, HandOver,
         Save, BeginListing, NextPage, vars
<1>2. UNCHANGED <<review, seen>> =>
        /\ review' \in [Review -> ReviewRow \cup {None}]
        /\ seen' \in [Operator -> [Review -> Nat]]
        /\ \A r \in Review : ReviewMove(r)
  BY DEF TypeOK, ReviewMove
<1>3. ASSUME NEW r \in Review, CreateReview(r)
      PROVE  /\ review' \in [Review -> ReviewRow \cup {None}]
             /\ seen' = seen
             /\ \A q \in Review : ReviewMove(q)
  BY <1>3, NewReviewRow DEF CreateReview, TypeOK, ReviewMove
<1>4. ASSUME NEW r \in Review, NEW o \in Operator, ReviewDetails(o, r)
      PROVE  review' = review /\ seen' \in [Operator -> [Review -> Nat]]
  <2>1. Version(r) \in Nat
    BY <1>4, ReviewFields DEF ReviewDetails, Version, TypeOK
  <2> QED
    BY <1>4, <2>1 DEF ReviewDetails, TypeOK
<1>5. ASSUME NEW r \in Review, NEW s \in Submission, AppendReviewSupplement(r, s)
      PROVE  seen' = seen
  BY <1>5 DEF AppendReviewSupplement, AddSupplement
<1>6. ASSUME NEW o \in Operator, NEW r \in Review, NEW status \in Verdict,
             NEW version \in Stated(o, r), ResolveReview(o, r, status, version)
      PROVE  seen' = seen
  BY <1>6 DEF ResolveReview, Decide
<1> QED
  <2>1. CASE UNCHANGED <<review, seen>>
    BY <1>2, <2>1
  <2>2. CASE \E r \in Review : CreateReview(r)
    BY <1>3, <2>2 DEF TypeOK
  <2>3. CASE \E r \in Review, s \in Submission : AppendReviewSupplement(r, s)
    BY <1>5, <2>3, SupplementStep DEF TypeOK
  <2>4. CASE \E r \in Review, o \in Operator : ReviewDetails(o, r)
    BY <1>4, <2>4 DEF TypeOK, ReviewMove
  <2>5. CASE \E r \in Review, o \in Operator, status \in Verdict :
               \E version \in Stated(o, r) : ResolveReview(o, r, status, version)
    BY <1>6, <2>5, DecisionStep DEF TypeOK
  <2> QED
    BY <1>1, <2>1, <2>2, <2>3, <2>4, <2>5 DEF Next, OfOperator

\* The customer's material is in the review once and counted (append_review_supplement).
LEMMA MaterialStep ==
  ASSUME TypeOK, MaterialRecordedOnce, [Next]_vars
  PROVE  MaterialRecordedOnce'
<1> SUFFICES ASSUME NEW r \in Review, review'[r] # None
             PROVE  LET new == review'[r].supplements IN
                    \A i, j \in DOMAIN new :
                      /\ new[i].version = i
                      /\ new[i].id = new[j].id => i = j
  BY DEF MaterialRecordedOnce
<1>1. ReviewMove(r)
  BY ReviewStep
<1>2. CASE review[r] # None /\ review'[r].supplements = review[r].supplements
  BY <1>2 DEF MaterialRecordedOnce
<1>3. CASE review'[r] = NewReview
  BY <1>3, NewReviewRow
<1>4. ASSUME review[r] \in ReviewRow, NEW s \in Submission, ~Submitted(r, s),
             NEW more \in Supplement, more.id = s, more.version = Version(r) + 1,
             review'[r].supplements = Append(review[r].supplements, more)
      PROVE  LET new == review'[r].supplements IN
             \A i, j \in DOMAIN new :
               /\ new[i].version = i
               /\ new[i].id = new[j].id => i = j
  <2>1. PICK old \in Seq(Supplement) : old = review[r].supplements
    BY <1>4, ReviewFields
  <2> DEFINE new == Append(old, more)
             n == Len(old)
  <2>2. /\ n \in Nat /\ DOMAIN old = 1..n /\ DOMAIN new = 1..n + 1
        /\ \A i \in 1..n : new[i] = old[i]
        /\ new[n + 1] = more
    OBVIOUS
  <2>3. \A i, j \in 1..n : old[i].version = i /\ (old[i].id = old[j].id => i = j)
    BY <1>4, <2>1, <2>2, ReviewFields DEF MaterialRecordedOnce
  <2>4. \A i \in 1..n : old[i].id # s
    BY <1>4, <2>1, <2>2 DEF Submitted
  <2>5. more.version = n + 1
    BY <1>4, <2>1 DEF Version
  <2> HIDE DEF new, n
  <2>6. \A i \in 1..n + 1 : i \in 1..n \/ i = n + 1
    BY <2>2
  <2>7. \A i, j \in 1..n + 1 :
          /\ new[i].version = i
          /\ new[i].id = new[j].id => i = j
    BY <1>4, <2>2, <2>3, <2>4, <2>5, <2>6
  <2> QED
    BY <1>4, <2>1, <2>2, <2>7 DEF new
<1> QED
  BY <1>1, <1>2, <1>3, <1>4, ReviewFields DEF ReviewMove

-----------------------------------------------------------------------------
(* The audit.                                                              *)

\* The story a ticket's row tells.
Story(row) ==
  LET audit == row.audit IN
  /\ row.assigned = IF audit = << >> THEN None ELSE Last(audit).to
  /\ row.status = IF audit = << >> THEN "pending"
                  ELSE IF Last(audit).action = "resolve" THEN "resolved" ELSE "in_progress"
  /\ \A i \in DOMAIN audit :
       /\ (audit[i].action = "claim") = (i = 1)
       /\ i > 1 => audit[i].from = audit[i - 1].to
       /\ audit[i].action = "resolve" => i = Len(audit) /\ audit[i].by = audit[i].from

\* AuditExplainsTicket, one ticket at a time.
LEMMA Stories == AuditExplainsTicket <=> \A t \in Tickets : Story(ticket[t])
BY DEF AuditExplainsTicket, Story

\* A transaction adds the entry that the row's new state calls for.
LEMMA StoryGoesOn ==
  ASSUME TypeOK, NEW t \in TicketId, NEW o \in Operator, NEW row \in TicketRow,
         NEW entry \in Entry, Transaction(o, t, row, entry), Story(ticket[t])
  PROVE  Story(row)
<1>1. PICK old \in TicketRow : old = ticket[t]
  BY DEF Transaction, Row, TypeOK
<1>2. PICK audit \in Seq(Entry) : audit = old.audit
  BY TicketFields
<1> DEFINE longer == Append(audit, entry)
           n == Len(audit)
<1>3. /\ Len(longer) = n + 1 /\ n \in Nat
      /\ DOMAIN longer = 1..n + 1 /\ DOMAIN audit = 1..n
      /\ \A i \in 1..n : longer[i] = audit[i]
      /\ longer[n + 1] = entry
      /\ longer # << >> /\ Last(longer) = entry
      /\ audit # << >> => Last(audit) = audit[n] /\ n > 0
      /\ audit = << >> => n = 0
  BY AuditAppend
<1>4. row.audit = longer
  BY <1>1, <1>2 DEF Transaction
<1> HIDE DEF longer, n
<1>5. /\ old.assigned = IF audit = << >> THEN None ELSE Last(audit).to
      /\ old.status = IF audit = << >> THEN "pending"
                      ELSE IF Last(audit).action = "resolve" THEN "resolved"
                           ELSE "in_progress"
      /\ \A i \in 1..n :
           /\ (audit[i].action = "claim") = (i = 1)
           /\ i > 1 => audit[i].from = audit[i - 1].to
           /\ audit[i].action = "resolve" => i = n /\ audit[i].by = audit[i].from
  BY <1>1, <1>2, <1>3 DEF Story, n
\* A resolved ticket is not touched: the earlier entries resolve nothing.
<1>6. /\ (audit = << >>) <=> entry.action = "claim"
      /\ \A i \in 1..n : audit[i].action # "resolve"
      /\ entry.action # "claim" => n > 0 /\ entry.from = audit[n].to
      /\ entry.action = "resolve" => entry.by = entry.from
      /\ row.assigned = entry.to
      /\ row.status = IF entry.action = "resolve" THEN "resolved" ELSE "in_progress"
  <2>1. CASE old.status = "pending"
    <3>1. audit = << >> /\ n = 0
      BY <1>3, <1>5, <2>1
    <3> QED
      BY <1>1, <2>1, <3>1 DEF Transaction
  <2>2. CASE old.status = "in_progress"
    <3>1. audit # << >> /\ n > 0 /\ Last(audit) = audit[n] /\ audit[n].action # "resolve"
      BY <1>3, <1>5, <2>2
    <3>2. old.assigned = audit[n].to
      BY <1>5, <3>1
    <3>3. \A i \in 1..n : audit[i].action # "resolve"
      BY <1>3, <1>5, <3>1
    <3> QED
      BY <1>1, <2>2, <3>1, <3>2, <3>3 DEF Transaction
  <2> QED
    BY <1>1, <2>1, <2>2 DEF Transaction
<1>7. ASSUME NEW i \in 1..n + 1
      PROVE  /\ (longer[i].action = "claim") = (i = 1)
             /\ i > 1 => longer[i].from = longer[i - 1].to
             /\ longer[i].action = "resolve" => i = n + 1 /\ longer[i].by = longer[i].from
  <2>1. CASE i \in 1..n
    <3>1. i > 1 => i - 1 \in 1..n
      BY <1>3, <2>1
    <3> QED
      BY <1>3, <1>5, <1>6, <2>1, <3>1
  <2>2. CASE i = n + 1
    <3>1. i > 1 => n \in 1..n /\ i - 1 = n
      BY <1>3, <2>2
    <3>2. (i = 1) <=> audit = << >>
      BY <1>3, <2>2
    <3>3. longer[i].action = "claim" <=> i = 1
      BY <1>3, <1>6, <2>2, <3>2
    <3>4. i > 1 => longer[i].from = longer[i - 1].to
      BY <1>3, <1>6, <2>2, <3>1, <3>3
    <3> QED
      BY <1>3, <1>6, <2>2, <3>3, <3>4
  <2> QED
    BY <1>3, <2>1, <2>2
<1> QED
  BY <1>3, <1>4, <1>6, <1>7 DEF Story

LEMMA AuditStep ==
  ASSUME TypeOK, AuditExplainsTicket, [Next]_vars
  PROVE  AuditExplainsTicket'
<1> SUFFICES ASSUME NEW t \in TicketId, ticket'[t] # None
             PROVE  Story(ticket'[t])
  BY DEF AuditExplainsTicket, Story, Tickets, Row
<1>1. CASE ticket' = ticket
  BY <1>1, Stories DEF Tickets, Row
<1>2. ASSUME NEW u \in TicketId, NEW o \in Operator, NEW row \in TicketRow,
             NEW entry \in Entry, Transaction(o, u, row, entry)
      PROVE  Story(ticket'[t])
  <2>1. CASE t = u
    <3>1. Story(ticket[u])
      BY <1>2, Stories DEF Transaction, Tickets, Row
    <3>2. Story(row)
      BY <1>2, <3>1, StoryGoesOn
    <3> QED
      BY <1>2, <2>1, <3>2 DEF Transaction, TypeOK
  <2>2. CASE t # u
    BY <1>2, <2>2, Stories DEF Transaction, Tickets, Row, TypeOK
  <2> QED
    BY <2>1, <2>2
<1>3. ASSUME NEW u \in TicketId, NEW origin, NEW now,
             ticket' = [ticket EXCEPT ![u] = NewTicket(origin, now)]
      PROVE  Story(ticket'[t])
  <2>1. CASE t = u
    BY <1>3, <2>1 DEF NewTicket, Story, TypeOK
  <2>2. CASE t # u
    BY <1>3, <2>2, Stories DEF Tickets, Row, TypeOK
  <2> QED
    BY <2>1, <2>2
<1> QED
  BY <1>1, <1>2, <1>3, TicketStep

-----------------------------------------------------------------------------
(* The listing.                                                            *)

\* What a step leaves of a ticket, as far as a listing can tell.
LEMMA RowsMove ==
  ASSUME TypeOK, [Next]_vars, NEW t \in TicketId, Row(t)
  PROVE  /\ Row(t)'
         /\ ticket'[t].created = ticket[t].created
         /\ ticket[t].status = "resolved" => ticket'[t].status = "resolved"
         /\ ticket'[t].status \in Open => ticket[t].status \in Open
<1> SUFFICES ASSUME ticket' # ticket
             PROVE  /\ ticket'[t] # None
                    /\ ticket'[t].created = ticket[t].created
                    /\ ticket[t].status = "resolved" => ticket'[t].status = "resolved"
                    /\ ticket'[t].status \in Open => ticket[t].status \in Open
  BY DEF Row
<1>1. ASSUME NEW u \in TicketId, NEW o \in Operator, NEW row \in TicketRow,
             NEW entry \in Entry, Transaction(o, u, row, entry)
      PROVE  /\ ticket'[t] # None
             /\ ticket'[t].created = ticket[t].created
             /\ ticket[t].status = "resolved" => ticket'[t].status = "resolved"
             /\ ticket'[t].status \in Open => ticket[t].status \in Open
  <2>1. CASE t = u
    <3>1. ticket'[t] = row
      BY <1>1, <2>1 DEF Transaction, TypeOK
    <3> QED
      BY <1>1, <2>1, <3>1, TicketFields DEF Transaction, Open
  <2>2. CASE t # u
    <3>1. ticket'[t] = ticket[t]
      BY <1>1, <2>2 DEF Transaction, TypeOK
    <3> QED
      BY <3>1 DEF Row
  <2> QED
    BY <2>1, <2>2
<1>2. ASSUME NEW u \in TicketId, ~Row(u), NEW origin, NEW now,
             ticket' = [ticket EXCEPT ![u] = NewTicket(origin, now)]
      PROVE  ticket'[t] = ticket[t]
  BY <1>2 DEF TypeOK
<1> QED
  BY <1>1, <1>2, TicketStep DEF Row

\* A step opens one ticket at most.
LEMMA FiniteStep ==
  ASSUME TypeOK, IsFiniteSet(Tickets), [Next]_vars
  PROVE  IsFiniteSet(Tickets')
<1>1. CASE ticket' = ticket
  <2>1. Tickets' = Tickets
    BY <1>1 DEF Tickets, Row
  <2> QED
    BY <2>1
<1>2. ASSUME NEW u \in TicketId, NEW o \in Operator, NEW row \in TicketRow,
             NEW entry \in Entry, Transaction(o, u, row, entry)
      PROVE  IsFiniteSet(Tickets')
  <2>1. Tickets' = Tickets
    BY <1>2, TicketFields DEF Transaction, Tickets, Row, TypeOK
  <2> QED
    BY <2>1
<1>3. ASSUME NEW u \in TicketId, NEW origin, NEW now, NewTicket(origin, now) \in TicketRow,
             ticket' = [ticket EXCEPT ![u] = NewTicket(origin, now)]
      PROVE  IsFiniteSet(Tickets')
  <2>1. Tickets' = Tickets \cup {u}
    BY <1>3, TicketFields DEF Tickets, Row, TypeOK
  <2> QED
    BY <2>1, FS_AddElement
<1> QED
  BY <1>1, <1>2, <1>3, TicketStep

\* Any two tickets are in one order, and some ticket of a page's rows is the first.
LEMMA Ordered ==
  ASSUME TypeOK
  PROVE  /\ \A t \in Tickets : t \in Nat /\ ticket[t].created \in Nat
         /\ \A t \in Tickets : ~Precedes(t, t)
         /\ \A t, u \in Tickets : t # u => Precedes(t, u) \/ Precedes(u, t)
         /\ \A t, u, v \in Tickets : Precedes(t, u) /\ Precedes(u, v) => Precedes(t, v)
<1>1. \A t \in Tickets : t \in Nat /\ ticket[t].created \in Nat
  BY TicketFields, DeskAssumption DEF Tickets, Row, TypeOK
<1> QED
  BY <1>1 DEF Precedes

LEMMA FirstOfPage ==
  ASSUME TypeOK, NEW rows \in SUBSET Tickets, IsFiniteSet(rows), rows # {}
  PROVE  \E t \in rows : \A u \in rows \ {t} : Precedes(t, u)
<1> DEFINE Before(t) == {u \in rows : Precedes(u, t)}
           befores == {Before(t) : t \in rows}
<1>1. befores \subseteq FiniteSubsetsOf(rows) /\ befores # {}
  <2>1. ASSUME NEW t \in rows PROVE Before(t) \in FiniteSubsetsOf(rows)
    <3> DEFINE B == Before(t)
    <3>1. B \in SUBSET rows
      OBVIOUS
    <3> HIDE DEF B
    <3>2. IsFiniteSet(B)
      BY <3>1, FS_Subset
    <3> QED
      BY <3>1, <3>2 DEF FiniteSubsetsOf, B
  <2> HIDE DEF Before
  <2> QED
    BY <2>1
<1>2. PICK m \in befores : \A b \in befores : ~(<<b, m>> \in StrictSubsetOrdering(rows))
  <2>1. IsWellFoundedOn(StrictSubsetOrdering(rows), FiniteSubsetsOf(rows))
    BY FS_StrictSubsetOrderingWellFounded
  <2> HIDE DEF befores
  <2> QED
    BY <1>1, <2>1, WFMin
<1>3. PICK t \in rows : m = Before(t)
  OBVIOUS
<1>4. ASSUME NEW u \in rows, Precedes(u, t) PROVE FALSE
  <2>1. Before(u) \subseteq Before(t)
    BY <1>4, Ordered
  <2>2. u \in Before(t) /\ u \notin Before(u)
    BY <1>4, Ordered
  <2>3. <<Before(u), Before(t)>> \in StrictSubsetOrdering(rows)
    BY <2>1, <2>2 DEF StrictSubsetOrdering
  <2> QED
    BY <1>2, <1>3, <2>3
<1> QED
  BY <1>4, Ordered

\* The reader has been shown what is at or before its cursor.
ShownIsPassed ==
  \A i \in DOMAIN listing.shown :
    Row(listing.shown[i]) /\ ~After(listing.shown[i], listing.point)

\* A ticket that is owed and still matches has matched all along: it is behind
\* the cursor, or among those that are shown.
OwedIsShown ==
  \A t \in listing.owed :
    /\ Row(t)
    /\ listing.filter = "resolved" => ticket[t].status = "resolved"
    /\ Matches(t, listing.filter) /\ ~After(t, listing.point) => t \in Range(listing.shown)
    /\ Matches(t, listing.filter) /\ listing.ended => ~After(t, listing.point)

ListingInv ==
  /\ IsFiniteSet(Tickets)
  /\ listing # None => ShownIsPassed /\ IsInjective(listing.shown) /\ OwedIsShown

LEMMA ReadingFields ==
  \A l \in Reading :
    /\ l.filter \in Filter /\ l.point.created \in Nat /\ l.point.id \in Nat
    /\ l.shown \in Seq(TicketId) /\ l.owed \subseteq TicketId /\ l.ended \in BOOLEAN
    /\ l # None
BY NoneAssumption DEF Reading

\* Between the pages of a listing.
LEMMA ListingWaits ==
  ASSUME TypeOK, ListingInv, [Next]_vars, listing' = listing
  PROVE  ListingInv'
<1>1. IsFiniteSet(Tickets')
  BY FiniteStep DEF ListingInv
<1> SUFFICES ASSUME listing # None
             PROVE  ShownIsPassed' /\ OwedIsShown'
  BY <1>1 DEF ListingInv
<1>2. PICK l \in Reading : l = listing
  BY DEF TypeOK
<1>3. ASSUME NEW t \in TicketId, Row(t)
      PROVE  /\ Row(t)'
             /\ After(t, l.point)' <=> After(t, l.point)
             /\ l.filter = "open" /\ Matches(t, l.filter)' => Matches(t, l.filter)
  BY <1>3, RowsMove DEF After, Matches
<1>4. ShownIsPassed'
  <2>1. \A i \in DOMAIN l.shown : l.shown[i] \in TicketId
    BY ReadingFields
  <2>2. \A i \in DOMAIN l.shown : Row(l.shown[i]) /\ ~After(l.shown[i], l.point)
    BY <1>2 DEF ListingInv, ShownIsPassed
  <2>3. \A i \in DOMAIN l.shown : Row(l.shown[i])' /\ ~After(l.shown[i], l.point)'
    BY <1>3, <2>1, <2>2
  <2> QED
    BY <1>2, <2>3 DEF ShownIsPassed
<1>5. OwedIsShown'
  <2> SUFFICES ASSUME NEW t \in l.owed
               PROVE  /\ Row(t)'
                      /\ l.filter = "resolved" => ticket'[t].status = "resolved"
                      /\ Matches(t, l.filter)' /\ ~After(t, l.point)' => t \in Range(l.shown)
                      /\ Matches(t, l.filter)' /\ l.ended => ~After(t, l.point)'
    BY <1>2 DEF OwedIsShown
  <2>1. t \in TicketId
    BY ReadingFields
  <2>2. /\ Row(t)
        /\ l.filter = "resolved" => ticket[t].status = "resolved"
        /\ Matches(t, l.filter) /\ ~After(t, l.point) => t \in Range(l.shown)
        /\ Matches(t, l.filter) /\ l.ended => ~After(t, l.point)
    BY <1>2 DEF ListingInv, OwedIsShown
  <2>3. Matches(t, l.filter)' => Matches(t, l.filter)
    <3>1. l.filter \in Filter
      BY ReadingFields
    <3> QED
      BY <1>3, <2>1, <2>2, <3>1 DEF Matches, Filter
  <2>4. l.filter = "resolved" => ticket'[t].status = "resolved"
    BY <2>1, <2>2, RowsMove
  <2> QED
    BY <1>3, <2>1, <2>2, <2>3, <2>4
<1> QED
  BY <1>4, <1>5

LEMMA ListingBegins ==
  ASSUME TypeOK, ListingInv, NEW filter \in Filter, BeginListing(filter)
  PROVE  ListingInv' /\ listing' \in Reading
<1>1. /\ listing' = [filter |-> filter, point |-> Start, shown |-> << >>, ended |-> FALSE,
                    owed |-> {t \in Tickets : Matches(t, filter)}]
      /\ ticket' = ticket
  BY DEF BeginListing
<1>2. listing' \in Reading
  <2>1. << >> \in Seq(TicketId)
    OBVIOUS
  <2>2. Start \in [created : Nat, id : Nat]
    BY DeskAssumption DEF Start
  <2> QED
    BY <1>1, <2>1, <2>2 DEF Reading, Tickets
<1>3. Tickets' = Tickets
  BY <1>1 DEF Tickets, Row
<1>4. ASSUME NEW t \in Tickets PROVE After(t, Start)'
  <2>1. ticket[t].created \in 0..MaxClock
    BY TicketFields DEF Tickets, Row, TypeOK
  <2> QED
    BY <1>1, <2>1, DeskAssumption DEF After, Start
<1>5. ShownIsPassed' /\ IsInjective(listing.shown)'
  BY <1>1 DEF ShownIsPassed, IsInjective
<1>6. OwedIsShown'
  <2> SUFFICES ASSUME NEW t \in Tickets, Matches(t, filter)
               PROVE  /\ Row(t)'
                      /\ filter = "resolved" => ticket[t].status = "resolved"
                      /\ After(t, Start)'
    BY <1>1 DEF OwedIsShown
  <2> QED
    BY <1>1, <1>4 DEF Matches, Row
<1> QED
  BY <1>2, <1>3, <1>5, <1>6 DEF ListingInv

\* A page: the first of the rows behind the cursor is shown, and becomes the cursor.
LEMMA ListingGoesOn ==
  ASSUME TypeOK, ListingInv, NextPage
  PROVE  ListingInv' /\ listing' \in Reading
<1>1. PICK l \in Reading : l = listing /\ ~l.ended
  BY DEF NextPage, TypeOK
<1> DEFINE rows == {t \in Tickets : Matches(t, l.filter) /\ After(t, l.point)}
           first == CHOOSE t \in rows : \A u \in rows \ {t} : Precedes(t, u)
           point == [created |-> ticket[first].created, id |-> first]
           next == [l EXCEPT !.shown = Append(@, first), !.point = point,
                             !.ended = rows = {first}]
<1>2. /\ ticket' = ticket
      /\ listing' = IF rows = {} THEN [l EXCEPT !.ended = TRUE] ELSE next
  BY <1>1 DEF NextPage
<1>3. /\ IsFiniteSet(Tickets) /\ IsInjective(l.shown)
      /\ \A i \in DOMAIN l.shown : Row(l.shown[i]) /\ ~After(l.shown[i], l.point)
      /\ \A t \in l.owed :
           /\ Row(t)
           /\ l.filter = "resolved" => ticket[t].status = "resolved"
           /\ Matches(t, l.filter) /\ ~After(t, l.point) => t \in Range(l.shown)
  BY <1>1, ReadingFields DEF ListingInv, ShownIsPassed, OwedIsShown
<1>4. Tickets' = Tickets /\ \A t \in TicketId : Row(t)' <=> Row(t)
  BY <1>2 DEF Tickets, Row
<1>5. CASE rows = {}
  <2> DEFINE last == [l EXCEPT !.ended = TRUE]
  <2>1. /\ last \in Reading /\ last.filter = l.filter /\ last.point = l.point
        /\ last.shown = l.shown /\ last.owed = l.owed
    BY DEF Reading
  <2>2. listing' = last
    BY <1>2, <1>5
  <2>3. \A t \in l.owed : Matches(t, l.filter) => ~After(t, l.point)
    BY <1>3, <1>5, ReadingFields DEF Tickets
  <2> HIDE DEF last
  <2>4. ShownIsPassed'
    BY <1>2, <1>3, <2>1, <2>2 DEF ShownIsPassed, Row, After
  <2>5. OwedIsShown'
    <3>1. ASSUME NEW t \in l.owed
          PROVE  /\ Row(t)
                 /\ l.filter = "resolved" => ticket[t].status = "resolved"
                 /\ Matches(t, l.filter) /\ ~After(t, l.point) => t \in Range(l.shown)
                 /\ Matches(t, l.filter) => ~After(t, l.point)
      BY <1>3, <2>3
    <3> QED
      BY <1>2, <2>1, <2>2, <3>1 DEF OwedIsShown, Row, After, Matches
  <2> QED
    BY <1>3, <1>4, <2>1, <2>2, <2>4, <2>5 DEF ListingInv
<1>6. CASE rows # {}
  <2>1. first \in rows /\ \A u \in rows \ {first} : Precedes(first, u)
    <3>1. IsFiniteSet(rows)
      BY <1>3, FS_Subset
    <3>2. \E t \in rows : \A u \in rows \ {t} : Precedes(t, u)
      BY <1>3, <1>6, <3>1, FirstOfPage
    <3> HIDE DEF rows
    <3> QED
      BY <3>2
  <2> HIDE DEF first
  <2>2. /\ first \in Tickets /\ first \in TicketId /\ first \in Nat
        /\ ticket[first].created \in Nat
        /\ Matches(first, l.filter) /\ After(first, l.point)
    BY <2>1, Ordered DEF Tickets
  <2>3. Append(l.shown, first) \in Seq(TicketId) /\ point \in [created : Nat, id : Nat]
    BY <2>2, ReadingFields
  <2>4. /\ next \in Reading /\ next.filter = l.filter /\ next.point = point
        /\ next.shown = Append(l.shown, first) /\ next.owed = l.owed
        /\ next.ended <=> rows = {first}
    BY <2>3 DEF Reading
  <2>5. listing' = next
    BY <1>2, <1>6
  <2>6. point.created = ticket[first].created /\ point.id = first
    OBVIOUS
\* The cursor moves down: what it has passed stays passed.
  <2>7. ASSUME NEW t \in Tickets, After(t, point)
        PROVE  After(t, l.point) /\ t # first
    <3>1. t \in Nat /\ ticket[t].created \in Nat
      BY Ordered
    <3>2. l.point.created \in Nat /\ l.point.id \in Nat
      BY ReadingFields
    <3> HIDE DEF point
    <3> QED
      BY <2>2, <2>6, <2>7, <3>1, <3>2 DEF After
  <2>8. ASSUME NEW t \in rows, t # first PROVE After(t, point)
    BY <2>1, <2>6, <2>8, Ordered DEF Precedes, After
  <2> DEFINE n == Len(l.shown)
             shown == Append(l.shown, first)
  <2>9. /\ n \in Nat /\ DOMAIN l.shown = 1..n /\ DOMAIN shown = 1..n + 1
        /\ \A i \in 1..n : shown[i] = l.shown[i] /\ l.shown[i] \in TicketId
        /\ shown[n + 1] = first
        /\ \A i \in 1..n + 1 : i \in 1..n \/ i = n + 1
    <3>1. l.shown \in Seq(TicketId)
      BY ReadingFields
    <3> QED
      BY <3>1
  <2> HIDE DEF point, next, n, shown, rows
  <2>10. ASSUME NEW i \in DOMAIN shown
         PROVE  shown[i] \in TicketId /\ Row(shown[i]) /\ ~After(shown[i], point)
    <3>1. CASE i = n + 1
      BY <2>2, <2>7, <2>9, <3>1 DEF Tickets
    <3>2. CASE i \in 1..n
      BY <1>3, <2>7, <2>9, <3>2 DEF Tickets
    <3> QED
      BY <2>9, <3>1, <3>2
  <2>11. IsInjective(shown)
    <3>1. \A i \in 1..n : l.shown[i] # first
      BY <1>3, <2>2, <2>9
    <3> QED
      BY <1>3, <2>9, <3>1 DEF IsInjective
  <2>12. ASSUME NEW t \in l.owed, Matches(t, l.filter), ~After(t, point)
         PROVE  t \in Range(shown)
    <3>1. t \in Tickets
      BY <1>3, ReadingFields DEF Tickets
    <3>2. CASE After(t, l.point)
      <4>1. t = first
        BY <2>8, <2>12, <3>1, <3>2 DEF rows
      <4> QED
        BY <2>9, <4>1 DEF Range
    <3>3. CASE ~After(t, l.point)
      <4>1. t \in Range(l.shown)
        BY <1>3, <2>12, <3>3
      <4> QED
        BY <2>9, <4>1 DEF Range
    <3> QED
      BY <3>2, <3>3
  <2>13. ASSUME rows = {first}, NEW t \in l.owed, Matches(t, l.filter)
         PROVE  ~After(t, point)
    <3>1. t \in Tickets
      BY <1>3, ReadingFields DEF Tickets
    <3> QED
      BY <2>7, <2>13, <3>1 DEF rows
  <2>14. ShownIsPassed'
    BY <1>2, <2>4, <2>5, <2>10 DEF ShownIsPassed, Row, After, shown
  <2>15. OwedIsShown'
    BY <1>2, <1>3, <2>4, <2>5, <2>12, <2>13 DEF OwedIsShown, Row, After, Matches, shown
  <2> QED
    BY <1>3, <1>4, <2>4, <2>5, <2>11, <2>14, <2>15 DEF ListingInv, shown
<1> QED
  BY <1>5, <1>6

-----------------------------------------------------------------------------
(* The theorems.                                                           *)

LEMMA ListingStep ==
  ASSUME TypeOK, ListingInv, [Next]_vars
  PROVE  ListingInv' /\ listing' \in Reading \cup {None}
<1>1. CASE listing' = listing
  BY <1>1, ListingWaits DEF TypeOK
<1>2. ASSUME NEW filter \in Filter, BeginListing(filter)
      PROVE  ListingInv' /\ listing' \in Reading \cup {None}
  BY <1>2, ListingBegins
<1>3. CASE NextPage
  BY <1>3, ListingGoesOn
<1>4. \/ listing' = listing \/ NextPage
      \/ \E filter \in Filter : BeginListing(filter)
  BY DEF Next, vars, CreateTicket, ClaimTicket, ResolveTicket, ReassignTicket, HandOver,
     Save, CreateReview, AppendReviewSupplement, AddSupplement, ReviewDetails, ResolveReview,
     Decide
<1> QED
  BY <1>1, <1>2, <1>3, <1>4

LEMMA TypeInit == Init => TypeOK
BY DeskAssumption DEF Init, TypeOK

LEMMA ListingInit == Init => ListingInv
<1> SUFFICES ASSUME Init PROVE ListingInv
  OBVIOUS
<1>1. Tickets = {} /\ listing = None
  BY DEF Init, Tickets, Row
<1> QED
  BY <1>1, FS_EmptySet DEF ListingInv

LEMMA TypeStep ==
  ASSUME TypeOK, ListingInv, [Next]_vars
  PROVE  TypeOK'
<1>1. ticket \in [TicketId -> TicketRow \cup {None}]
  BY DEF TypeOK
<1>2. ASSUME NEW t \in TicketId, NEW row \in TicketRow, ticket' = [ticket EXCEPT ![t] = row]
      PROVE  ticket' \in [TicketId -> TicketRow \cup {None}]
  BY <1>1, <1>2
<1>3. \/ ticket' = ticket
      \/ \E t \in TicketId, row \in TicketRow : ticket' = [ticket EXCEPT ![t] = row]
  <2>1. CASE ticket' = ticket
    BY <2>1
  <2>2. ASSUME NEW t \in TicketId, NEW o \in Operator, NEW row \in TicketRow,
               NEW entry \in Entry, Transaction(o, t, row, entry)
        PROVE  \E u \in TicketId, new \in TicketRow : ticket' = [ticket EXCEPT ![u] = new]
    BY <2>2 DEF Transaction
  <2>3. ASSUME NEW t \in TicketId, NEW origin \in Review \cup {"tool", "transfer"},
               NEW now \in 0..MaxClock, NewTicket(origin, now) \in TicketRow,
               ticket' = [ticket EXCEPT ![t] = NewTicket(origin, now)]
        PROVE  \E u \in TicketId, row \in TicketRow : ticket' = [ticket EXCEPT ![u] = row]
    BY <2>3
  <2> QED
    BY <2>1, <2>2, <2>3, TicketStep
<1>4. ticket' \in [TicketId -> TicketRow \cup {None}]
  BY <1>1, <1>2, <1>3
<1>5. clock' \in 0..MaxClock
  BY TicketStep
<1>6. review' \in [Review -> ReviewRow \cup {None}] /\ seen' \in [Operator -> [Review -> Nat]]
  BY ReviewStep
<1>7. listing' \in Reading \cup {None}
  BY ListingStep
<1> QED
  BY <1>4, <1>5, <1>6, <1>7 DEF TypeOK

DeskInv == TypeOK /\ ListingInv /\ AuditExplainsTicket /\ MaterialRecordedOnce

LEMMA DeskInvariant == Spec => []DeskInv
<1>1. Init => DeskInv
  <2> SUFFICES ASSUME Init PROVE AuditExplainsTicket /\ MaterialRecordedOnce
    BY TypeInit, ListingInit DEF DeskInv
  <2> QED
    BY DEF Init, AuditExplainsTicket, MaterialRecordedOnce, Tickets, Row
<1>2. DeskInv /\ [Next]_vars => DeskInv'
  BY TypeStep, ListingStep, AuditStep, MaterialStep DEF DeskInv
<1> QED
  BY <1>1, <1>2, PTL DEF Spec

\* The type invariant; with it, the first row of a page exists.
THEOREM TypeCorrect == Spec => []TypeOK
<1>1. DeskInv => TypeOK
  BY DEF DeskInv
<1> QED
  BY <1>1, DeskInvariant, PTL

\* The audit of a ticket explains its row, whatever requests race, are repeated
\* or come late (claim_ticket, reassign_ticket, resolve_ticket).
THEOREM AuditIsComplete == Spec => []AuditExplainsTicket
<1>1. DeskInv => AuditExplainsTicket
  BY DEF DeskInv
<1> QED
  BY <1>1, DeskInvariant, PTL

\* A submission is in its review once, and the version counts the material
\* (append_review_supplement).
THEOREM MaterialIsCounted == Spec => []MaterialRecordedOnce
<1>1. DeskInv => MaterialRecordedOnce
  BY DEF DeskInv
<1> QED
  BY <1>1, DeskInvariant, PTL

\* A reader who follows the cursor misses no ticket that matched all along and
\* sees none twice, however many tickets there are and whatever becomes of them
\* between the pages (list_tickets_page).
THEOREM ListingsAreComplete == Spec => []ListingIsComplete
<1>1. DeskInv => ListingIsComplete
  BY DEF DeskInv, ListingInv, OwedIsShown, ListingIsComplete
<1> QED
  BY <1>1, DeskInvariant, PTL

\* No review is decided whose latest material no operator has seen (resolve_review).
THEOREM DecisionsAreInformed == Spec => DecidedOnSeenMaterial
<1>1. DeskInv /\ [Next]_vars =>
        [\A r \in Review :
           review[r] # None /\ review'[r].status # review[r].status /\ Version(r) > 0 =>
             \E o \in Operator : seen[o][r] = Version(r)]_vars
  BY ReviewStep DEF DeskInv, ReviewMove
<1> QED
  BY <1>1, DeskInvariant, PTL DEF Spec, DecidedOnSeenMaterial
=============================================================================
