------------------------------ MODULE HumanDesk ------------------------------
(***************************************************************************)
(* Work that waits for people: tickets that operators claim, hand over and *)
(* resolve (services/ticket_service), reviews whose material grows while   *)
(* they are decided (services/review_service), and the ticket that the     *)
(* approval of a follow-up review opens (services/review_continuation).    *)
(*                                                                         *)
(* Every action is one transaction on one locked row.  Repeated and late   *)
(* requests need no messages: any operator may send any request, with any  *)
(* arguments, at any time.                                                 *)
(***************************************************************************)
EXTENDS Naturals, SequencesExt

CONSTANTS
  None,         \* what is not there
  Operator,     \* configured admins
  TicketId,     \* numbers: ids are compared by the pages of a listing
  Traced,       \* the ids that transfer_to_human derives from a trace
  Review,       \* ids of follow-up reviews
  Submission,   \* submission ids, each with the actor who uses it
  MaxAudit,     \* bound on a ticket's audit
  MaxClock      \* bound on the clock (seconds, as created_at has them)

ASSUME DeskAssumption ==
  /\ TicketId \subseteq Nat /\ Traced \subseteq TicketId
  /\ MaxClock \in Nat

VARIABLES
  clock,    \* the latest created_at
  ticket,   \* rows of tickets
  review,   \* rows of manual_reviews
  seen,     \* per operator and review: the version review_details last showed
  listing   \* one reader of list_tickets_page who follows next_cursor

vars == <<clock, ticket, review, seen, listing>>

\* The rows of the two tables, and how far a reader of a listing has come.
Outcome == {"answered", "rejected"}
Open == {"pending", "in_progress"}
Entry ==
  [action : {"claim", "reassign", "resolve"}, by : Operator,
   from : Operator \cup {None}, to : Operator]
TicketRow ==
  [status : Open \cup {"resolved"}, assigned : Operator \cup {None},
   resolution : Outcome \cup {None}, audit : Seq(Entry), created : 0..MaxClock,
   origin : Review \cup {"tool", "transfer"}]

Verdict == {"approved", "rejected"}
Supplement ==
  [id : Submission, version : Nat, at : Verdict \cup {"pending_review"}]
ReviewRow ==
  [status : Verdict \cup {"pending_review"}, supplements : Seq(Supplement)]

Filter == {"all", "open", "resolved"}
Reading ==
  [filter : Filter, point : [created : Nat, id : Nat], shown : Seq(TicketId),
   ended : BOOLEAN, owed : SUBSET TicketId]

ASSUME NoneAssumption == None \notin TicketRow /\ None \notin ReviewRow /\ None \notin Reading

Row(t) == ticket[t] # None
Tickets == {t \in TicketId : Row(t)}

-----------------------------------------------------------------------------
(* Tickets.                                                                *)

NewTicket(origin, now) ==
  [status |-> "pending", assigned |-> None, resolution |-> None,
   audit |-> << >>, created |-> now, origin |-> origin]

\* save_ticket_to_db: the primary key refuses a second row.
SaveTicket(t, origin) ==
  /\ ~Row(t)
  /\ \E now \in {n \in clock .. clock + 1 : n <= MaxClock} :
       /\ clock' = now
       /\ ticket' = [ticket EXCEPT ![t] = NewTicket(origin, now)]

\* create_ticket, with a random id, and transfer_to_human, whose id is that of
\* its trace: a retry meets the primary key and returns the saved row.
CreateTicket(t) ==
  /\ SaveTicket(t, IF t \in Traced THEN "transfer" ELSE "tool")
  /\ UNCHANGED <<review, seen, listing>>

Save(t, row, entry) ==
  /\ Len(ticket[t].audit) < MaxAudit
  /\ ticket' = [ticket EXCEPT ![t] = [row EXCEPT !.audit = Append(@, entry)]]
  /\ UNCHANGED <<clock, review, seen, listing>>

\* The same operator's second claim is a replay that writes nothing.
ClaimTicket(o, t) ==
  /\ Row(t)
  /\ ticket[t].status = "pending"
  /\ ticket[t].assigned = None
  /\ Save(t, [ticket[t] EXCEPT !.status = "in_progress", !.assigned = o],
          [action |-> "claim", by |-> o, from |-> None, to |-> o])

\* An equal resolution of a resolved ticket is a replay that writes nothing.
ResolveTicket(o, t, outcome) ==
  /\ Row(t)
  /\ ticket[t].assigned = o
  /\ ticket[t].status = "in_progress"
  /\ Save(t, [ticket[t] EXCEPT !.status = "resolved", !.resolution = outcome],
          [action |-> "resolve", by |-> o, from |-> o, to |-> o])

HandOver(o, t, target, expected) ==
  Save(t, [ticket[t] EXCEPT !.assigned = target],
       [action |-> "reassign", by |-> o, from |-> expected, to |-> target])

\* Mutant: the handover does not look at who works on the ticket now.
ReassignUnseen(o, t, target, expected) ==
  /\ Row(t)
  /\ ticket[t].status = "in_progress"
  /\ ticket[t].assigned # target
  /\ HandOver(o, t, target, expected)

\* The caller names the assignee it saw.  A request equal to the last entry of
\* the audit finds its target at work: a replay that writes nothing.
ReassignTicket(o, t, target, expected) ==
  /\ Row(t)
  /\ ticket[t].status = "in_progress"
  /\ ticket[t].assigned = expected
  /\ ticket[t].assigned # target
  /\ HandOver(o, t, target, expected)

-----------------------------------------------------------------------------
(* Reviews.                                                                *)

NewReview == [status |-> "pending_review", supplements |-> << >>]
Version(r) == Len(review[r].supplements)
Submitted(r, s) == \E i \in DOMAIN review[r].supplements : review[r].supplements[i].id = s

CreateReview(r) ==
  /\ review[r] = None
  /\ review' = [review EXCEPT ![r] = NewReview]
  /\ UNCHANGED <<clock, ticket, seen, listing>>

AddSupplement(r, s) ==
  /\ review' = [review EXCEPT ![r].supplements =
                  Append(@, [id |-> s, version |-> Version(r) + 1,
                             at |-> review[r].status])]
  /\ UNCHANGED <<clock, ticket, seen, listing>>

\* Mutant: only the latest submission is recognised when it is sent again.
AppendUnlessLast(r, s) ==
  /\ review[r] # None
  /\ Version(r) < 3
  /\ Version(r) > 0 => Last(review[r].supplements).id # s
  /\ AddSupplement(r, s)

\* append_review_supplement: from the customer's form, or from a conversation
\* that found an open review (create_manual_review, after it has let go of the
\* order).  It is taken after the decision, too; a submission that is there is
\* a replay.
AppendReviewSupplement(r, s) ==
  /\ review[r] # None
  /\ ~Submitted(r, s)
  /\ AddSupplement(r, s)

\* review_details: the operator opens the review.
ReviewDetails(o, r) ==
  /\ review[r] # None
  /\ seen' = [seen EXCEPT ![o][r] = Version(r)]
  /\ UNCHANGED <<clock, ticket, review, listing>>

\* The version a request of the operator carries: the one it saw, or none.
Stated(o, r) == {seen[o][r], 0}

Decide(o, r, status) ==
  /\ review' = [review EXCEPT ![r].status = status]
  /\ IF status = "approved"
     THEN \E t \in TicketId \ Traced : SaveTicket(t, r)
     ELSE UNCHANGED <<clock, ticket>>
  /\ UNCHANGED <<seen, listing>>

\* Mutant: the version is compared only when there was none before.
ResolveStated(o, r, status, version) ==
  /\ review[r] # None
  /\ review[r].status = "pending_review"
  /\ version > 0 \/ Version(r) = 0
  /\ Decide(o, r, status)

\* resolve_review; version 0 stands for a request without one, which is as good
\* as 0.  An approval commits together with its follow-up ticket.
ResolveReview(o, r, status, version) ==
  /\ review[r] # None
  /\ review[r].status = "pending_review"
  /\ version = Version(r)
  /\ Decide(o, r, status)

-----------------------------------------------------------------------------
(* A listing, one row to a page.                                           *)

Matches(t, filter) ==
  /\ Row(t)
  /\ \/ filter = "all"
     \/ filter = "open" /\ ticket[t].status \in Open
     \/ filter = "resolved" /\ ticket[t].status = "resolved"

\* ORDER BY created_at DESC, ticket_id DESC
Precedes(t, u) ==
  \/ ticket[t].created > ticket[u].created
  \/ ticket[t].created = ticket[u].created /\ t > u

\* Mutant: the cursor's tie is not broken.
AfterTime(t, point) == ticket[t].created < point.created

\* What the cursor leaves for the next pages.
After(t, point) ==
  \/ ticket[t].created < point.created
  \/ ticket[t].created = point.created /\ t < point.id

Start == [created |-> MaxClock + 1, id |-> 0]

BeginListing(filter) ==
  /\ listing = None
  /\ listing' = [filter |-> filter, point |-> Start, shown |-> << >>, ended |-> FALSE,
                 owed |-> {t \in Tickets : Matches(t, filter)}]
  /\ UNCHANGED <<clock, ticket, review, seen>>

\* list_tickets_page.  next_cursor is missing when nothing is left.
NextPage ==
  /\ listing # None /\ ~listing.ended
  /\ LET rows == {t \in Tickets : Matches(t, listing.filter) /\ After(t, listing.point)}
         first == CHOOSE t \in rows : \A u \in rows \ {t} : Precedes(t, u)
     IN  listing' = IF rows = {} THEN [listing EXCEPT !.ended = TRUE]
                    ELSE [listing EXCEPT !.shown = Append(@, first),
                                         !.point = [created |-> ticket[first].created,
                                                    id |-> first],
                                         !.ended = rows = {first}]
  /\ UNCHANGED <<clock, ticket, review, seen>>

-----------------------------------------------------------------------------
(* The specification.                                                      *)

Init ==
  /\ clock = 0
  /\ ticket = [t \in TicketId |-> None]
  /\ review = [r \in Review |-> None]
  /\ seen = [o \in Operator |-> [r \in Review |-> 0]]
  /\ listing = None

Next ==
  \/ \E t \in TicketId : CreateTicket(t)
  \/ \E o \in Operator, t \in TicketId :
       \/ ClaimTicket(o, t)
       \/ \E outcome \in Outcome : ResolveTicket(o, t, outcome)
       \/ \E target, expected \in Operator : ReassignTicket(o, t, target, expected)
  \/ \E r \in Review :
       \/ CreateReview(r)
       \/ \E s \in Submission : AppendReviewSupplement(r, s)
       \/ \E o \in Operator :
            \/ ReviewDetails(o, r)
            \/ \E status \in Verdict, version \in Stated(o, r) :
                 ResolveReview(o, r, status, version)
  \/ \E filter \in Filter : BeginListing(filter)
  \/ NextPage

Spec == Init /\ [][Next]_vars

-----------------------------------------------------------------------------
(* Properties.                                                             *)

\* The audit tells the whole story of a ticket: it begins with one claim, every
\* handover is from the operator who had the ticket, only that operator
\* resolves it, nothing follows, and its last line is where the row stands
\* (claim, reassign and resolve race with each other and are repeated).
AuditExplainsTicket == \A t \in Tickets :
  LET row == ticket[t]  audit == row.audit
  IN  /\ row.assigned = IF audit = << >> THEN None ELSE Last(audit).to
      /\ row.status = IF audit = << >> THEN "pending"
                      ELSE IF Last(audit).action = "resolve" THEN "resolved" ELSE "in_progress"
      /\ \A i \in DOMAIN audit :
           /\ (audit[i].action = "claim") = (i = 1)
           /\ i > 1 => audit[i].from = audit[i - 1].to
           /\ audit[i].action = "resolve" => i = Len(audit) /\ audit[i].by = audit[i].from

\* A reader who follows next_cursor to its end has seen every ticket that
\* matched the filter all along, and none twice, with tickets of one second,
\* and tickets opened, claimed and resolved between the pages.
ListingIsComplete ==
  listing # None =>
    /\ IsInjective(listing.shown)
    /\ listing.ended =>
         {t \in listing.owed : Matches(t, listing.filter)} \subseteq Range(listing.shown)

\* Nobody decides a review without having seen all the material it holds at
\* that moment, however often the customer adds to it meanwhile.
DecidedOnSeenMaterial ==
  [][\A r \in Review :
       review[r] # None /\ review'[r].status # review[r].status /\ Version(r) > 0 =>
         \E o \in Operator : seen[o][r] = Version(r)]_vars

\* A customer's submission is in the review once, however often it is sent and
\* whatever is submitted in between, and the versions count the material, so
\* that equal versions mean equal material.
MaterialRecordedOnce == \A r \in Review :
  review[r] # None =>
    \A i, j \in DOMAIN review[r].supplements :
      /\ review[r].supplements[i].version = i
      /\ review[r].supplements[i].id = review[r].supplements[j].id => i = j
=============================================================================
