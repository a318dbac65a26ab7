--------------------------- MODULE RowLocks_proofs ---------------------------
(***************************************************************************)
(* No set of transactions ever waits for itself, for any number of         *)
(* transactions and any rows.                                              *)
(*                                                                         *)
(* The argument is the one the code's comments appeal to: there is one     *)
(* order of all rows (messages, reviews, refunds, orders, and within a     *)
(* table the place in a batch) in which every transaction asks.  Ascending *)
(* says it of each of them; of a group that waits for itself, the member   *)
(* that asks for the greatest row would wait for one that asks for a       *)
(* greater row still.                                                      *)
(***************************************************************************)
EXTENDS RowLocks, TLAPS, WellFoundedInduction

Level(r) ==
  CASE r \in Message -> 0 [] r \in Review -> 1 [] r \in Refund -> 2 [] OTHER -> 3

\* One order of all rows.
Below(r, q) ==
  Level(r) < Level(q) \/ (Level(r) = Level(q) /\ Place[r] < Place[q])

\* The stages of a plan are of one table each, and go up from table to table.
PlanAscends(p) ==
  /\ p \in [Stages -> SUBSET Row]
  /\ \A i, j \in Stages : \A r \in p[i], q \in p[j] :
       (i < j => Level(r) < Level(q)) /\ (i = j => Level(r) = Level(q))

\* What a transaction holds is below what it has still to lock.
HeldIsBelow ==
  \A t \in Tx : \A i \in Stages : \A r \in held[t], q \in todo[t][i] : Below(r, q)

\* It asks for what is due.
AskedIsDue == \A t \in Tx : asked[t] # None => asked[t] \in Row /\ Due(t, asked[t])

LocksTypeOK ==
  /\ todo \in [Tx -> [Stages -> SUBSET Row]]
  /\ asked \in [Tx -> Row \cup {None}]
  /\ held \in [Tx -> SUBSET Row]

Ascending ==
  /\ LocksTypeOK
  /\ \A t \in Tx : PlanAscends(todo[t])
  /\ HeldIsBelow
  /\ AskedIsDue

-----------------------------------------------------------------------------
(* The order of the rows. *)

LEMMA Levels ==
  /\ \A r \in Row : Level(r) \in 0..3 /\ Place[r] \in 0..MaxPlace
  /\ \A r \in Message : Level(r) = 0
  /\ \A r \in Review : Level(r) = 1
  /\ \A r \in Refund : Level(r) = 2
  /\ \A r \in Order : Level(r) = 3
BY TablesAssumption, PlaceAssumption DEF Level, Row

\* Two rows of one table differ in their places.
LEMMA OneTable ==
  ASSUME NEW r \in Row, NEW q \in Row, Level(r) = Level(q), Place[r] = Place[q]
  PROVE  r = q
<1>1. \/ r \in Message /\ q \in Message
      \/ r \in Review /\ q \in Review
      \/ r \in Refund /\ q \in Refund
      \/ r \in Order /\ q \in Order
  BY Levels DEF Row
<1> QED
  BY <1>1, PlaceAssumption

-----------------------------------------------------------------------------
(* Every plan ascends. *)

LEMMA PlanFromStages ==
  ASSUME NEW A \in SUBSET Row, NEW B \in SUBSET Row, NEW C \in SUBSET Row,
         \A r, q \in A : Level(r) = Level(q),
         \A r, q \in B : Level(r) = Level(q),
         \A r, q \in C : Level(r) = Level(q),
         \A r \in A, q \in B \cup C : Level(r) < Level(q),
         \A r \in B, q \in C : Level(r) < Level(q)
  PROVE  PlanAscends(Plan(A, B, C))
<1> DEFINE p == Plan(A, B, C)
<1>1. p[1] = A /\ p[2] = B /\ p[3] = C
  BY DEF Plan
<1>2. p \in [Stages -> SUBSET Row]
  BY DEF Plan, Stages
<1>3. ASSUME NEW i \in Stages, NEW j \in Stages, NEW r \in p[i], NEW q \in p[j]
      PROVE  (i < j => Level(r) < Level(q)) /\ (i = j => Level(r) = Level(q))
  <2>1. i \in {1, 2, 3} /\ j \in {1, 2, 3}
    BY DEF Stages
  <2> QED
    BY <1>1, <1>3, <2>1
<1> QED
  BY <1>2, <1>3 DEF PlanAscends

\* The empty plan of an idle thread.
LEMMA NothingAscends == PlanAscends(Nothing) /\ \A i \in Stages : Nothing[i] = {}
<1>1. PlanAscends(Nothing)
  BY PlanFromStages DEF Nothing
<1>2. \A i \in Stages : Nothing[i] = {}
  BY DEF Nothing, Plan, Stages
<1> QED
  BY <1>1, <1>2

\* One order of the tables for cancel_refund, resolve_review, the worker, the
\* payment, the claim, the repair and the transactions with one row.
LEMMA PlansAscend ==
  ASSUME NEW p \in Plans
  PROVE  PlanAscends(p)
<1>1. CASE p \in CancelRefund
  <2>1. PICK f \in Refund : \E S \in SUBSET Reviews(OrderOf[f]) : p = Plan(S, {f}, {OrderOf[f]})
    BY <1>1 DEF CancelRefund
  <2>2. PICK S \in SUBSET Reviews(OrderOf[f]) : p = Plan(S, {f}, {OrderOf[f]})
    BY <2>1
  <2> QED
    BY <2>2, PlanFromStages, Levels, ReferenceAssumption DEF Reviews, Row
<1>2. CASE p \in ResolveReview
  <2>0. PICK v \in Review :
            p \in UNION {{Plan({v}, F, O) : O \in AtMostOne({OrderOf[v]})}
                          : F \in AtMostOne(Refunds(OrderOf[v]))}
    BY <1>2 DEF ResolveReview
  <2>1. PICK F \in AtMostOne(Refunds(OrderOf[v])) :
            p \in {Plan({v}, F, O) : O \in AtMostOne({OrderOf[v]})}
    BY <2>0
  <2>2. PICK O \in AtMostOne({OrderOf[v]}) : p = Plan({v}, F, O)
    BY <2>1
  <2>3. /\ F \subseteq Refund /\ O \subseteq Order
        /\ \A r, q \in F : Level(r) = Level(q)
    BY Levels, ReferenceAssumption DEF Refunds, AtMostOne
  <2>4. F \subseteq Row /\ O \subseteq Row /\ {v} \subseteq Row
    BY <2>3 DEF Row
  <2> QED
    BY <2>2, <2>3, <2>4, PlanFromStages, Levels
<1>3. CASE p \in CreateReview \cup PersistRefund
  BY <1>3, PlanFromStages DEF CreateReview, PersistRefund, Row
<1>4. CASE p \in AppendSupplement \cup PaymentError
  BY <1>4, PlanFromStages DEF AppendSupplement, PaymentError, Row
<1>5. CASE p \in ProcessMessage
  <2>1. PICK m \in Message : p = Plan({m}, {RefundOf[m]}, {OrderOf[RefundOf[m]]})
    BY <1>5 DEF ProcessMessage
  <2>2. RefundOf[m] \in Refund /\ OrderOf[RefundOf[m]] \in Order
    BY ReferenceAssumption
  <2> QED
    BY <2>1, <2>2, PlanFromStages, Levels DEF Row
<1>6. CASE p \in RefundPayment
  <2>1. PICK f \in Refund : p = Plan({f}, {OrderOf[f]}, {})
    BY <1>6 DEF RefundPayment
  <2>2. OrderOf[f] \in Order
    BY ReferenceAssumption
  <2> QED
    BY <2>1, <2>2, PlanFromStages, Levels DEF Row
<1>7. CASE p \in ClaimMessages
  BY <1>7, PlanFromStages, Levels DEF ClaimMessages, Row
<1>8. CASE p \in RepairEvents
  BY <1>8, PlanFromStages, Levels DEF RepairEvents, Row
<1> QED
  BY <1>1, <1>2, <1>3, <1>4, <1>5, <1>6, <1>7, <1>8 DEF Plans

-----------------------------------------------------------------------------
(* The invariant. *)

LEMMA AscendingInit == Init => Ascending
<1> SUFFICES ASSUME Init PROVE Ascending
  OBVIOUS
<1>1. LocksTypeOK
  BY NothingAscends DEF Init, LocksTypeOK, PlanAscends
<1>2. \A t \in Tx : PlanAscends(todo[t])
  BY NothingAscends DEF Init
<1>3. HeldIsBelow /\ AskedIsDue
  BY DEF Init, HeldIsBelow, AskedIsDue
<1> QED
  BY <1>1, <1>2, <1>3 DEF Ascending

\* What a transaction does leaves the others alone.
Others(t) ==
  \A u \in Tx \ {t} : todo'[u] = todo[u] /\ asked'[u] = asked[u] /\ held'[u] = held[u]

\* So a step keeps the invariant when it keeps it for the one that takes it.
LEMMA AscendingStep ==
  ASSUME Ascending, NEW t \in Tx, LocksTypeOK', Others(t),
         PlanAscends(todo'[t]),
         \A i \in Stages : \A r \in held'[t], q \in todo'[t][i] : Below(r, q),
         asked'[t] # None =>
           /\ asked'[t] \in Row
           /\ \E i \in Stages :
                /\ \A j \in Stages : j < i => todo'[t][j] = {}
                /\ asked'[t] \in todo'[t][i]
                /\ \A q \in todo'[t][i] : Place[asked'[t]] <= Place[q]
  PROVE  Ascending'
<1>1. \A u \in Tx : PlanAscends(todo'[u])
  BY DEF Ascending, Others
<1>2. HeldIsBelow'
  BY DEF Ascending, Others, HeldIsBelow
<1>3. AskedIsDue'
  BY DEF Ascending, Others, AskedIsDue, Due
<1> QED
  BY <1>1, <1>2, <1>3 DEF Ascending, PlanAscends

\* When the row that was due is locked, everything left is above it.
LEMMA DueIsBelowTheRest ==
  ASSUME Ascending, NEW t \in Tx, NEW r \in Row, Due(t, r),
         NEW i \in Stages, NEW q \in todo[t][i], q # r
  PROVE  Below(r, q)
<1>1. PICK k \in Stages :
        /\ \A j \in Stages : j < k => todo[t][j] = {}
        /\ r \in todo[t][k]
        /\ \A s \in todo[t][k] : Place[r] <= Place[s]
  BY DEF Due
<1>2. q \in Row
  BY DEF Ascending, LocksTypeOK
<1>3. k < i \/ k = i
  BY <1>1 DEF Stages
<1>4. CASE k < i
  BY <1>1, <1>4 DEF Ascending, PlanAscends, Below
<1>5. CASE k = i
  <2>1. Level(r) = Level(q) /\ Place[r] <= Place[q]
    BY <1>1, <1>5 DEF Ascending, PlanAscends
  <2>2. Place[r] # Place[q]
    BY <2>1, <1>2, OneTable
  <2> QED
    BY <2>1, <2>2, <1>2, Levels DEF Below
<1> QED
  BY <1>3, <1>4, <1>5

LEMMA AscendingNext == Ascending /\ [Next]_vars => Ascending'
<1> SUFFICES ASSUME Ascending, [Next]_vars PROVE Ascending'
  OBVIOUS
<1> USE DEF LocksTypeOK
<1>0. LocksTypeOK
  BY DEF Ascending
<1>1. ASSUME NEW t \in Tx, Begin(t) PROVE Ascending'
  <2>1. PICK p \in Plans : todo' = [todo EXCEPT ![t] = p] /\ UNCHANGED <<asked, held>>
    BY <1>1 DEF Begin
  <2>2. PlanAscends(p)
    BY PlansAscend
  <2>3. LocksTypeOK' /\ Others(t)
    BY <1>0, <2>1, <2>2 DEF PlanAscends, Others
  <2>4. todo'[t] = p /\ held'[t] = {} /\ asked'[t] = None
    BY <1>0, <1>1, <2>1 DEF Begin, Idle
  <2> QED
    BY <2>2, <2>3, <2>4, AscendingStep
<1>2. ASSUME NEW t \in Tx, Ask(t) PROVE Ascending'
  <2>1. PICK r \in Row : Due(t, r) /\ asked' = [asked EXCEPT ![t] = r]
    BY <1>2 DEF Ask
  <2>2. LocksTypeOK' /\ Others(t)
    BY <1>0, <1>2, <2>1 DEF Ask, Others
  <2>3. todo'[t] = todo[t] /\ held'[t] = held[t] /\ asked'[t] = r
    BY <1>0, <1>2, <2>1 DEF Ask
  <2>4. PlanAscends(todo[t])
    BY DEF Ascending
  <2>5. \A i \in Stages : \A s \in held[t], q \in todo[t][i] : Below(s, q)
    BY DEF Ascending, HeldIsBelow
  <2> QED
    BY <2>1, <2>2, <2>3, <2>4, <2>5, AscendingStep DEF Due
<1>3. ASSUME NEW t \in Tx, Grant(t) PROVE Ascending'
  <2>1. PICK r \in Row : r = asked[t] /\ Due(t, r)
    BY <1>3 DEF Grant, Ascending, AskedIsDue
  <2> DEFINE rest == [i \in Stages |-> todo[t][i] \ {r}]
  <2>2. todo' = [todo EXCEPT ![t] = rest]
    BY <1>0, <1>3, <2>1 DEF Grant
  <2>3. rest \in [Stages -> SUBSET Row]
    BY <1>0
  <2>4. /\ held' = [held EXCEPT ![t] = @ \cup {r}]
        /\ asked' = [asked EXCEPT ![t] = None]
    BY <1>3, <2>1 DEF Grant
  <2>5. LocksTypeOK' /\ Others(t)
    BY <1>0, <2>2, <2>3, <2>4 DEF Others
  <2>6. todo'[t] = rest /\ held'[t] = held[t] \cup {r} /\ asked'[t] = None
    BY <1>0, <2>2, <2>4
  <2>7. PlanAscends(rest)
    BY <2>3 DEF Ascending, PlanAscends
  <2>8. ASSUME NEW i \in Stages, NEW s \in held[t] \cup {r}, NEW q \in rest[i]
        PROVE  Below(s, q)
    <3>1. q \in todo[t][i] /\ q # r
      OBVIOUS
    <3>2. CASE s \in held[t]
      BY <3>1, <3>2 DEF Ascending, HeldIsBelow
    <3>3. CASE s = r
      BY <3>1, <3>3, <2>1, DueIsBelowTheRest
    <3> QED
      BY <3>2, <3>3
  <2> QED
    BY <2>5, <2>6, <2>7, <2>8, AscendingStep
<1>4. ASSUME NEW t \in Tx, Release(t) PROVE Ascending'
  <2>1. LocksTypeOK' /\ Others(t)
    BY <1>0, <1>4, NothingAscends DEF Release, Others, PlanAscends
  <2>2. todo'[t] = Nothing /\ held'[t] = {} /\ asked'[t] = None
    BY <1>0, <1>4 DEF Release
  <2> QED
    BY <2>1, <2>2, NothingAscends, AscendingStep
<1>5. CASE UNCHANGED vars
  BY <1>5 DEF vars, Ascending, HeldIsBelow, AskedIsDue, Due, PlanAscends
<1> QED
  BY <1>1, <1>2, <1>3, <1>4, <1>5 DEF Next, Finish, Abandon

-----------------------------------------------------------------------------
(* From the invariant to the absence of a cycle. *)

\* A set of rows that is not empty has one that none of them exceeds.
LEMMA GreatestRow ==
  ASSUME NEW W \in SUBSET Row, W # {}
  PROVE  \E r \in W : \A q \in W : ~Below(r, q)
<1> DEFINE Less == OpToRel(<, Nat)
           Ls == {3 - Level(r) : r \in W}
<1>1. \A x, y \in Nat : <<x, y>> \in Less <=> x < y
  BY DEF OpToRel
<1>2. Ls \subseteq Nat /\ Ls # {}
  BY Levels
<1> HIDE DEF Less
<1>3. IsWellFoundedOn(Less, Nat)
  BY NatLessThanWellFounded DEF Less
<1>4. PICK l \in Ls : \A x \in Ls : ~(<<x, l>> \in Less)
  BY <1>2, <1>3, WFMin
<1>5. PICK top \in W : l = 3 - Level(top)
  OBVIOUS
<1>6. \A q \in W : Level(q) <= Level(top)
  <2> SUFFICES ASSUME NEW q \in W PROVE Level(q) <= Level(top)
    OBVIOUS
  <2>1. ~((3 - Level(q)) < (3 - Level(top)))
    BY <1>1, <1>2, <1>4, <1>5
  <2> QED
    BY <2>1, Levels
<1> DEFINE V == {r \in W : Level(r) = Level(top)}
           Ps == {MaxPlace - Place[r] : r \in V}
<1>7. Ps \subseteq Nat /\ Ps # {}
  BY <1>5, Levels, PlaceAssumption
<1>8. PICK b \in Ps : \A x \in Ps : ~(<<x, b>> \in Less)
  BY <1>3, <1>7, WFMin
<1>9. PICK r \in V : b = MaxPlace - Place[r]
  OBVIOUS
<1>10. ASSUME NEW q \in W, Below(r, q) PROVE FALSE
  <2>1. Level(q) = Level(top) /\ Place[r] < Place[q]
    BY <1>6, <1>9, <1>10, Levels DEF Below
  <2>2. ~((MaxPlace - Place[q]) < (MaxPlace - Place[r]))
    BY <1>1, <1>7, <1>8, <1>9, <2>1
  <2> QED
    BY <2>1, <2>2, <1>9, Levels, PlaceAssumption
<1> QED
  BY <1>9, <1>10

LEMMA AscendingHasNoCycle == Ascending => NoWaitCycle
<1> SUFFICES ASSUME Ascending, NEW D \in SUBSET Tx, D # {},
                    \A t \in D : \E u \in D : WaitsFor(t, u)
             PROVE  FALSE
  BY DEF NoWaitCycle
<1> DEFINE W == {asked[t] : t \in D}
<1>1. \A t \in D : asked[t] # None /\ asked[t] \in Row
  BY DEF WaitsFor, Ascending, AskedIsDue
<1>2. PICK t \in D : \A q \in W : ~Below(asked[t], q)
  <2>1. W \in SUBSET Row /\ W # {}
    BY <1>1
  <2> HIDE DEF W
  <2>2. PICK r \in W : \A q \in W : ~Below(r, q)
    BY <2>1, GreatestRow
  <2>3. PICK t \in D : r = asked[t]
    BY DEF W
  <2> QED
    BY <2>2, <2>3
<1>3. PICK u \in D : asked[t] \in held[u]
  BY DEF WaitsFor
<1>4. PICK i \in Stages : asked[u] \in todo[u][i]
  BY <1>1 DEF Ascending, AskedIsDue, Due
<1>5. Below(asked[t], asked[u])
  BY <1>3, <1>4 DEF Ascending, HeldIsBelow
<1> QED
  BY <1>2, <1>5

\* The transactions of the services on MySQL never wait for each other in a
\* circle (refund_cancellation.py:23-27, human_review.py:62-64).
THEOREM NoDeadlock == Spec => []NoWaitCycle
<1>1. Spec => []Ascending
  BY AscendingInit, AscendingNext, PTL DEF Spec
<1> QED
  BY <1>1, AscendingHasNoCycle, PTL
=============================================================================
