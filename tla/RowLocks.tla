------------------------------ MODULE RowLocks ------------------------------
(* The row locks of the services on MySQL: SELECT ... FOR UPDATE inside      *)
(* transaction(), released together at the commit or the rollback            *)
(* (src/app/storage/transactions.py).  Ten transactions of the refund desk   *)
(* lock rows of four tables, and each does it in an order of its own; the    *)
(* comments of refund_cancellation.py and human_review.py say that these     *)
(* orders agree.  SQLite takes its one lock at BEGIN IMMEDIATE and cannot    *)
(* wait in a cycle.  Index and gap locks of InnoDB are left out.             *)
EXTENDS Naturals, FiniteSets

CONSTANTS Tx,        \* the threads of the API and of the workers
          Review, Refund, Order, Message,     \* the rows of four tables
          OrderOf,   \* the order of a refund or a review
          RefundOf,  \* the refund of a message
          Place,     \* where a row comes in a batch over its table
          MaxPlace,
          None

Row == Review \cup Refund \cup Order \cup Message

ASSUME TablesAssumption ==
  /\ Review \cap (Refund \cup Order \cup Message) = {}
  /\ Refund \cap (Order \cup Message) = {}
  /\ Order \cap Message = {}
  /\ None \notin Row

ASSUME ReferenceAssumption ==
  /\ OrderOf \in [Review \cup Refund -> Order]
  /\ RefundOf \in [Message -> Refund]

ASSUME PlaceAssumption ==
  /\ MaxPlace \in Nat
  /\ Place \in [Row -> 0..MaxPlace]
  /\ \A T \in {Review, Refund, Order, Message} :
       \A r, q \in T : Place[r] = Place[q] => r = q

VARIABLES todo,    \* todo[t]: what t has still to lock, in three stages
          asked,   \* asked[t]: the row its statement asks for, or None
          held     \* held[t]: the rows it holds

vars == <<todo, asked, held>>

-----------------------------------------------------------------------------
(* What each transaction locks: stage after stage, the rows of a stage being *)
(* of one table.                                                             *)

Stages == 1..3
Plan(first, second, third) == <<first, second, third>>
Nothing == Plan({}, {}, {})

Reviews(o) == {v \in Review : OrderOf[v] = o}
Refunds(o) == {f \in Refund : OrderOf[f] = o}
AtMostOne(S) == {{}} \cup {{r} : r \in S}

\* cancel_refund: the reviews of the order that were pending when they were
\* listed, the refund, the order.
CancelRefund ==
  UNION {{Plan(S, {f}, {OrderOf[f]}) : S \in SUBSET Reviews(OrderOf[f])} : f \in Refund}

\* resolve_review: the review, the refund it names or finds, and for an
\* approval the order; continue_approved_review locks the order alone.
ResolveReview ==
  UNION {UNION {{Plan({v}, F, O) : O \in AtMostOne({OrderOf[v]})}
                : F \in AtMostOne(Refunds(OrderOf[v]))} : v \in Review}

\* Mutant: the creator of a review locks the pending reviews of its order.
CreateReviewLocking == {Plan({o}, Reviews(o), {}) : o \in Order}

\* create_manual_review serialises its creators on the order; the material of
\* a pending review is appended in a transaction of its own.
CreateReview == {Plan({o}, {}, {}) : o \in Order}
AppendSupplement == {Plan({v}, {}, {}) : v \in Review}

\* _persist_refund_and_event of refund_apply.
PersistRefund == {Plan({o}, {}, {}) : o \in Order}

\* process_refund_message of the worker.
ProcessMessage == {Plan({m}, {RefundOf[m]}, {OrderOf[RefundOf[m]]}) : m \in Message}

\* submit_refund_payment and _observe: the refund, then its order; a failed
\* call to the channel is noted on the refund alone.
RefundPayment == {Plan({f}, {OrderOf[f]}, {}) : f \in Refund}
PaymentError == {Plan({f}, {}, {}) : f \in Refund}

\* claim_messages, fail_message, and the repair of missing refund events.
ClaimMessages == {Plan(M, {}, {}) : M \in SUBSET Message}
RepairEvents == {Plan(F, {}, {}) : F \in SUBSET Refund}

Plans == CancelRefund \cup ResolveReview \cup CreateReview \cup AppendSupplement
           \cup PersistRefund \cup ProcessMessage \cup RefundPayment \cup PaymentError
           \cup ClaimMessages \cup RepairEvents

-----------------------------------------------------------------------------
Init ==
  /\ todo = [t \in Tx |-> Nothing]
  /\ asked = [t \in Tx |-> None]
  /\ held = [t \in Tx |-> {}]

Idle(t) == todo[t] = Nothing /\ held[t] = {} /\ asked[t] = None

\* The row the transaction locks next: of the first stage that is not done,
\* in the order of the table.
Due(t, r) ==
  \E i \in Stages :
    /\ \A j \in Stages : j < i => todo[t][j] = {}
    /\ r \in todo[t][i]
    /\ \A q \in todo[t][i] : Place[r] <= Place[q]

Free(r) == \A u \in Tx : r \notin held[u]

Begin(t) ==
  /\ Idle(t)
  /\ \E p \in Plans : todo' = [todo EXCEPT ![t] = p]
  /\ UNCHANGED <<asked, held>>

\* lock_record: the statement is sent, and waits while another holds the row.
Ask(t) ==
  /\ asked[t] = None
  /\ \E r \in Row : Due(t, r) /\ asked' = [asked EXCEPT ![t] = r]
  /\ UNCHANGED <<todo, held>>

Grant(t) ==
  /\ asked[t] # None
  /\ Free(asked[t])
  /\ held' = [held EXCEPT ![t] = @ \cup {asked[t]}]
  /\ todo' = [todo EXCEPT ![t] = [i \in Stages |-> @[i] \ {asked[t]}]]
  /\ asked' = [asked EXCEPT ![t] = None]

Release(t) ==
  /\ todo' = [todo EXCEPT ![t] = Nothing]
  /\ asked' = [asked EXCEPT ![t] = None]
  /\ held' = [held EXCEPT ![t] = {}]

\* Commit, or an early return or an exception between two statements.
Finish(t) == ~Idle(t) /\ asked[t] = None /\ Release(t)

\* The server ends a lock wait (timeout, lost connection): rollback.
Abandon(t) == asked[t] # None /\ ~Free(asked[t]) /\ Release(t)

Next == \E t \in Tx : Begin(t) \/ Ask(t) \/ Grant(t) \/ Finish(t) \/ Abandon(t)

Spec == Init /\ [][Next]_vars

-----------------------------------------------------------------------------
\* u holds the row that t waits for.
WaitsFor(t, u) == asked[t] # None /\ asked[t] \in held[u]

\* No transactions wait for each other in a circle: every group of waiting
\* transactions has one whose row is held by none of the group.  This is what
\* refund_cancellation.py:23-27 and human_review.py:62-64 say of the order
\* reviews -> refund -> order, here with the worker, the payment, the claim
\* and the repair beside them.
NoWaitCycle ==
  \A D \in SUBSET Tx : D # {} => \E t \in D : \A u \in D : ~WaitsFor(t, u)

=============================================================================
