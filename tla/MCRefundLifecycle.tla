-------------------------- MODULE MCRefundLifecycle --------------------------
(* Model checking of RefundLifecycle: bounds and symmetry.                 *)
EXTENDS RefundLifecycle, TLC

Symmetric == Permutations(Msg) \cup Permutations(Review)

\* One application in the air is enough: a second one meets the row of the
\* first, and a row that is already there is met by a late one.
OneApplication == Cardinality(applying) <= 1

\* The desk: everything that happens before payment is dispatched.
DeskBound ==
  /\ OneApplication
  /\ \A o \in Order : refund[o].status \notin Dispatched

\* Payment: two callers at a time (a submit and a query, or two queries), and
\* no reviews but refund reviews.
PaymentBound ==
  /\ OneApplication
  /\ Cardinality(calls) <= 2
  /\ \A r \in Review : review[r].type = "refund"
\* The worker on its own side of payment: no refund is submitted.
DeskNext ==
  /\ \/ Apply \/ Consume \/ QueueStep \/ ReviewDesk \/ Outside
     \/ \E o \in Order : CancelRefund(o)
  /\ UNCHANGED paymentVars

FairDeskSpec == Init /\ [][DeskNext]_vars /\ WorkerFairness
=============================================================================
