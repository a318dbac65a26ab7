----------------------- MODULE RefundLifecycle_proofs -----------------------
(***************************************************************************)
(* Proofs about the message queue, and that RefundLifecycle uses it as     *)
(* specified, keeps its types, and asks the payment channel once, for any  *)
(* sets of orders, reviews and messages, any number of attempts and any    *)
(* batch limit.                                                            *)
(*                                                                         *)
(* HandledAtMostOnce is not inductive: that a handler does not commit a    *)
(* second time depends on the acknowledgement its first commit left in the *)
(* row, and that the acknowledgement is never undone.  RetryBudget needs   *)
(* to know that a row which does not exist yet was never delivered.        *)
(* QueueInv adds both.                                                     *)
(***************************************************************************)
EXTENDS RefundLifecycle, TLAPS


\* A handler that committed left its acknowledgement in the row.
HandledIsDone == \A m \in Msg : handled[m] > 0 => mq[m].status = "done"

\* Attempts are counted from the publication on.
AbsentIsUntouched == \A m \in Msg : mq[m].status = "absent" => mq[m].attempts = 0

QueueInv ==
  /\ QueueTypeOK
  /\ HandledAtMostOnce
  /\ RetryBudget
  /\ HandledIsDone
  /\ AbsentIsUntouched

-----------------------------------------------------------------------------
(* Lemmas about single operations.                                         *)

\* A batch holds nothing but claimable messages (the SELECT of claim_messages).
LEMMA BatchIsClaimable ==
  ASSUME NEW b \in Batches
  PROVE  /\ b \subseteq Msg
         /\ \A m \in b : Claimable(m)
BY DEF Batches

\* A claim leaves every other row as it is, or dead-letters an exhausted one:
\* what it makes of one row, whichever batch it takes (claim_messages).
LEMMA ClaimedRow ==
  ASSUME QueueTypeOK, NEW b \in Batches,
         mq' = [m \in Msg |->
                   IF Exhausted(m) THEN [mq[m] EXCEPT !.status = "dead_letter"]
                   ELSE IF m \in b
                        THEN [status |-> "processing", attempts |-> mq[m].attempts + 1,
                              due |-> FALSE]
                        ELSE mq[m]],
         NEW m \in Msg
  PROVE  /\ mq'[m] \in Row
         /\ mq[m].status \in {"done", "absent"} => mq'[m] = mq[m]
         /\ mq[m].status \notin {"done", "absent"} => mq'[m].status \notin {"done", "absent"}
         /\ mq'[m].attempts \in {mq[m].attempts, mq[m].attempts + 1}
         /\ mq'[m].attempts # mq[m].attempts =>
              mq[m].attempts < MaxAttempts /\ mq'[m].status = "processing"
         /\ m \in b => mq'[m].attempts = mq[m].attempts + 1
         /\ mq'[m].status = "dead_letter" =>
              \/ mq[m].status = "dead_letter" /\ mq'[m] = mq[m]
              \/ mq[m].attempts >= MaxAttempts /\ mq'[m].attempts = mq[m].attempts
<1> mq[m] \in Row
  BY DEF QueueTypeOK
<1>1. CASE Exhausted(m)
  <2>1. mq'[m] = [mq[m] EXCEPT !.status = "dead_letter"]
    BY <1>1
  <2>2. m \notin b
    BY <1>1, BatchIsClaimable, QueueAssumption DEF Exhausted, Claimable, Row
  <2> QED
    BY <1>1, <2>1, <2>2 DEF Exhausted, Row, Status
<1>2. CASE ~Exhausted(m) /\ m \in b
  <2>1. mq'[m] = [status |-> "processing", attempts |-> mq[m].attempts + 1, due |-> FALSE]
    BY <1>2
  <2>2. Claimable(m)
    BY <1>2, BatchIsClaimable
  <2> QED
    BY <1>2, <2>1, <2>2 DEF Claimable, Row, Status
<1>3. CASE ~Exhausted(m) /\ m \notin b
  <2>1. mq'[m] = mq[m]
    BY <1>3
  <2> QED
    BY <1>3, <2>1 DEF Row
<1> QED
  BY <1>1, <1>2, <1>3

-----------------------------------------------------------------------------
(* The invariant holds initially and is preserved by every operation.      *)

LEMMA QueueInvInit == QueueInit => QueueInv
<1> SUFFICES ASSUME QueueInit PROVE QueueInv
  OBVIOUS
<1> USE DEF QueueInit
<1>1. QueueTypeOK
  BY DEF QueueTypeOK, Row, Status
<1>2. \A m \in Msg : mq[m].status = "absent" /\ mq[m].attempts = 0 /\ handled[m] = 0
  OBVIOUS
<1>3. RetryBudget
  BY <1>2, QueueAssumption DEF RetryBudget
<1>4. HandledAtMostOnce /\ HandledIsDone /\ AbsentIsUntouched
  BY <1>2 DEF HandledAtMostOnce, HandledIsDone, AbsentIsUntouched
<1> QED
  BY <1>1, <1>3, <1>4 DEF QueueInv

LEMMA PublishKeepsInv ==
  ASSUME QueueInv, NEW m \in Msg, PublishMessage(m)
  PROVE  QueueInv'
<1> USE DEF QueueInv, PublishMessage
<1>1. QueueTypeOK'
  BY DEF QueueTypeOK, Row, Status
<1>2. \A n \in Msg : n # m => mq'[n] = mq[n]
  BY DEF QueueTypeOK
<1>3. mq'[m].attempts = 0 /\ mq'[m].status = "pending"
  BY DEF QueueTypeOK
<1>4. RetryBudget'
  BY <1>2, <1>3, QueueAssumption
     DEF RetryBudget, AbsentIsUntouched, QueueTypeOK, Delivery, Row
<1>5. HandledIsDone' /\ AbsentIsUntouched' /\ HandledAtMostOnce'
  BY <1>2, <1>3 DEF HandledIsDone, AbsentIsUntouched, HandledAtMostOnce, QueueTypeOK
<1> QED
  BY <1>1, <1>4, <1>5

LEMMA ClaimKeepsInv ==
  ASSUME QueueInv, ClaimMessages
  PROVE  QueueInv'
<1> USE DEF QueueInv
<1>1. PICK b \in Batches :
        /\ mq' = [m \in Msg |->
                   IF Exhausted(m) THEN [mq[m] EXCEPT !.status = "dead_letter"]
                   ELSE IF m \in b
                        THEN [status |-> "processing", attempts |-> mq[m].attempts + 1,
                              due |-> FALSE]
                        ELSE mq[m]]
        /\ inflight' = inflight \cup
             {[msg |-> m, attempt |-> mq[m].attempts + 1] : m \in b}
  BY DEF ClaimMessages
<1>2. handled' = handled
  BY DEF ClaimMessages
<1> DEFINE Kept(m) ==
         /\ mq'[m] \in Row
         /\ mq[m].status \in {"done", "absent"} => mq'[m] = mq[m]
         /\ mq[m].status \notin {"done", "absent"} => mq'[m].status \notin {"done", "absent"}
         /\ mq'[m].attempts \in {mq[m].attempts, mq[m].attempts + 1}
         /\ mq'[m].attempts # mq[m].attempts =>
              mq[m].attempts < MaxAttempts /\ mq'[m].status = "processing"
         /\ m \in b => mq'[m].attempts = mq[m].attempts + 1
         /\ mq'[m].status = "dead_letter" =>
              \/ mq[m].status = "dead_letter" /\ mq'[m] = mq[m]
              \/ mq[m].attempts >= MaxAttempts /\ mq'[m].attempts = mq[m].attempts
<1>3. \A m \in Msg : Kept(m)
  BY <1>1, ClaimedRow
<1>4. b \subseteq Msg
  BY BatchIsClaimable
<1>5. \A m \in Msg : mq[m] \in Row /\ mq[m].attempts \in Nat
  BY DEF QueueTypeOK, Row
<1>6. QueueTypeOK'
  <2>1. mq' \in [Msg -> Row]
    BY <1>1, <1>3
  <2>2. inflight' \subseteq Delivery
    BY <1>1, <1>4, <1>5 DEF Delivery, QueueTypeOK
  <2> QED
    BY <1>2, <2>1, <2>2 DEF QueueTypeOK
<1>7. RetryBudget'
  <2>1. ASSUME NEW m \in Msg
        PROVE  /\ mq'[m].attempts <= MaxAttempts
               /\ mq'[m].status = "dead_letter" => mq'[m].attempts = MaxAttempts
    BY <1>3, <1>5, QueueAssumption DEF RetryBudget
  <2>2. ASSUME NEW d \in inflight'
        PROVE  d.attempt \in 1 .. mq'[d.msg].attempts
    <3>1. CASE d \in inflight
      <4>1. d.msg \in Msg /\ d.attempt \in 1 .. mq[d.msg].attempts
        BY <3>1 DEF RetryBudget, QueueTypeOK, Delivery
      <4> QED
        BY <4>1, <1>3, <1>5
    <3>2. CASE d \notin inflight
      <4>1. PICK m \in b : d = [msg |-> m, attempt |-> mq[m].attempts + 1]
        BY <3>2, <1>1
      <4> QED
        BY <4>1, <1>3, <1>4, <1>5
    <3> QED
      BY <3>1, <3>2
  <2> QED
    BY <2>1, <2>2 DEF RetryBudget
<1>8. HandledIsDone' /\ AbsentIsUntouched' /\ HandledAtMostOnce'
  BY <1>2, <1>3 DEF HandledIsDone, AbsentIsUntouched, HandledAtMostOnce
<1> QED
  BY <1>6, <1>7, <1>8

LEMMA HandleKeepsInv ==
  ASSUME QueueInv, NEW d \in inflight, HandleMessage(d)
  PROVE  QueueInv'
<1> USE DEF QueueInv
<1>1. d.msg \in Msg
  BY DEF QueueTypeOK, Delivery
<1>2. \A n \in Msg : n # d.msg => mq'[n] = mq[n] /\ handled'[n] = handled[n]
  BY <1>1 DEF HandleMessage, SetStatus, QueueTypeOK
<1>3. /\ mq'[d.msg].status = "done"
      /\ mq'[d.msg].attempts = mq[d.msg].attempts
      /\ handled'[d.msg] = handled[d.msg] + 1
  BY <1>1 DEF HandleMessage, SetStatus, QueueTypeOK, Row
<1>4. QueueTypeOK'
  BY <1>1 DEF QueueTypeOK, HandleMessage, SetStatus, Row, Status
<1>5. handled[d.msg] = 0
  BY <1>1 DEF HandleMessage, Accepted, HandledIsDone, QueueTypeOK
<1>6. RetryBudget'
  BY <1>1, <1>2, <1>3 DEF RetryBudget, HandleMessage, QueueTypeOK, Delivery
<1>7. HandledIsDone' /\ AbsentIsUntouched' /\ HandledAtMostOnce'
  BY <1>1, <1>2, <1>3, <1>5 DEF HandledIsDone, AbsentIsUntouched, HandledAtMostOnce, QueueTypeOK
<1> QED
  BY <1>4, <1>6, <1>7

LEMMA FailKeepsInv ==
  ASSUME QueueInv, NEW d \in inflight, FailMessage(d)
  PROVE  QueueInv'
<1> USE DEF QueueInv
<1>1. d.msg \in Msg /\ mq[d.msg].attempts \in Nat
  BY DEF QueueTypeOK, Delivery, Row
<1>2. /\ handled' = handled
      /\ inflight' \subseteq inflight
      /\ \A n \in Msg : n # d.msg => mq'[n] = mq[n]
      /\ mq'[d.msg].attempts = mq[d.msg].attempts
      /\ \/ mq'[d.msg] = mq[d.msg]
         \/ mq'[d.msg].status = "failed" /\ mq[d.msg].status # "done"
  BY <1>1 DEF FailMessage, FailureCounts, SetStatus, QueueTypeOK, Row
<1>3. QueueTypeOK'
  BY <1>1 DEF QueueTypeOK, FailMessage, SetStatus, Row, Status
<1>4. RetryBudget'
  BY <1>1, <1>2 DEF RetryBudget, QueueTypeOK, Delivery
<1>5. HandledIsDone' /\ AbsentIsUntouched' /\ HandledAtMostOnce'
  BY <1>1, <1>2 DEF HandledIsDone, AbsentIsUntouched, HandledAtMostOnce
<1> QED
  BY <1>3, <1>4, <1>5

\* IgnoreDelivery and LoseDelivery: one delivery fewer, nothing else.
LEMMA DropKeepsInv ==
  ASSUME QueueInv, NEW d \in inflight, IgnoreDelivery(d) \/ LoseDelivery(d)
  PROVE  QueueInv'
<1>1. mq' = mq /\ handled' = handled /\ inflight' \subseteq inflight
  BY DEF IgnoreDelivery, LoseDelivery
<1> QED
  BY <1>1 DEF QueueInv, QueueTypeOK, HandledAtMostOnce, RetryBudget, HandledIsDone,
              AbsentIsUntouched

LEMMA TimeKeepsInv ==
  ASSUME QueueInv, NEW m \in Msg, TimePasses(m)
  PROVE  QueueInv'
<1>1. /\ handled' = handled /\ inflight' = inflight
      /\ \A n \in Msg : mq'[n].status = mq[n].status /\ mq'[n].attempts = mq[n].attempts
  BY DEF TimePasses, QueueInv, QueueTypeOK, Row
<1>2. QueueTypeOK'
  BY DEF TimePasses, QueueInv, QueueTypeOK, Row, Status
<1>3. \A d \in inflight : d.msg \in Msg
  BY DEF QueueInv, QueueTypeOK, Delivery
<1> QED
  BY <1>1, <1>2, <1>3
     DEF QueueInv, HandledAtMostOnce, RetryBudget, HandledIsDone, AbsentIsUntouched

LEMMA QueueInvStep == QueueInv /\ [QueueNext]_queueVars => QueueInv'
<1> SUFFICES ASSUME QueueInv, [QueueNext]_queueVars PROVE QueueInv'
  OBVIOUS
<1>1. CASE ClaimMessages
  BY <1>1, ClaimKeepsInv
<1>2. ASSUME NEW m \in Msg, PublishMessage(m) PROVE QueueInv'
  BY <1>2, PublishKeepsInv
<1>3. ASSUME NEW m \in Msg, TimePasses(m) PROVE QueueInv'
  BY <1>3, TimeKeepsInv
<1>4. ASSUME NEW d \in inflight, HandleMessage(d) PROVE QueueInv'
  BY <1>4, HandleKeepsInv
<1>5. ASSUME NEW d \in inflight, FailMessage(d) PROVE QueueInv'
  BY <1>5, FailKeepsInv
<1>6. ASSUME NEW d \in inflight, IgnoreDelivery(d) \/ LoseDelivery(d) PROVE QueueInv'
  BY <1>6, DropKeepsInv
<1>7. CASE UNCHANGED queueVars
  BY <1>7 DEF queueVars, QueueInv, QueueTypeOK, HandledAtMostOnce, RetryBudget,
              HandledIsDone, AbsentIsUntouched
<1> QED
  BY <1>1, <1>2, <1>3, <1>4, <1>5, <1>6, <1>7 DEF QueueNext, FinishDelivery

\* An acknowledged row is left alone by every operation.
LEMMA DoneStep ==
  ASSUME QueueTypeOK, [QueueNext]_queueVars, NEW m \in Msg, mq[m].status = "done"
  PROVE  mq'[m] = mq[m]
<1>1. CASE ClaimMessages
  <2>1. PICK b \in Batches :
          mq' = [n \in Msg |->
                   IF Exhausted(n) THEN [mq[n] EXCEPT !.status = "dead_letter"]
                   ELSE IF n \in b
                        THEN [status |-> "processing", attempts |-> mq[n].attempts + 1,
                              due |-> FALSE]
                        ELSE mq[n]]
    BY <1>1 DEF ClaimMessages
  <2> QED
    BY <2>1, ClaimedRow
<1>2. ASSUME NEW n \in Msg, PublishMessage(n) \/ TimePasses(n) PROVE mq'[m] = mq[m]
  BY <1>2 DEF PublishMessage, TimePasses, QueueTypeOK
<1>3. ASSUME NEW d \in inflight, HandleMessage(d) PROVE mq'[m] = mq[m]
  BY <1>3 DEF HandleMessage, Accepted, SetStatus, QueueTypeOK, Delivery
<1>4. ASSUME NEW d \in inflight, FailMessage(d) PROVE mq'[m] = mq[m]
  BY <1>4 DEF FailMessage, FailureCounts, SetStatus, QueueTypeOK, Delivery
<1>5. ASSUME NEW d \in inflight, IgnoreDelivery(d) \/ LoseDelivery(d) PROVE mq'[m] = mq[m]
  BY <1>5 DEF IgnoreDelivery, LoseDelivery
<1>6. CASE UNCHANGED queueVars
  BY <1>6 DEF queueVars
<1> QED
  BY <1>1, <1>2, <1>3, <1>4, <1>5, <1>6 DEF QueueNext, FinishDelivery

-----------------------------------------------------------------------------
(* The theorems.                                                           *)

\* The inductive invariant of the queue.
THEOREM QueueSafety == QueueSpec => []QueueInv
BY QueueInvInit, QueueInvStep, PTL DEF QueueSpec

\* Rows, deliveries and the history keep their types.
THEOREM QueueTypeCorrect == QueueSpec => []QueueTypeOK
<1>1. QueueInv => QueueTypeOK
  BY DEF QueueInv
<1> QED
  BY <1>1, QueueSafety, PTL

\* The effect of a message is committed at most once, with any number of
\* workers, lease expiries, crashes and late deliveries.
THEOREM HandledOnce == QueueSpec => []HandledAtMostOnce
<1>1. QueueInv => HandledAtMostOnce
  BY DEF QueueInv
<1> QED
  BY <1>1, QueueSafety, PTL

\* No message is delivered more than MaxAttempts times, and none is given up
\* before it was delivered that often.
THEOREM AttemptsWithinBudget == QueueSpec => []RetryBudget
<1>1. QueueInv => RetryBudget
  BY DEF QueueInv
<1> QED
  BY <1>1, QueueSafety, PTL

\* An acknowledgement is final.
THEOREM DoneStaysDone == QueueSpec => DoneIsFinal
<1>1. QueueInv /\ [QueueNext]_queueVars =>
        [\A m \in Msg : mq[m].status = "done" => mq'[m] = mq[m]]_queueVars
  BY DoneStep DEF QueueInv
<1> QED
  BY <1>1, QueueSafety, PTL DEF QueueSpec, DoneIsFinal

-----------------------------------------------------------------------------
(* The lifecycle uses the queue as the queue specifies it.                 *)

LEMMA NextIsQueueStep == [Next]_vars => [QueueNext]_queueVars
<1> SUFFICES ASSUME [Next]_vars PROVE [QueueNext]_queueVars
  OBVIOUS
<1>1. CASE Apply
  <2>1. ASSUME NEW o \in Order, RepairMissingEvent(o) PROVE QueueNext
    BY <2>1 DEF RepairMissingEvent, PublishRefundCreated, QueueNext
  <2>2. ASSUME NEW a \in applying, PersistApplication(a) PROVE QueueNext
    BY <2>2 DEF PersistApplication, PublishRefundCreated, QueueNext
  <2>3. ASSUME NEW o \in Order, JudgeApplication(o) PROVE UNCHANGED queueVars
    BY <2>3 DEF JudgeApplication, queueVars
  <2>4. ASSUME NEW a \in applying, AbandonApplication(a) PROVE UNCHANGED queueVars
    BY <2>4 DEF AbandonApplication, queueVars
  <2> QED
    BY <1>1, <2>1, <2>2, <2>3, <2>4 DEF Apply
<1>2. CASE Consume
  BY <1>2 DEF Consume, ProcessRefundMessage, RefundEventNoop, ManualReviewRequired,
              RefundProcessing, QueueNext, FinishDelivery
<1>3. CASE QueueStep
  BY <1>3 DEF QueueStep, QueueNext, FinishDelivery
<1>4. CASE ReviewDesk
  BY <1>4 DEF ReviewDesk, OpenRefundReview, OpenOtherReview, RejectRefund, RejectRequest,
              ApproveRefund, ApproveNewRefund, ApproveCancelPaidOrder,
              ApproveCancelUnpaidOrder, ApproveOther, PublishRefundCreated, QueueNext,
              queueVars
<1>5. CASE \E o \in Order : CancelRefund(o)
  BY <1>5 DEF CancelRefund, queueVars
<1>6. CASE Pay
  BY <1>6 DEF Pay, SubmitRefundPayment, ReconcileRefundPayment, SendRequest, Observe,
              CallFails, CallerDies, queueVars
<1>7. CASE Outside
  BY <1>7 DEF Outside, GatewayAccepts, RequestLost, GatewaySettles, GatewayAnswers,
              ShippingAdvances, PaymentArrives, PaymentReversed, queueVars
<1>8. CASE UNCHANGED vars
  BY <1>8 DEF vars, queueVars
<1> QED
  BY <1>1, <1>2, <1>3, <1>4, <1>5, <1>6, <1>7, <1>8 DEF Next

\* Every behaviour of the lifecycle is a behaviour of the message queue: the
\* services touch messages only through publish, claim, ack and fail, and the
\* acknowledgement of a handler is its own transaction's.
THEOREM LifecycleUsesQueue == Spec => QueueUsedAsSpecified
<1>1. Init => QueueInit
  BY DEF Init
<1> QED
  BY <1>1, NextIsQueueStep, PTL DEF Spec, QueueUsedAsSpecified, QueueSpec

\* What is proved of the queue holds of the lifecycle.
LEMMA LifecycleQueueInv == Spec => []QueueInv
BY LifecycleUsesQueue, QueueSafety, PTL DEF QueueUsedAsSpecified

-----------------------------------------------------------------------------
(* Type correctness.                                                       *)

\* The part of TypeOK that is not the queue's.
DeskTypeOK ==
  /\ order \in [Order -> OrderRow]
  /\ refund \in [Order -> RefundRow]
  /\ review \in [Review -> ReviewRow]
  /\ payload \in [Msg -> [order: Order, review: BOOLEAN]]
  /\ applying \subseteq [order: Order, review: BOOLEAN]

PaymentTypeOK ==
  /\ calls \subseteq Call
  /\ wire \subseteq Order
  /\ gateway \in [Order -> {"none", "processing", "succeeded", "failed"}]
  /\ submits \in [Order -> Nat]

LEMMA TypeParts == TypeOK <=> QueueTypeOK /\ DeskTypeOK /\ PaymentTypeOK
BY DEF TypeOK, DeskTypeOK, PaymentTypeOK

LEMMA TypeInit == Init => TypeOK
<1> SUFFICES ASSUME Init PROVE TypeOK
  OBVIOUS
<1> DEFINE o0 == CHOOSE o \in Order : TRUE
<1>1. o0 \in Order
  BY RefundAssumption
<1>2. QueueTypeOK
  BY QueueInvInit DEF Init, QueueInv
<1>3. order \in [Order -> OrderRow]
  <2>1. ShopOrders \subseteq OrderRow
    BY DEF ShopOrders, ShopOrder, OrderRow, OrderStatus, AfterSales, Shipping, Payment
  <2> QED
    BY <2>1 DEF Init
<1>4. refund \in [Order -> RefundRow]
  <2>1. NoSnapshot \in Snapshot
    BY DEF NoSnapshot, Snapshot, AfterSales, Shipping
  <2>2. {NoRefund} \cup LegacyRefunds \subseteq RefundRow
    BY <2>1 DEF LegacyRefunds, NoRefund, NewRefund, RefundRow, RefundStatus, Reasons
  <2>3. refund \in [Order -> {NoRefund} \cup LegacyRefunds]
    BY DEF Init
  <2> QED
    BY <2>2, <2>3
<1>5. review \in [Review -> ReviewRow]
  <2>1. [status |-> "absent", type |-> "refund", order |-> o0, related |-> FALSE] \in ReviewRow
    BY <1>1 DEF ReviewRow, ReviewStatus, ReviewType
  <2>2. review \in [Review -> {[status |-> "absent", type |-> "refund", order |-> o,
                                related |-> FALSE] : o \in {o0}}]
    BY DEF Init
  <2> HIDE DEF o0
  <2> QED
    BY <2>1, <2>2
<1>6. payload \in [Msg -> [order: Order, review: BOOLEAN]]
  <2>1. payload \in [Msg -> {[order |-> o, review |-> FALSE] : o \in {o0}}]
    BY DEF Init
  <2>2. [order |-> o0, review |-> FALSE] \in [order: Order, review: BOOLEAN]
    BY <1>1
  <2> HIDE DEF o0
  <2> QED
    BY <2>1, <2>2
<1>7. applying \subseteq [order: Order, review: BOOLEAN] /\ PaymentTypeOK
  BY DEF Init, PaymentTypeOK
<1> QED
  BY <1>2, <1>3, <1>4, <1>5, <1>6, <1>7, TypeParts DEF DeskTypeOK

\* What a handler writes into the fields of a row leaves a row.
LEMMA OrderWrite ==
  ASSUME NEW f \in [Order -> OrderRow], NEW o \in Order, NEW status \in OrderStatus,
         NEW after \in AfterSales, NEW last \in BOOLEAN
  PROVE  [f EXCEPT ![o].status = status, ![o].after = after, ![o].last = last]
           \in [Order -> OrderRow]
<1>1. f[o] \in OrderRow
  OBVIOUS
<1>2. [f[o] EXCEPT !.status = status, !.after = after, !.last = last] \in OrderRow
  BY <1>1 DEF OrderRow
<1>3. [f EXCEPT ![o].status = status, ![o].after = after, ![o].last = last]
        = [f EXCEPT ![o] = [f[o] EXCEPT !.status = status, !.after = after, !.last = last]]
  BY <1>1
<1> QED
  BY <1>2, <1>3

LEMMA RefundStatusWrite ==
  ASSUME NEW f \in [Order -> RefundRow], NEW o \in Order, NEW status \in RefundStatus
  PROVE  [f EXCEPT ![o].status = status] \in [Order -> RefundRow]
<1>1. f[o] \in RefundRow
  OBVIOUS
<1>2. [f[o] EXCEPT !.status = status] \in RefundRow
  BY <1>1 DEF RefundRow
<1> QED
  BY <1>2

LEMMA RefundApprovalWrite ==
  ASSUME NEW f \in [Order -> RefundRow], NEW o \in Order, NEW status \in RefundStatus,
         NEW approved \in BOOLEAN
  PROVE  [f EXCEPT ![o].status = status, ![o].approved = approved] \in [Order -> RefundRow]
<1>1. f[o] \in RefundRow
  OBVIOUS
<1>2. [f[o] EXCEPT !.status = status, !.approved = approved] \in RefundRow
  BY <1>1 DEF RefundRow
<1>3. [f EXCEPT ![o].status = status, ![o].approved = approved]
        = [f EXCEPT ![o] = [f[o] EXCEPT !.status = status, !.approved = approved]]
  BY <1>1
<1> QED
  BY <1>2, <1>3

LEMMA RefundSnapshotWrite ==
  ASSUME NEW f \in [Order -> RefundRow], NEW o \in Order, NEW status \in RefundStatus,
         NEW before \in Snapshot
  PROVE  [f EXCEPT ![o].status = status, ![o].before = before] \in [Order -> RefundRow]
<1>1. f[o] \in RefundRow
  OBVIOUS
<1>2. [f[o] EXCEPT !.status = status, !.before = before] \in RefundRow
  BY <1>1 DEF RefundRow
<1>3. [f EXCEPT ![o].status = status, ![o].before = before]
        = [f EXCEPT ![o] = [f[o] EXCEPT !.status = status, !.before = before]]
  BY <1>1
<1> QED
  BY <1>2, <1>3

LEMMA SnapshotType ==
  ASSUME order \in [Order -> OrderRow], NEW o \in Order
  PROVE  SnapshotOf(o) \in Snapshot
<1>1. order[o] \in OrderRow
  OBVIOUS
<1> QED
  BY <1>1 DEF SnapshotOf, Snapshot, OrderRow

LEMMA ApplyType ==
  ASSUME TypeOK, Apply
  PROVE  DeskTypeOK' /\ PaymentTypeOK'
<1> USE DEF TypeOK, DeskTypeOK, PaymentTypeOK
<1>1. ASSUME NEW o \in Order, JudgeApplication(o) PROVE DeskTypeOK' /\ PaymentTypeOK'
  BY <1>1 DEF JudgeApplication, deskVars, paymentVars
<1>2. ASSUME NEW a \in applying, PersistApplication(a) PROVE DeskTypeOK' /\ PaymentTypeOK'
  BY <1>2 DEF PersistApplication, InsertRefund, PublishRefundCreated, NewRefund, NoSnapshot,
              paymentVars, RefundRow, RefundStatus, Reasons, Snapshot, AfterSales, Shipping
<1>3. ASSUME NEW a \in applying, AbandonApplication(a) PROVE DeskTypeOK' /\ PaymentTypeOK'
  BY <1>3 DEF AbandonApplication, deskVars, paymentVars
<1>4. ASSUME NEW o \in Order, RepairMissingEvent(o) PROVE DeskTypeOK' /\ PaymentTypeOK'
  BY <1>4 DEF RepairMissingEvent, PublishRefundCreated, deskVars, paymentVars, RefundRow
<1> QED
  BY <1>1, <1>2, <1>3, <1>4 DEF Apply

LEMMA ConsumeType ==
  ASSUME TypeOK, Consume
  PROVE  DeskTypeOK' /\ PaymentTypeOK'
<1> USE DEF TypeOK, DeskTypeOK, PaymentTypeOK
<1>1. PICK d \in inflight : ProcessRefundMessage(d)
  BY DEF Consume
<1> DEFINE o == payload[d.msg].order
<1>2. o \in Order
  BY DEF QueueTypeOK, Delivery
<1>3. CASE RefundEventNoop(d)
  BY <1>3 DEF RefundEventNoop, deskVars, paymentVars
<1>4. CASE ManualReviewRequired(d)
  <2>1. "pending_manual_review" \in RefundStatus
    BY DEF RefundStatus
  <2>2. refund' \in [Order -> RefundRow]
    BY <1>2, <1>4, <2>1, RefundStatusWrite DEF ManualReviewRequired
  <2> QED
    BY <1>4, <2>2 DEF ManualReviewRequired, paymentVars
<1>5. CASE RefundProcessing(d)
  <2>1. SnapshotOf(o) \in Snapshot
    BY <1>2, SnapshotType
  <2>2. refund' \in [Order -> RefundRow]
    <3>1. refund' = [refund EXCEPT ![o].status = "refund_processing",
                                   ![o].before = SnapshotOf(o)]
      BY <1>5 DEF RefundProcessing
    <3>2. "refund_processing" \in RefundStatus
      BY DEF RefundStatus
    <3> QED
      BY <1>2, <2>1, <3>1, <3>2, RefundSnapshotWrite
  <2>3. order' \in [Order -> OrderRow]
    <3>1. order' = [order EXCEPT ![o].status = "refunding",
                                 ![o].after = "refund_processing", ![o].last = TRUE]
      BY <1>5 DEF RefundProcessing
    <3>2. "refunding" \in OrderStatus /\ "refund_processing" \in AfterSales
      BY DEF OrderStatus, AfterSales
    <3> QED
      BY <1>2, <3>1, <3>2, OrderWrite
  <2> QED
    BY <1>5, <2>2, <2>3 DEF RefundProcessing, paymentVars
<1> QED
  BY <1>1, <1>3, <1>4, <1>5 DEF ProcessRefundMessage

LEMMA DecideType ==
  ASSUME TypeOK, NEW r \in Review, NEW decision \in {"approved", "rejected"},
         Decide(r, decision)
  PROVE  review' \in [Review -> ReviewRow]
<1> DEFINE rel == review[r].related \/ (review[r].type = "refund"
                                          /\ (HasRefund(r) \/ decision = "approved"))
<1>1. review' = [review EXCEPT ![r].status = decision, ![r].related = rel]
  BY DEF Decide
<1>2. rel \in BOOLEAN
  BY DEF TypeOK, ReviewRow
<1>3. [review[r] EXCEPT !.status = decision, !.related = rel] \in ReviewRow
  <2>1. review[r] \in ReviewRow
    BY DEF TypeOK
  <2> HIDE DEF rel
  <2> QED
    BY <1>2, <2>1 DEF ReviewRow, ReviewStatus
<1>4. review' = [review EXCEPT ![r] = [review[r] EXCEPT !.status = decision, !.related = rel]]
  <2> HIDE DEF rel
  <2> QED
    BY <1>1 DEF TypeOK
<1> HIDE DEF rel
<1> QED
  BY <1>3, <1>4 DEF TypeOK

LEMMA ReviewDeskType ==
  ASSUME TypeOK, ReviewDesk
  PROVE  DeskTypeOK' /\ PaymentTypeOK'
<1> USE DEF TypeOK, DeskTypeOK, PaymentTypeOK
<1>1. \A r \in Review : review[r].order \in Order
  BY DEF ReviewRow
<1>2. ASSUME NEW o \in Order, NEW linked \in BOOLEAN, OpenRefundReview(o, linked)
      PROVE  DeskTypeOK' /\ PaymentTypeOK'
  BY <1>2 DEF OpenRefundReview, InsertReview, Active, ReviewRow, ReviewStatus, ReviewType,
              paymentVars
<1>3. ASSUME NEW o \in Order, NEW type \in ReviewType \ {"refund"}, OpenOtherReview(o, type)
      PROVE  DeskTypeOK' /\ PaymentTypeOK'
  BY <1>3 DEF OpenOtherReview, InsertReview, ReviewRow, ReviewStatus, paymentVars
<1>4. ASSUME NEW r \in Review, RejectRefund(r) PROVE DeskTypeOK' /\ PaymentTypeOK'
  BY <1>1, <1>4, DecideType
     DEF RejectRefund, paymentVars, RefundRow, RefundStatus, Inactive
<1>5. ASSUME NEW r \in Review, RejectRequest(r) PROVE DeskTypeOK' /\ PaymentTypeOK'
  BY <1>5, DecideType DEF RejectRequest, paymentVars
<1>6. ASSUME NEW r \in Review, ApproveRefund(r) PROVE DeskTypeOK' /\ PaymentTypeOK'
  <2>1. refund' = [refund EXCEPT ![review[r].order].status = "queued",
                                 ![review[r].order].approved = TRUE]
    BY <1>6 DEF ApproveRefund
  <2>2. refund' \in [Order -> RefundRow]
    <3>1. "queued" \in RefundStatus
      BY DEF RefundStatus
    <3> QED
      BY <1>1, <2>1, <3>1, RefundApprovalWrite
  <2>3. review' \in [Review -> ReviewRow]
    BY <1>6, DecideType DEF ApproveRefund
  <2> QED
    BY <1>1, <1>6, <2>2, <2>3 DEF ApproveRefund, PublishRefundCreated, paymentVars
<1>7. ASSUME NEW r \in Review, ApproveNewRefund(r) PROVE DeskTypeOK' /\ PaymentTypeOK'
  BY <1>1, <1>7, DecideType
     DEF ApproveNewRefund, InsertRefund, PublishRefundCreated, NewRefund, NoSnapshot,
         paymentVars, RefundRow, RefundStatus, Reasons, Snapshot, AfterSales, Shipping
<1>8. ASSUME NEW r \in Review, ApproveCancelPaidOrder(r) PROVE DeskTypeOK' /\ PaymentTypeOK'
  <2>1. refund' \in [Order -> RefundRow]
    BY <1>1, <1>8 DEF ApproveCancelPaidOrder, InsertRefund, NewRefund, NoSnapshot, RefundRow,
                      RefundStatus, Reasons, Snapshot, AfterSales, Shipping
  <2>2. order' \in [Order -> OrderRow]
    BY <1>1, <1>8 DEF ApproveCancelPaidOrder, OrderRow, OrderStatus
  <2> QED
    BY <1>1, <1>8, <2>1, <2>2, DecideType
       DEF ApproveCancelPaidOrder, PublishRefundCreated, paymentVars
<1>9. ASSUME NEW r \in Review, ApproveCancelUnpaidOrder(r)
      PROVE  DeskTypeOK' /\ PaymentTypeOK'
  BY <1>1, <1>9, DecideType DEF ApproveCancelUnpaidOrder, paymentVars, OrderRow, OrderStatus
<1>10. ASSUME NEW r \in Review, ApproveOther(r) PROVE DeskTypeOK' /\ PaymentTypeOK'
  BY <1>10, DecideType DEF ApproveOther, paymentVars
<1> QED
  BY <1>2, <1>3, <1>4, <1>5, <1>6, <1>7, <1>8, <1>9, <1>10 DEF ReviewDesk

LEMMA CancelType ==
  ASSUME TypeOK, NEW o \in Order, CancelRefund(o)
  PROVE  DeskTypeOK' /\ PaymentTypeOK'
<1> USE DEF TypeOK, DeskTypeOK, PaymentTypeOK
<1>1. refund' \in [Order -> RefundRow]
  <2>1. refund' = [refund EXCEPT ![o].status = "cancelled"]
    BY DEF CancelRefund
  <2> QED
    <3>1. "cancelled" \in RefundStatus
      BY DEF RefundStatus, Inactive
    <3> QED
      BY <2>1, <3>1, RefundStatusWrite
<1>2. order' \in [Order -> OrderRow]
  <2> DEFINE b == refund[o].before
  <2>1. b \in Snapshot
    <3>1. refund[o] \in RefundRow
      OBVIOUS
    <3> QED
      BY <3>1 DEF RefundRow
  <2>2. b.status \in OrderStatus \cup {"none"} /\ b.after \in AfterSales /\ b.last \in BOOLEAN
    BY <2>1 DEF Snapshot
  <2>3. \/ order' = order
        \/ /\ b.status # "none"
           /\ order' = [order EXCEPT ![o].status = b.status, ![o].after = b.after,
                                     ![o].last = b.last]
    BY DEF CancelRefund, Restorable
  <2> HIDE DEF b
  <2>4. CASE b.status # "none"
    <3>1. b.status \in OrderStatus
      BY <2>2, <2>4
    <3>2. [order EXCEPT ![o].status = b.status, ![o].after = b.after, ![o].last = b.last]
            \in [Order -> OrderRow]
      BY <2>2, <3>1, OrderWrite
    <3> QED
      BY <2>3, <3>2
  <2> QED
    BY <2>3, <2>4
<1>3. review' \in [Review -> ReviewRow]
  <2>1. \A r \in Review : [review[r] EXCEPT !.status = "cancelled"] \in ReviewRow
    BY DEF ReviewRow, ReviewStatus
  <2>2. CloseReviews(PendingRefundReviews(o))
    BY DEF CancelRefund
  <2> QED
    BY <2>1, <2>2 DEF CloseReviews
<1> QED
  BY <1>1, <1>2, <1>3 DEF CancelRefund, paymentVars

LEMMA PayType ==
  ASSUME TypeOK, Pay
  PROVE  DeskTypeOK' /\ PaymentTypeOK'
<1> USE DEF TypeOK, DeskTypeOK, PaymentTypeOK
<1>1. \A c \in calls : c \in Call /\ c.order \in Order
  BY DEF Call
<1>2. ASSUME NEW o \in Order, SubmitRefundPayment(o) \/ ReconcileRefundPayment(o)
      PROVE  DeskTypeOK' /\ PaymentTypeOK'
  <2>1. \A b \in BOOLEAN : [order |-> o, submit |-> b, answer |-> "unsent"] \in Call
    BY DEF Call, Answer
  <2>2. [refund EXCEPT ![o].status = "payment_submitting"] \in [Order -> RefundRow]
    BY DEF RefundRow, RefundStatus, Dispatched
  <2> QED
    BY <1>2, <2>1, <2>2 DEF SubmitRefundPayment, ReconcileRefundPayment, deskVars
<1>3. ASSUME NEW c \in calls, SendRequest(c) PROVE DeskTypeOK' /\ PaymentTypeOK'
  <2>1. [c EXCEPT !.answer = "waiting"] \in Call
    BY <1>1 DEF Call, Answer
  <2>2. calls' \subseteq Call /\ wire' \subseteq Order /\ submits' \in [Order -> Nat]
    BY <1>1, <1>3, <2>1 DEF SendRequest, Progress
  <2> QED
    BY <1>3, <2>2 DEF SendRequest, deskVars
<1>4. ASSUME NEW c \in calls, Observe(c) PROVE DeskTypeOK' /\ PaymentTypeOK'
  <2>1. Target[c.answer] \in RefundStatus
    BY <1>4 DEF Observe, Target, RefundStatus, Dispatched
  <2>2. refund' \in [Order -> RefundRow]
    <3>1. [refund EXCEPT ![c.order].status = Target[c.answer]] \in [Order -> RefundRow]
      BY <1>1, <2>1 DEF RefundRow
    <3> QED
      BY <1>4, <3>1 DEF Observe
  <2>3. order' \in [Order -> OrderRow]
    <3> DEFINE paid == [order[c.order] EXCEPT !.status = "refunded",
                                              !.after = "refund_succeeded", !.last = TRUE]
    <3>1. paid \in OrderRow
      <4>1. order[c.order] \in OrderRow
        BY <1>1
      <4>2. "refunded" \in OrderStatus /\ "refund_succeeded" \in AfterSales
        BY DEF OrderStatus, AfterSales
      <4> QED
        BY <4>1, <4>2 DEF OrderRow
    <3>2. order' = order \/ order' = [order EXCEPT ![c.order] = paid]
      BY <1>1, <1>4 DEF Observe
    <3> HIDE DEF paid
    <3> QED
      BY <1>1, <3>1, <3>2
  <2> QED
    BY <1>4, <2>2, <2>3 DEF Observe
<1>5. ASSUME NEW c \in calls, CallFails(c) PROVE DeskTypeOK' /\ PaymentTypeOK'
  BY <1>1, <1>5 DEF CallFails, RefundRow, RefundStatus, Dispatched
<1>6. ASSUME NEW c \in calls, CallerDies(c) PROVE DeskTypeOK' /\ PaymentTypeOK'
  BY <1>6 DEF CallerDies, deskVars
<1> QED
  BY <1>2, <1>3, <1>4, <1>5, <1>6 DEF Pay

LEMMA OutsideType ==
  ASSUME TypeOK, Outside
  PROVE  DeskTypeOK' /\ PaymentTypeOK'
<1> USE DEF TypeOK, DeskTypeOK, PaymentTypeOK
<1>1. ASSUME NEW o \in Order, GatewayAccepts(o) \/ RequestLost(o) \/ GatewaySettles(o)
      PROVE  DeskTypeOK' /\ PaymentTypeOK'
  BY <1>1 DEF GatewayAccepts, RequestLost, GatewaySettles, deskVars
<1>2. ASSUME NEW o \in Order, ShippingAdvances(o) PROVE DeskTypeOK' /\ PaymentTypeOK'
  <2>1. \A ship \in Shipping, status \in OrderStatus :
          [order EXCEPT ![o].ship = ship, ![o].status = status] \in [Order -> OrderRow]
    BY DEF OrderRow
  <2>2. PICK ship \in Shipping, status \in OrderStatus :
          order' = [order EXCEPT ![o].ship = ship, ![o].status = status]
    <3>1. order[o].status \in OrderStatus
      BY DEF OrderRow
    <3> QED
      BY <1>2, <3>1 DEF ShippingAdvances, OrderStatus, Shipping
  <2>3. order' \in [Order -> OrderRow]
    BY <2>1, <2>2
  <2> QED
    BY <1>2, <2>3 DEF ShippingAdvances, paymentVars
<1>3. ASSUME NEW o \in Order, PaymentArrives(o) \/ PaymentReversed(o)
      PROVE  DeskTypeOK' /\ PaymentTypeOK'
  BY <1>3 DEF PaymentArrives, PaymentReversed, paymentVars, OrderRow, OrderStatus, Payment
<1>4. ASSUME NEW c \in calls, GatewayAnswers(c) PROVE DeskTypeOK' /\ PaymentTypeOK'
  <2>1. c \in Call /\ gateway[c.order] \in {"none", "processing", "succeeded", "failed"}
    BY DEF Call
  <2>2. PICK answer \in {gateway[c.order], "unknown"} \ {"none"} : calls' = Progress(c, answer)
    BY <1>4 DEF GatewayAnswers
  <2>3. calls' \subseteq Call
    BY <2>1, <2>2 DEF Progress, Call, Answer
  <2> QED
    BY <1>4, <2>3 DEF GatewayAnswers, deskVars
<1> QED
  BY <1>1, <1>2, <1>3, <1>4 DEF Outside

LEMMA TypeStep == TypeOK /\ QueueTypeOK' /\ [Next]_vars => TypeOK'
<1> SUFFICES ASSUME TypeOK, QueueTypeOK', [Next]_vars PROVE DeskTypeOK' /\ PaymentTypeOK'
  BY DEF TypeOK, DeskTypeOK, PaymentTypeOK
<1>1. CASE QueueStep
  BY <1>1 DEF QueueStep, deskVars, paymentVars, TypeOK, DeskTypeOK, PaymentTypeOK
<1>2. CASE UNCHANGED vars
  BY <1>2 DEF vars, TypeOK, DeskTypeOK, PaymentTypeOK
<1> QED
  BY <1>1, <1>2, ApplyType, ConsumeType, ReviewDeskType, CancelType, PayType, OutsideType
     DEF Next

\* Every row, message, call and record keeps its type, and no status outside
\* of the code's vocabulary is ever written.
THEOREM TypeCorrect == Spec => []TypeOK
<1>1. QueueInv => QueueTypeOK
  BY DEF QueueInv
<1> QED
  BY <1>1, TypeInit, TypeStep, LifecycleQueueInv, PTL DEF Spec

-----------------------------------------------------------------------------
(***************************************************************************)
(* The payment guarantees.                                                 *)
(*                                                                         *)
(* "The channel is asked at most once" is not inductive.  It holds because *)
(* the commit that precedes the network call moves the refund out of       *)
(* refund_processing for good: from then on the refund is dispatched, no   *)
(* second submit is admitted, and the one call that was admitted sends its *)
(* request once.  PaymentInv says this of every call in the air, and also  *)
(* that an answer carried by a call is what the channel has recorded.      *)
(***************************************************************************)

\* Whoever talks to the channel talks about a dispatched refund.
CallsAreDispatched == \A c \in calls : refund[c.order].status \in Dispatched

\* A submit request that waits to be sent is the first one.
UnsentIsFirst ==
  \A c \in calls : c.submit /\ c.answer = "unsent" => submits[c.order] = 0

\* An outcome on its way to the books is the channel's own.
AnswersAgree ==
  \A c \in calls : c.answer \in {"succeeded", "failed"} => gateway[c.order] = c.answer

PaymentInv ==
  /\ NoPayoutWithoutDispatch
  /\ SubmittedAtMostOnce
  /\ BooksAgreeWithGateway
  /\ CallsAreDispatched
  /\ UnsentIsFirst
  /\ AnswersAgree

LEMMA PaymentInvInit == Init => PaymentInv
<1> SUFFICES ASSUME Init PROVE PaymentInv
  OBVIOUS
<1>1. \A o \in Order : /\ o \notin wire /\ gateway[o] = "none" /\ submits[o] = 0
                       /\ refund[o].status \in {"none", "queued", "pending_manual_review"}
  BY DEF Init, NoRefund, LegacyRefunds, NewRefund
<1>2. calls = {}
  BY DEF Init
<1> QED
  BY <1>1, <1>2 DEF PaymentInv, NoPayoutWithoutDispatch, SubmittedAtMostOnce,
     BooksAgreeWithGateway, CallsAreDispatched, UnsentIsFirst, AnswersAgree

-----------------------------------------------------------------------------
(* Everything but payment leaves dispatched refunds and the channel alone. *)

DispatchFrame ==
  /\ UNCHANGED paymentVars
  /\ \A o \in Order :
       refund[o].status \in Dispatched \/ refund'[o].status \in Dispatched
         => refund'[o] = refund[o]

LEMMA ApplyFrame ==
  ASSUME TypeOK, Apply
  PROVE  DispatchFrame
<1> USE DEF TypeOK, DispatchFrame
<1>1. ASSUME NEW o \in Order, JudgeApplication(o) \/ RepairMissingEvent(o)
      PROVE  DispatchFrame
  BY <1>1 DEF JudgeApplication, RepairMissingEvent, deskVars
<1>2. ASSUME NEW a \in applying, PersistApplication(a) PROVE DispatchFrame
  BY <1>2 DEF PersistApplication, InsertRefund, NewRefund, Dispatched
<1>3. ASSUME NEW a \in applying, AbandonApplication(a) PROVE DispatchFrame
  BY <1>3 DEF AbandonApplication, deskVars
<1> QED
  BY <1>1, <1>2, <1>3 DEF Apply

LEMMA ConsumeFrame ==
  ASSUME TypeOK, Consume
  PROVE  DispatchFrame
<1> USE DEF TypeOK, DispatchFrame
<1>1. PICK d \in inflight : ProcessRefundMessage(d)
  BY DEF Consume
<1>2. CASE RefundEventNoop(d)
  BY <1>2 DEF RefundEventNoop, deskVars
<1>3. CASE ManualReviewRequired(d)
  BY <1>3 DEF ManualReviewRequired, Dispatched
<1>4. CASE RefundProcessing(d)
  <2> DEFINE o == payload[d.msg].order
  <2>1. /\ refund[o].status = "queued" /\ UNCHANGED paymentVars
        /\ refund' = [refund EXCEPT ![o].status = "refund_processing",
                                    ![o].before = SnapshotOf(o)]
    BY <1>4 DEF RefundProcessing
  <2>2. \A p \in Order : /\ p # o => refund'[p] = refund[p]
                         /\ p = o => refund'[p].status = "refund_processing"
    <3> HIDE DEF o
    <3> QED
      BY <2>1 DEF RefundRow
  <2> HIDE DEF o
  <2> QED
    BY <2>1, <2>2 DEF Dispatched
<1> QED
  BY <1>1, <1>2, <1>3, <1>4 DEF ProcessRefundMessage

LEMMA ReviewDeskFrame ==
  ASSUME TypeOK, ReviewDesk
  PROVE  DispatchFrame
<1> USE DEF TypeOK, DispatchFrame
<1>1. ASSUME NEW o \in Order, NEW linked \in BOOLEAN, OpenRefundReview(o, linked)
      PROVE  DispatchFrame
  BY <1>1 DEF OpenRefundReview
<1>2. ASSUME NEW o \in Order, NEW type \in ReviewType, OpenOtherReview(o, type)
      PROVE  DispatchFrame
  BY <1>2 DEF OpenOtherReview
<1>3. ASSUME NEW r \in Review, RejectRefund(r) \/ ApproveRefund(r) PROVE DispatchFrame
  <2> DEFINE o == review[r].order
  <2>1. /\ refund[o].status = "pending_manual_review" /\ UNCHANGED paymentVars
        /\ \/ refund' = [refund EXCEPT ![o].status = "rejected", ![o].approved = FALSE]
           \/ refund' = [refund EXCEPT ![o].status = "queued", ![o].approved = TRUE]
    BY <1>3 DEF RejectRefund, ApproveRefund
  <2>2. \A p \in Order : /\ p # o => refund'[p] = refund[p]
                         /\ p = o => refund'[p].status \in {"queued", "rejected"}
    <3> HIDE DEF o
    <3> QED
      BY <2>1 DEF RefundRow
  <2> HIDE DEF o
  <2> QED
    BY <2>1, <2>2 DEF Dispatched
<1>4. ASSUME NEW r \in Review, ApproveNewRefund(r) \/ ApproveCancelPaidOrder(r)
      PROVE  DispatchFrame
  <2> DEFINE o == review[r].order
  <2>1. /\ refund[o].status = "none" /\ UNCHANGED paymentVars
        /\ \E row : row.status = "queued" /\ refund' = [refund EXCEPT ![o] = row]
    BY <1>4 DEF ApproveNewRefund, ApproveCancelPaidOrder, InsertRefund, NewRefund
  <2>2. \A p \in Order : /\ p # o => refund'[p] = refund[p]
                         /\ p = o => refund'[p].status = "queued"
    <3> HIDE DEF o
    <3> QED
      BY <2>1
  <2> HIDE DEF o
  <2> QED
    BY <2>1, <2>2 DEF Dispatched
<1>5. ASSUME NEW r \in Review,
             RejectRequest(r) \/ ApproveCancelUnpaidOrder(r) \/ ApproveOther(r)
      PROVE  DispatchFrame
  BY <1>5 DEF RejectRequest, ApproveCancelUnpaidOrder, ApproveOther
<1> QED
  BY <1>1, <1>2, <1>3, <1>4, <1>5 DEF ReviewDesk

LEMMA CancelFrame ==
  ASSUME TypeOK, NEW o \in Order, CancelRefund(o)
  PROVE  DispatchFrame
BY DEF TypeOK, DispatchFrame, CancelRefund, Dispatched

LEMMA FrameKeepsPaymentInv ==
  ASSUME TypeOK, PaymentInv, DispatchFrame
  PROVE  PaymentInv'
<1>1. /\ calls' = calls /\ wire' = wire /\ gateway' = gateway /\ submits' = submits
      /\ \A o \in Order : refund'[o].status \in Dispatched <=> refund[o].status \in Dispatched
      /\ \A o \in Order : refund'[o].status \in Dispatched => refund'[o] = refund[o]
  BY DEF DispatchFrame, paymentVars
<1>2. \A c \in calls : c.order \in Order
  BY DEF TypeOK, Call
<1>3. "refund_succeeded" \in Dispatched /\ "failed" \in Dispatched
  BY DEF Dispatched
<1> QED
  BY <1>1, <1>2, <1>3 DEF PaymentInv, NoPayoutWithoutDispatch, SubmittedAtMostOnce,
     BooksAgreeWithGateway, CallsAreDispatched, UnsentIsFirst, AnswersAgree

-----------------------------------------------------------------------------
(* Payment and the channel.                                                *)

LEMMA SubmitKeepsPaymentInv ==
  ASSUME TypeOK, PaymentInv, NEW o \in Order, SubmitRefundPayment(o)
  PROVE  PaymentInv'
<1>1. /\ refund[o].status = "refund_processing"
      /\ refund' = [refund EXCEPT ![o].status = "payment_submitting"]
      /\ calls' = calls \cup {[order |-> o, submit |-> TRUE, answer |-> "unsent"]}
      /\ wire' = wire /\ gateway' = gateway /\ submits' = submits
  BY DEF SubmitRefundPayment
<1>2. \A p \in Order : p # o => refund'[p] = refund[p]
  BY <1>1 DEF TypeOK
<1>3. refund'[o].status = "payment_submitting"
  BY <1>1 DEF TypeOK, RefundRow
<1>4. o \notin wire /\ gateway[o] = "none" /\ ~(submits[o] > 0)
  BY <1>1 DEF PaymentInv, NoPayoutWithoutDispatch, Dispatched
<1>5. submits[o] = 0
  BY <1>4 DEF TypeOK
<1>6. \A c \in calls : c.order \in Order /\ c.order # o
  BY <1>1 DEF PaymentInv, CallsAreDispatched, Dispatched, TypeOK, Call
<1>7. NoPayoutWithoutDispatch' /\ SubmittedAtMostOnce' /\ BooksAgreeWithGateway'
  BY <1>1, <1>2, <1>3 DEF PaymentInv, NoPayoutWithoutDispatch, SubmittedAtMostOnce,
     BooksAgreeWithGateway, Dispatched
<1>8. CallsAreDispatched' /\ UnsentIsFirst' /\ AnswersAgree'
  BY <1>1, <1>2, <1>3, <1>5, <1>6
     DEF PaymentInv, CallsAreDispatched, UnsentIsFirst, AnswersAgree, Dispatched
<1> QED
  BY <1>7, <1>8 DEF PaymentInv

LEMMA ReconcileKeepsPaymentInv ==
  ASSUME TypeOK, PaymentInv, NEW o \in Order, ReconcileRefundPayment(o)
  PROVE  PaymentInv'
BY DEF ReconcileRefundPayment, deskVars, PaymentInv, NoPayoutWithoutDispatch,
       SubmittedAtMostOnce, BooksAgreeWithGateway, CallsAreDispatched, UnsentIsFirst,
       AnswersAgree

LEMMA SendKeepsPaymentInv ==
  ASSUME TypeOK, PaymentInv, NEW c \in calls, SendRequest(c)
  PROVE  PaymentInv'
<1>1. c \in Call /\ c.order \in Order /\ c.answer = "unsent"
  BY DEF TypeOK, Call, SendRequest
<1>2. /\ calls' = (calls \ {c}) \cup {[c EXCEPT !.answer = "waiting"]}
      /\ refund' = refund /\ gateway' = gateway
  BY DEF SendRequest, Progress, deskVars
<1>3. [c EXCEPT !.answer = "waiting"] =
        [order |-> c.order, submit |-> c.submit, answer |-> "waiting"]
  BY <1>1 DEF Call
<1>4. refund[c.order].status \in Dispatched
  BY DEF PaymentInv, CallsAreDispatched
<1>5. CASE c.submit
  <2>1. wire' = wire \cup {c.order} /\ submits' = [submits EXCEPT ![c.order] = @ + 1]
    BY <1>5 DEF SendRequest
  <2>2. submits[c.order] = 0
    BY <1>1, <1>5 DEF PaymentInv, UnsentIsFirst
  <2>3. submits'[c.order] = 1 /\ \A p \in Order : p # c.order => submits'[p] = submits[p]
    BY <1>1, <2>1, <2>2 DEF TypeOK
  <2>4. \A k \in calls' : k.submit /\ k.answer = "unsent" => k.order # c.order
    \* calls is a set: the only unsent submit of this refund is c itself.
    <3> SUFFICES ASSUME NEW k \in calls, k # c, k.submit, k.answer = "unsent",
                        k.order = c.order
                 PROVE  FALSE
      BY <1>2, <1>3
    <3>1. k \in Call
      BY DEF TypeOK
    <3> QED
      BY <1>1, <1>5, <3>1 DEF Call
  <2>5. NoPayoutWithoutDispatch' /\ SubmittedAtMostOnce' /\ BooksAgreeWithGateway'
    BY <1>1, <1>2, <1>4, <2>1, <2>3
       DEF PaymentInv, NoPayoutWithoutDispatch, SubmittedAtMostOnce, BooksAgreeWithGateway
  <2>6. CallsAreDispatched' /\ AnswersAgree'
    BY <1>2, <1>3, <1>4 DEF PaymentInv, CallsAreDispatched, AnswersAgree
  <2>7. UnsentIsFirst'
    <3> SUFFICES ASSUME NEW k \in calls', k.submit, k.answer = "unsent"
                 PROVE  submits'[k.order] = 0
      BY DEF UnsentIsFirst
    <3>1. k \in calls
      BY <1>2, <1>3
    <3> QED
      BY <2>3, <2>4, <3>1 DEF PaymentInv, UnsentIsFirst, TypeOK, Call
  <2> QED
    BY <2>5, <2>6, <2>7 DEF PaymentInv
<1>6. CASE ~c.submit
  <2>1. wire' = wire /\ submits' = submits
    BY <1>6 DEF SendRequest
  <2> QED
    BY <1>2, <1>3, <1>4, <2>1
       DEF PaymentInv, NoPayoutWithoutDispatch, SubmittedAtMostOnce, BooksAgreeWithGateway,
           CallsAreDispatched, UnsentIsFirst, AnswersAgree
<1> QED
  BY <1>5, <1>6

\* Recording an answer or an exception: the status moves among the dispatched
\* ones, to an outcome only if the channel has it.
LEMMA RecordKeepsPaymentInv ==
  ASSUME TypeOK, PaymentInv, NEW c \in calls,
         Observe(c) \/ CallFails(c) \/ CallerDies(c)
  PROVE  PaymentInv'
<1> DEFINE o == c.order
<1>1. o \in Order /\ refund[o].status \in Dispatched
  BY DEF TypeOK, Call, PaymentInv, CallsAreDispatched
<1>2. /\ calls' = calls \ {c} /\ wire' = wire /\ gateway' = gateway /\ submits' = submits
      /\ \A p \in Order : p # o => refund'[p] = refund[p]
  <2>1. calls' = calls \ {c} /\ wire' = wire /\ gateway' = gateway /\ submits' = submits
    BY DEF Observe, CallFails, CallerDies
  <2>2. CASE Observe(c)
    BY <2>2, <1>1 DEF Observe, TypeOK
  <2>3. CASE CallFails(c) \/ CallerDies(c)
    BY <2>3, <1>1 DEF CallFails, CallerDies, TypeOK, deskVars
  <2> QED
    BY <2>1, <2>2, <2>3
<1>3. /\ refund'[o].status \in Dispatched
      /\ refund'[o].status = "refund_succeeded" => gateway[o] = "succeeded"
      /\ refund'[o].status = "failed" => gateway[o] = "failed"
  <2>0. /\ refund[o].status = "refund_succeeded" => gateway[o] = "succeeded"
        /\ refund[o].status = "failed" => gateway[o] = "failed"
    BY <1>1 DEF PaymentInv, BooksAgreeWithGateway
  <2>1. CASE Observe(c)
    <3>1. refund' = refund \/ refund' = [refund EXCEPT ![o].status = Target[c.answer]]
      BY <2>1 DEF Observe
    <3>2. refund'[o].status \in {refund[o].status, Target[c.answer]}
      <4> HIDE DEF o
      <4> QED
        BY <1>1, <3>1 DEF TypeOK, RefundRow
    <3>3. c.answer \in {"processing", "succeeded", "failed", "unknown"}
      BY <2>1 DEF Observe, Target
    <3>4. /\ Target[c.answer] \in Dispatched
          /\ Target[c.answer] = "refund_succeeded" => c.answer = "succeeded"
          /\ Target[c.answer] = "failed" => c.answer = "failed"
      BY <3>3 DEF Target, Dispatched
    <3>5. c.answer \in {"succeeded", "failed"} => gateway[o] = c.answer
      BY DEF PaymentInv, AnswersAgree
    <3> QED
      BY <1>1, <2>0, <3>2, <3>4, <3>5
  <2>2. CASE CallFails(c)
    <3>1. refund' = refund \/ refund' = [refund EXCEPT ![o].status = "refund_unknown"]
      BY <2>2 DEF CallFails
    <3>2. refund'[o].status \in {refund[o].status, "refund_unknown"}
      <4> HIDE DEF o
      <4> QED
        BY <1>1, <3>1 DEF TypeOK, RefundRow
    <3> QED
      BY <1>1, <2>0, <3>2 DEF Dispatched
  <2>3. CASE CallerDies(c)
    BY <1>1, <2>0, <2>3 DEF CallerDies, deskVars
  <2> QED
    BY <2>1, <2>2, <2>3
<1> HIDE DEF o
<1>4. \A k \in calls : k.order \in Order
  BY DEF TypeOK, Call
<1> QED
  BY <1>1, <1>2, <1>3, <1>4
     DEF PaymentInv, NoPayoutWithoutDispatch, SubmittedAtMostOnce, BooksAgreeWithGateway,
         CallsAreDispatched, UnsentIsFirst, AnswersAgree

LEMMA OutsideKeepsPaymentInv ==
  ASSUME TypeOK, PaymentInv, Outside
  PROVE  PaymentInv'
<1> USE DEF PaymentInv, NoPayoutWithoutDispatch, SubmittedAtMostOnce, BooksAgreeWithGateway,
            CallsAreDispatched, UnsentIsFirst, AnswersAgree
<1>1. \A c \in calls : c.order \in Order
  BY DEF TypeOK, Call
<1>2. ASSUME NEW o \in Order, GatewayAccepts(o) PROVE PaymentInv'
  <2>1. /\ refund' = refund /\ calls' = calls /\ submits' = submits
        /\ wire' \subseteq wire /\ o \in wire
        /\ \A p \in Order : gateway'[p] = gateway[p]
                            \/ (p = o /\ gateway[o] = "none" /\ gateway'[o] = "processing")
    BY <1>2 DEF GatewayAccepts, deskVars, TypeOK
  <2> QED
    BY <1>1, <2>1
<1>3. ASSUME NEW o \in Order, RequestLost(o) PROVE PaymentInv'
  BY <1>3 DEF RequestLost, deskVars
<1>4. ASSUME NEW o \in Order, GatewaySettles(o) PROVE PaymentInv'
  <2>1. /\ refund' = refund /\ calls' = calls /\ submits' = submits /\ wire' = wire
        /\ \A p \in Order : gateway'[p] = gateway[p]
                            \/ (p = o /\ gateway[o] = "processing")
    BY <1>4 DEF GatewaySettles, deskVars, TypeOK
  <2> QED
    BY <1>1, <2>1
<1>5. ASSUME NEW c \in calls, GatewayAnswers(c) PROVE PaymentInv'
  <2>1. PICK answer \in {gateway[c.order], "unknown"} \ {"none"} : calls' = Progress(c, answer)
    BY <1>5 DEF GatewayAnswers
  <2>2. [c EXCEPT !.answer = answer] =
          [order |-> c.order, submit |-> c.submit, answer |-> answer]
    BY DEF TypeOK, Call
  <2>3. gateway[c.order] \in {"none", "processing", "succeeded", "failed"}
    BY <1>1 DEF TypeOK
  <2>4. refund' = refund /\ wire' = wire /\ gateway' = gateway /\ submits' = submits
    BY <1>5 DEF GatewayAnswers, deskVars
  <2>5. \A k \in calls' :
          k \in calls \/ (k.order = c.order /\ k.answer = answer)
    BY <2>1, <2>2 DEF Progress
  <2>6. answer # "unsent" /\ (answer \in {"succeeded", "failed"} => gateway[c.order] = answer)
    BY <2>1, <2>3
  <2>7. UnsentIsFirst' /\ AnswersAgree' /\ CallsAreDispatched'
    BY <2>4, <2>5, <2>6
  <2> QED
    BY <2>4, <2>7
<1>6. ASSUME NEW o \in Order,
             ShippingAdvances(o) \/ PaymentArrives(o) \/ PaymentReversed(o)
      PROVE  PaymentInv'
  BY <1>6 DEF ShippingAdvances, PaymentArrives, PaymentReversed, paymentVars
<1> QED
  BY <1>2, <1>3, <1>4, <1>5, <1>6 DEF Outside

LEMMA PaymentInvStep == TypeOK /\ PaymentInv /\ [Next]_vars => PaymentInv'
<1> SUFFICES ASSUME TypeOK, PaymentInv, [Next]_vars PROVE PaymentInv'
  OBVIOUS
<1>1. CASE Apply \/ Consume \/ ReviewDesk \/ \E o \in Order : CancelRefund(o)
  BY <1>1, ApplyFrame, ConsumeFrame, ReviewDeskFrame, CancelFrame, FrameKeepsPaymentInv
<1>2. CASE QueueStep \/ UNCHANGED vars
  <2>1. DispatchFrame
    BY <1>2 DEF QueueStep, vars, DispatchFrame, deskVars, paymentVars
  <2> QED
    BY <2>1, FrameKeepsPaymentInv
<1>3. CASE Pay
  BY <1>3, SubmitKeepsPaymentInv, ReconcileKeepsPaymentInv, SendKeepsPaymentInv,
     RecordKeepsPaymentInv DEF Pay
<1>4. CASE Outside
  BY <1>4, OutsideKeepsPaymentInv
<1> QED
  BY <1>1, <1>2, <1>3, <1>4 DEF Next

-----------------------------------------------------------------------------
(* The theorems.                                                           *)

LEMMA PaymentSafety == Spec => []PaymentInv
BY PaymentInvInit, PaymentInvStep, TypeCorrect, PTL DEF Spec

\* The channel receives at most one submit request for each refund: timeouts,
\* crashes of the caller, lost requests and reconciliations never cause a
\* second one.
THEOREM NeverSubmittedTwice == Spec => []SubmittedAtMostOnce
<1>1. PaymentInv => SubmittedAtMostOnce
  BY DEF PaymentInv
<1> QED
  BY <1>1, PaymentSafety, PTL

\* No refund that was withdrawn, rejected or is not ready is at the channel or
\* on its way there.
THEOREM PayoutOnlyAfterDispatch == Spec => []NoPayoutWithoutDispatch
<1>1. PaymentInv => NoPayoutWithoutDispatch
  BY DEF PaymentInv
<1> QED
  BY <1>1, PaymentSafety, PTL

\* Whatever order answers arrive in, an outcome in the books is the channel's.
THEOREM OutcomesAreTheChannels == Spec => []BooksAgreeWithGateway
<1>1. PaymentInv => BooksAgreeWithGateway
  BY DEF PaymentInv
<1> QED
  BY <1>1, PaymentSafety, PTL
=============================================================================
