-------------------------- MODULE RefundDesk_proofs -------------------------
(***************************************************************************)
(* Orders, reviews, events and the promise of a refund in RefundLifecycle, *)
(* for any sets of orders, reviews and messages.                           *)
(*                                                                         *)
(* First, what the order shows of its refund, and how refunds end.         *)
(* A withdrawal puts a snapshot back, so the order mirrors its refund only *)
(* if the snapshot was taken of an order without one: MirrorInv says so of *)
(* every snapshot that may still be put back.  All of it follows from what *)
(* one step can do to the two rows of one order (RowStep).                 *)
(***************************************************************************)
EXTENDS RefundLifecycle_proofs, FiniteSetTheorems

\* The order row w is what the refund row f makes of it.
Mirrors(w, f) ==
  /\ w.status = "refunding" <=> f.status \in UnderRefund
  /\ w.after = "refund_processing" <=> f.status \in UnderRefund
  /\ w.status = "refunded" <=> f.status = "refund_succeeded"
  /\ w.last <=> f.status \in UnderRefund \cup {"refund_succeeded"}

\* An order or snapshot that waits for payment or for the warehouse has not left it.
NotLeftYet(w) == w.status \in {"open", "awaiting_payment"} => w.ship = "unshipped"

\* A snapshot that may be put back was taken of an order without a refund.
SnapshotIsPlain(f) ==
  f.status = "refund_processing" =>
    /\ f.before.status \notin {"refunding", "refunded"}
    /\ f.before.after # "refund_processing"
    /\ ~f.before.last
    /\ NotLeftYet(f.before)

RowsAgree(w, f) == Mirrors(w, f) /\ NotLeftYet(w) /\ SnapshotIsPlain(f)

MirrorInv == \A o \in Order : RowsAgree(order[o], refund[o])

-----------------------------------------------------------------------------
(* What a step can do to the rows of one order.                            *)

Kept(o) == order'[o] = order[o] /\ refund'[o] = refund[o]

\* Applied for, or created by an approval; an approved cancellation also
\* cancels the order.
Created(o) ==
  /\ refund[o].status = "none"
  /\ refund'[o].status \in {"queued", "pending_manual_review"}
  /\ \/ order'[o] = order[o]
     \/ /\ order[o].status \in {"open", "awaiting_payment"}
        /\ order'[o] = [order[o] EXCEPT !.status = "cancelled"]

\* Held, decided or withdrawn before it was processed.
Waited(o) ==
  /\ refund[o].status \in {"queued", "pending_manual_review"}
  /\ refund'[o].status \in {"queued", "pending_manual_review", "rejected", "cancelled"}
  /\ order'[o] = order[o]

Started(o) ==
  /\ refund[o].status = "queued"
  /\ refund'[o] = [refund[o] EXCEPT !.status = "refund_processing", !.before = SnapshotOf(o)]
  /\ order'[o] = [order[o] EXCEPT !.status = "refunding", !.after = "refund_processing",
                                  !.last = TRUE]

Withdrawn(o) ==
  /\ refund[o].status = "refund_processing" /\ order[o].ship = refund[o].before.ship
  /\ refund'[o].status = "cancelled"
  /\ order'[o] = [order[o] EXCEPT !.status = refund[o].before.status,
                                  !.after = refund[o].before.after,
                                  !.last = refund[o].before.last]

Asked(o) ==
  /\ refund[o].status \in {"refund_processing", "payment_submitting", "refund_unknown"}
  /\ refund'[o].status \in {"payment_submitting", "refund_unknown", "failed"}
  /\ order'[o] = order[o]

PaidOut(o) ==
  /\ refund[o].status \in {"payment_submitting", "refund_unknown"}
  /\ refund'[o].status = "refund_succeeded"
  /\ order'[o] = [order[o] EXCEPT !.status = "refunded", !.after = "refund_succeeded",
                                  !.last = TRUE]

\* The shop, and an approved cancellation of an unpaid order.
Moved(o) ==
  /\ refund'[o] = refund[o]
  /\ order'[o].after = order[o].after /\ order'[o].last = order[o].last
  /\ \/ order'[o].status = order[o].status /\ order'[o].ship = order[o].ship
     \/ /\ order[o].status \notin {"open", "awaiting_payment"}
        /\ order'[o].status = order[o].status
     \/ order[o].status = "open" /\ order'[o].status = "shipped"
     \/ /\ order[o].status \in {"open", "awaiting_payment"}
        /\ order'[o].status = "cancelled"
     \/ /\ order[o].status = "awaiting_payment" /\ order'[o].status = "open"
        /\ order'[o].ship = order[o].ship

RowStep(o) ==
  \/ Kept(o) \/ Created(o) \/ Waited(o) \/ Started(o)
  \/ Withdrawn(o) \/ Asked(o) \/ PaidOut(o) \/ Moved(o)

LEMMA ApplyRows ==
  ASSUME TypeOK, Apply, NEW o \in Order
  PROVE  RowStep(o)
<1> USE DEF TypeOK, RowStep, Kept
<1>1. ASSUME NEW p \in Order, JudgeApplication(p) \/ RepairMissingEvent(p)
      PROVE  RowStep(o)
  BY <1>1 DEF JudgeApplication, RepairMissingEvent, deskVars
<1>2. ASSUME NEW a \in applying, PersistApplication(a) PROVE RowStep(o)
  BY <1>2 DEF PersistApplication, InsertRefund, NewRefund, Created
<1>3. ASSUME NEW a \in applying, AbandonApplication(a) PROVE RowStep(o)
  BY <1>3 DEF AbandonApplication, deskVars
<1> QED
  BY <1>1, <1>2, <1>3 DEF Apply

LEMMA ConsumeRows ==
  ASSUME TypeOK, Consume, NEW o \in Order
  PROVE  RowStep(o)
<1> USE DEF TypeOK, RowStep, Kept
<1>1. PICK d \in inflight : ProcessRefundMessage(d)
  BY DEF Consume
<1>2. CASE RefundEventNoop(d)
  BY <1>2 DEF RefundEventNoop, deskVars
<1>3. CASE ManualReviewRequired(d)
  <2> DEFINE p == payload[d.msg].order
  <2>1. /\ refund[p].status = "queued" /\ order' = order
        /\ refund' = [refund EXCEPT ![p].status = "pending_manual_review"]
    BY <1>3 DEF ManualReviewRequired
  <2> HIDE DEF p
  <2> QED
    BY <2>1 DEF RefundRow, Waited
<1>4. CASE RefundProcessing(d)
  <2> DEFINE p == payload[d.msg].order
  <2>1. /\ refund[p].status = "queued"
        /\ refund' = [refund EXCEPT ![p].status = "refund_processing",
                                    ![p].before = SnapshotOf(p)]
        /\ order' = [order EXCEPT ![p].status = "refunding",
                                  ![p].after = "refund_processing", ![p].last = TRUE]
    BY <1>4 DEF RefundProcessing
  <2> HIDE DEF p
  <2>2. CASE p = o
    BY <2>1, <2>2 DEF Started
  <2>3. CASE p # o
    BY <2>1, <2>3
  <2> QED
    BY <2>2, <2>3
<1> QED
  BY <1>1, <1>2, <1>3, <1>4 DEF ProcessRefundMessage

LEMMA ReviewDeskRows ==
  ASSUME TypeOK, ReviewDesk, NEW o \in Order
  PROVE  RowStep(o)
<1> USE DEF TypeOK, RowStep, Kept
<1>1. ASSUME NEW p \in Order, NEW linked \in BOOLEAN, OpenRefundReview(p, linked)
      PROVE  RowStep(o)
  BY <1>1 DEF OpenRefundReview
<1>2. ASSUME NEW p \in Order, NEW type \in ReviewType, OpenOtherReview(p, type)
      PROVE  RowStep(o)
  BY <1>2 DEF OpenOtherReview
<1>3. ASSUME NEW r \in Review, RejectRefund(r) \/ ApproveRefund(r) PROVE RowStep(o)
  <2> DEFINE p == review[r].order
  <2>1. /\ refund[p].status = "pending_manual_review" /\ order' = order
        /\ \/ refund' = [refund EXCEPT ![p].status = "rejected", ![p].approved = FALSE]
           \/ refund' = [refund EXCEPT ![p].status = "queued", ![p].approved = TRUE]
    BY <1>3 DEF RejectRefund, ApproveRefund
  <2> HIDE DEF p
  <2> QED
    BY <2>1 DEF RefundRow, Waited
<1>4. ASSUME NEW r \in Review, ApproveNewRefund(r) \/ ApproveCancelPaidOrder(r)
      PROVE  RowStep(o)
  <2> DEFINE p == review[r].order
  <2>1. /\ refund[p].status = "none"
        /\ \E row : row.status = "queued" /\ refund' = [refund EXCEPT ![p] = row]
    BY <1>4 DEF ApproveNewRefund, ApproveCancelPaidOrder, InsertRefund, NewRefund
  <2>2. \/ order' = order
        \/ /\ order[p].status \in {"open", "awaiting_payment"}
           /\ order' = [order EXCEPT ![p].status = "cancelled"]
    BY <1>4 DEF ApproveNewRefund, ApproveCancelPaidOrder, OrderMayChange
  <2> HIDE DEF p
  <2>3. CASE p = o
    BY <2>1, <2>2, <2>3 DEF Created
  <2>4. CASE p # o
    BY <2>1, <2>2, <2>4
  <2> QED
    BY <2>3, <2>4
<1>5. ASSUME NEW r \in Review, RejectRequest(r) \/ ApproveOther(r) PROVE RowStep(o)
  BY <1>5 DEF RejectRequest, ApproveOther
<1>6. ASSUME NEW r \in Review, ApproveCancelUnpaidOrder(r) PROVE RowStep(o)
  <2> DEFINE p == review[r].order
  <2>1. /\ refund' = refund /\ order[p].status \in {"open", "awaiting_payment"}
        /\ order' = [order EXCEPT ![p].status = "cancelled"]
    BY <1>6 DEF ApproveCancelUnpaidOrder, OrderMayChange
  <2> HIDE DEF p
  <2> QED
    BY <2>1 DEF OrderRow, Moved
<1> QED
  BY <1>1, <1>2, <1>3, <1>4, <1>5, <1>6 DEF ReviewDesk

LEMMA CancelRows ==
  ASSUME TypeOK, NEW p \in Order, CancelRefund(p), NEW o \in Order
  PROVE  RowStep(o)
<1> USE DEF TypeOK, RowStep, Kept
<1>1. refund' = [refund EXCEPT ![p].status = "cancelled"]
  BY DEF CancelRefund
<1>2. CASE refund[p].status \in {"queued", "pending_manual_review"} /\ order' = order
  BY <1>1, <1>2 DEF RefundRow, Waited
<1>3. CASE /\ refund[p].status = "refund_processing" /\ Restorable(p)
           /\ order' = [order EXCEPT ![p].status = refund[p].before.status,
                                     ![p].after = refund[p].before.after,
                                     ![p].last = refund[p].before.last]
  <2>1. CASE p = o
    BY <1>1, <1>3, <2>1 DEF RefundRow, Restorable, Withdrawn
  <2>2. CASE p # o
    BY <1>1, <1>3, <2>2
  <2> QED
    BY <2>1, <2>2
<1> QED
  BY <1>2, <1>3 DEF CancelRefund

LEMMA PayRows ==
  ASSUME TypeOK, PaymentInv, Pay, NEW o \in Order
  PROVE  RowStep(o)
<1> USE DEF TypeOK, RowStep, Kept
<1>1. ASSUME NEW p \in Order, SubmitRefundPayment(p) PROVE RowStep(o)
  BY <1>1 DEF SubmitRefundPayment, RefundRow, Asked
<1>2. ASSUME NEW p \in Order, ReconcileRefundPayment(p) PROVE RowStep(o)
  BY <1>2 DEF ReconcileRefundPayment, deskVars
<1>3. ASSUME NEW c \in calls, SendRequest(c) \/ CallerDies(c) PROVE RowStep(o)
  BY <1>3 DEF SendRequest, CallerDies, deskVars
<1>4. ASSUME NEW c \in calls, Observe(c) PROVE RowStep(o)
  <2> DEFINE p == c.order
  <2>1. CASE refund' = refund /\ order' = order
    BY <2>1
  <2>2. CASE refund[p].status \in {"payment_submitting", "refund_unknown"}
    <3>1. /\ c.answer \in {"processing", "succeeded", "failed", "unknown"}
          /\ refund' = [refund EXCEPT ![p].status = Target[c.answer]]
          /\ c.answer = "succeeded" =>
               order' = [order EXCEPT ![p].status = "refunded",
                           ![p].after = "refund_succeeded", ![p].last = TRUE]
          /\ c.answer # "succeeded" => order' = order
      BY <1>4, <2>2 DEF Observe, Target
    <3> HIDE DEF p
    <3>2. CASE p = o /\ c.answer = "succeeded"
      <4>1. Target[c.answer] = "refund_succeeded"
        BY <3>2 DEF Target
      <4>2. refund'[o].status = "refund_succeeded"
        BY <3>1, <3>2, <4>1 DEF RefundRow
      <4>3. order'[o] = [order[o] EXCEPT !.status = "refunded", !.after = "refund_succeeded",
                                         !.last = TRUE]
        BY <3>1, <3>2
      <4> QED
        BY <2>2, <3>2, <4>2, <4>3 DEF PaidOut
    <3>3. CASE p = o /\ c.answer # "succeeded"
      <4>1. Target[c.answer] \in {"payment_submitting", "refund_unknown", "failed"}
        BY <3>1, <3>3 DEF Target
      <4> QED
        BY <2>2, <3>1, <3>3, <4>1 DEF RefundRow, Asked
    <3>4. CASE p # o
      BY <3>1, <3>4
    <3> QED
      BY <3>2, <3>3, <3>4
  <2> QED
    BY <1>4, <2>1, <2>2 DEF Observe
<1>5. ASSUME NEW c \in calls, CallFails(c) PROVE RowStep(o)
  <2> DEFINE p == c.order
  <2>1. refund[p].status \in Dispatched /\ order' = order
    BY <1>5 DEF PaymentInv, CallsAreDispatched, CallFails
  <2>2. refund' = IF refund[p].status \in {"refund_succeeded", "failed"} THEN refund
                  ELSE [refund EXCEPT ![p].status = "refund_unknown"]
    BY <1>5 DEF CallFails
  <2> HIDE DEF p
  <2> QED
    BY <2>1, <2>2 DEF RefundRow, Dispatched, Asked
<1> QED
  BY <1>1, <1>2, <1>3, <1>4, <1>5 DEF Pay

LEMMA OutsideRows ==
  ASSUME TypeOK, Outside, NEW o \in Order
  PROVE  RowStep(o)
<1> USE DEF TypeOK, RowStep, Kept
<1>1. ASSUME NEW p \in Order, GatewayAccepts(p) \/ RequestLost(p) \/ GatewaySettles(p)
      PROVE  RowStep(o)
  BY <1>1 DEF GatewayAccepts, RequestLost, GatewaySettles, deskVars
<1>2. ASSUME NEW p \in Order, ShippingAdvances(p) PROVE RowStep(o)
  BY <1>2 DEF ShippingAdvances, OrderRow, Moved
<1>3. ASSUME NEW p \in Order, PaymentArrives(p) \/ PaymentReversed(p) PROVE RowStep(o)
  BY <1>3 DEF PaymentArrives, PaymentReversed, OrderRow, Moved
<1>4. ASSUME NEW c \in calls, GatewayAnswers(c) PROVE RowStep(o)
  BY <1>4 DEF GatewayAnswers, deskVars
<1> QED
  BY <1>1, <1>2, <1>3, <1>4 DEF Outside

LEMMA EveryStepIsARowStep ==
  ASSUME TypeOK, PaymentInv, [Next]_vars, NEW o \in Order
  PROVE  RowStep(o)
<1>1. CASE QueueStep \/ UNCHANGED vars
  BY <1>1 DEF QueueStep, vars, deskVars, RowStep, Kept
<1> QED
  BY <1>1, ApplyRows, ConsumeRows, ReviewDeskRows, CancelRows, PayRows, OutsideRows DEF Next

-----------------------------------------------------------------------------
(* What the order shows.                                                   *)

LEMMA MirrorInit == Init => MirrorInv
BY DEF Init, ShopOrders, ShopOrder, LegacyRefunds, NewRefund, NoRefund, MirrorInv, RowsAgree,
       Mirrors, UnderRefund, NotLeftYet, SnapshotIsPlain

LEMMA MirrorStep == TypeOK /\ PaymentInv /\ MirrorInv /\ [Next]_vars => MirrorInv'
<1> SUFFICES ASSUME TypeOK, PaymentInv, MirrorInv, [Next]_vars, NEW o \in Order
             PROVE  RowsAgree(order'[o], refund'[o])
  BY DEF MirrorInv
<1> DEFINE w == order[o]
           f == refund[o]
<1>1. w \in OrderRow /\ f \in RefundRow /\ RowsAgree(w, f)
  BY DEF TypeOK, MirrorInv
<1>2. RowStep(o)
  BY EveryStepIsARowStep
<1> USE DEF RowsAgree, Mirrors, UnderRefund, NotLeftYet, SnapshotIsPlain, OrderRow, RefundRow
<1>3. CASE Kept(o)
  BY <1>1, <1>3 DEF Kept
<1>4. CASE Created(o)
  BY <1>1, <1>4 DEF Created
<1>5. CASE Waited(o)
  BY <1>1, <1>5 DEF Waited
<1>6. CASE Started(o)
  BY <1>1, <1>6 DEF Started, SnapshotOf
<1>7. CASE Withdrawn(o)
  BY <1>1, <1>7 DEF Withdrawn, Snapshot
<1>8. CASE Asked(o)
  BY <1>1, <1>8 DEF Asked
<1>9. CASE PaidOut(o)
  BY <1>1, <1>9 DEF PaidOut
<1>10. CASE Moved(o)
  BY <1>1, <1>10 DEF Moved
<1> QED
  BY <1>2, <1>3, <1>4, <1>5, <1>6, <1>7, <1>8, <1>9, <1>10 DEF RowStep

LEMMA MirrorSafety == Spec => []MirrorInv
BY MirrorInit, MirrorStep, TypeCorrect, PaymentSafety, PTL DEF Spec

\* What the customer sees on the order is the state of its refund, at every
\* moment of processing, payment and withdrawal.
THEOREM OrderShowsItsRefund == Spec => []OrderMirrorsRefund
<1>1. MirrorInv => OrderMirrorsRefund
  BY DEF MirrorInv, RowsAgree, Mirrors, OrderMirrorsRefund
<1> QED
  BY <1>1, MirrorSafety, PTL

\* No withdrawal shows an order that has left the warehouse as open again.
THEOREM WithdrawalKeepsShipping == Spec => []StatusFollowsShipping
<1>1. MirrorInv => StatusFollowsShipping
  BY DEF MirrorInv, RowsAgree, NotLeftYet, StatusFollowsShipping
<1> QED
  BY <1>1, MirrorSafety, PTL

\* A refund that is cancelled, rejected, paid or refused stays as it is,
\* whichever decision, event, withdrawal or answer comes late.
THEOREM OutcomeStays == Spec => TerminalIsFinal
<1>1. TypeOK /\ PaymentInv /\ [Next]_vars =>
        [\A o \in Order :
           refund[o].status \in {"cancelled", "rejected", "refund_succeeded", "failed"} =>
             refund'[o] = refund[o]]_vars
  BY EveryStepIsARowStep DEF RowStep, Kept, Created, Waited, Started, Withdrawn, Asked,
     PaidOut, Moved
<1> QED
  BY <1>1, TypeCorrect, PaymentSafety, PTL DEF Spec, TerminalIsFinal

-----------------------------------------------------------------------------
(***************************************************************************)
(* Reviews, approvals and events.                                          *)
(*                                                                         *)
(* That only approved refunds are processed is not inductive: the worker   *)
(* looks at the event it was delivered, and no longer at the review.       *)
(* ApprovalInv adds that every event of a refund whose review is still     *)
(* missing asks for one, whoever published it, and that the approval on a  *)
(* refund is some review's.                                                *)
(***************************************************************************)

Processed == {"refund_processing"} \cup Dispatched

ApprovedReview(o) ==
  \E r \in Review : /\ review[r].status = "approved"
                    /\ review[r].type = "refund"
                    /\ review[r].order = o
                    /\ review[r].related

\* A refund has events only once it exists.
EventsFollowRefund == \A o \in Order : refund[o].status = "none" => Events(o) = {}

\* A refund that still needs its review is not processed, and none of its
\* events would process it.
UnapprovedIsHeld ==
  \A o \in Order :
    refund[o].needs /\ ~refund[o].approved =>
      /\ refund[o].status \notin Processed
      /\ \A m \in Events(o) : payload[m].review

WaitingIsUnapproved ==
  \A o \in Order : refund[o].status = "pending_manual_review" => ~refund[o].approved

ApprovalIsAReviews ==
  \A o \in Order : refund[o].needs /\ refund[o].approved => ApprovedReview(o)

ApprovalInv ==
  /\ EventsFollowRefund
  /\ UnapprovedIsHeld
  /\ WaitingIsUnapproved
  /\ ApprovalIsAReviews

-----------------------------------------------------------------------------
(* Events.                                                                 *)

\* No event comes or goes, and none becomes done that leaves a queued refund behind.
EventsKept ==
  /\ \A o \in Order : Events(o)' = Events(o)
  /\ payload' = payload
  /\ \A o \in Order : refund'[o].status = "queued" =>
       \A m \in Events(o) : mq'[m].status = "done" => mq[m].status = "done"

\* One new event, for the order p.
Published(p, reviewRequired) ==
  \E m \in Msg :
    /\ \A o \in Order : /\ m \notin Events(o)
                       /\ Events(o)' = IF o = p THEN Events(o) \cup {m} ELSE Events(o)
    /\ payload' = [payload EXCEPT ![m] = [order |-> p, review |-> reviewRequired]]
    /\ mq'[m].status = "pending"
    /\ \A n \in Msg : n # m => mq'[n] = mq[n]

LEMMA PublishAddsOneEvent ==
  ASSUME TypeOK, NEW p \in Order, NEW reviewRequired \in BOOLEAN,
         PublishRefundCreated(p, reviewRequired)
  PROVE  Published(p, reviewRequired)
<1>1. PICK m \in Msg : /\ PublishMessage(m)
                       /\ payload' = [payload EXCEPT ![m] = [order |-> p, review |-> reviewRequired]]
  BY DEF PublishRefundCreated
<1>2. /\ mq[m].status = "absent" /\ mq'[m].status = "pending"
      /\ \A n \in Msg : n # m => mq'[n] = mq[n]
  BY <1>1 DEF PublishMessage, TypeOK, QueueTypeOK
<1>3. /\ payload'[m].order = p
      /\ \A n \in Msg : n # m => payload'[n] = payload[n]
  BY <1>1 DEF TypeOK
<1>4. \A o \in Order : m \notin Events(o)
  BY <1>2 DEF Events
<1>5. \A o \in Order : Events(o)' = IF o = p THEN Events(o) \cup {m} ELSE Events(o)
  BY <1>2, <1>3 DEF Events
<1> QED
  BY <1>1, <1>2, <1>4, <1>5 DEF Published

\* Rows that neither appear nor disappear leave the events as they are.
LEMMA SamePresence ==
  ASSUME payload' = payload,
         \A m \in Msg : mq'[m].status = "absent" <=> mq[m].status = "absent"
  PROVE  \A o \in Order : Events(o)' = Events(o)
BY DEF Events

LEMMA DeliveredIsPresent ==
  ASSUME QueueInv, NEW d \in inflight
  PROVE  d.msg \in Msg /\ mq[d.msg].status # "absent"
<1>1. d.msg \in Msg /\ d.attempt \in 1 .. mq[d.msg].attempts
  BY DEF QueueInv, QueueTypeOK, RetryBudget, Delivery
<1>2. mq[d.msg].attempts # 0
  BY <1>1
<1> QED
  BY <1>1, <1>2 DEF QueueInv, AbsentIsUntouched

LEMMA QueueStepKeepsEvents ==
  ASSUME TypeOK, QueueInv, QueueStep
  PROVE  EventsKept
<1>1. payload' = payload
  BY DEF QueueStep
<1>2. \A m \in Msg : /\ mq'[m].status = "absent" <=> mq[m].status = "absent"
                     /\ mq'[m].status = "done" => mq[m].status = "done"
  <2> SUFFICES ASSUME NEW m \in Msg
               PROVE  /\ mq'[m].status = "absent" <=> mq[m].status = "absent"
                      /\ mq'[m].status = "done" => mq[m].status = "done"
    OBVIOUS
  <2>1. CASE ClaimMessages
    <3>1. PICK b \in Batches :
            mq' = [n \in Msg |->
                     IF Exhausted(n) THEN [mq[n] EXCEPT !.status = "dead_letter"]
                     ELSE IF n \in b
                          THEN [status |-> "processing", attempts |-> mq[n].attempts + 1,
                                due |-> FALSE]
                          ELSE mq[n]]
      BY <2>1 DEF ClaimMessages
    <3> QED
      BY <3>1, ClaimedRow DEF TypeOK
  <2>2. ASSUME NEW n \in Msg, TimePasses(n)
        PROVE  mq'[m].status = mq[m].status
    BY <2>2 DEF TimePasses, TypeOK, QueueTypeOK, Row
  <2>3. ASSUME NEW d \in inflight, IgnoreDelivery(d) \/ LoseDelivery(d)
        PROVE  mq'[m].status = mq[m].status
    BY <2>3 DEF IgnoreDelivery, LoseDelivery
  <2>4. ASSUME NEW d \in inflight, FailMessage(d)
        PROVE  /\ mq'[m].status = "absent" <=> mq[m].status = "absent"
               /\ mq'[m].status = "done" => mq[m].status = "done"
    <3>1. d.msg \in Msg /\ mq[d.msg].status # "absent"
      BY DeliveredIsPresent
    <3>2. mq' = mq \/ mq' = SetStatus(d.msg, "failed")
      BY <2>4 DEF FailMessage
    <3> QED
      BY <3>1, <3>2 DEF SetStatus, TypeOK, QueueTypeOK, Row
  <2> QED
    BY <2>1, <2>2, <2>3, <2>4 DEF QueueStep
<1> QED
  BY <1>1, <1>2, SamePresence DEF EventsKept, Events

\* The worker acknowledges an event only of a refund that it does not leave queued.
LEMMA ConsumeKeepsEvents ==
  ASSUME TypeOK, QueueInv, Consume
  PROVE  EventsKept
<1>1. PICK d \in inflight : ProcessRefundMessage(d)
  BY DEF Consume
<1> DEFINE p == payload[d.msg].order
<1>2. d.msg \in Msg /\ mq[d.msg].status # "absent"
  BY DeliveredIsPresent
<1>3. payload' = payload /\ mq' = SetStatus(d.msg, "done")
  BY <1>1 DEF ProcessRefundMessage, RefundEventNoop, ManualReviewRequired, RefundProcessing,
     HandleMessage
<1>4. \A m \in Msg : /\ m # d.msg => mq'[m] = mq[m]
                     /\ m = d.msg => mq'[m].status = "done"
  BY <1>2, <1>3 DEF SetStatus, TypeOK, QueueTypeOK, Row
<1>5. p \in Order => refund'[p].status # "queued"
  <2>1. CASE RefundEventNoop(d)
    BY <2>1 DEF RefundEventNoop, deskVars
  <2>2. CASE ManualReviewRequired(d)
    <3>1. refund' = [refund EXCEPT ![p].status = "pending_manual_review"]
      BY <2>2 DEF ManualReviewRequired
    <3> HIDE DEF p
    <3> QED
      BY <3>1 DEF TypeOK, RefundRow
  <2>3. CASE RefundProcessing(d)
    <3>1. refund' = [refund EXCEPT ![p].status = "refund_processing",
                                   ![p].before = SnapshotOf(p)]
      BY <2>3 DEF RefundProcessing
    <3> HIDE DEF p
    <3> QED
      BY <3>1 DEF TypeOK, RefundRow
  <2> QED
    BY <1>1, <2>1, <2>2, <2>3 DEF ProcessRefundMessage
<1>6. \A o \in Order : Events(o)' = Events(o)
  BY <1>2, <1>3, <1>4, SamePresence
<1>7. \A o \in Order : refund'[o].status = "queued" =>
        \A m \in Events(o) : mq'[m].status = "done" => mq[m].status = "done"
  BY <1>4, <1>5 DEF Events
<1> QED
  BY <1>3, <1>6, <1>7 DEF EventsKept

\* Whoever leaves the queue and the payloads alone.
LEMMA IdleKeepsEvents ==
  ASSUME UNCHANGED <<queueVars, payload>>
  PROVE  EventsKept
<1>1. mq' = mq /\ payload' = payload
  BY DEF queueVars
<1> QED
  BY <1>1 DEF EventsKept, Events

-----------------------------------------------------------------------------
(* Reviews.                                                                *)

\* A decision that was taken is never touched again, and no refund review is opened.
ReviewsKept ==
  /\ \A r \in Review : review[r].status = "approved" => review'[r] = review[r]
  /\ \A o \in Order : PendingRefundReviews(o)' \subseteq PendingRefundReviews(o)

LEMMA SameReviews ==
  ASSUME review' = review
  PROVE  ReviewsKept
BY DEF ReviewsKept, PendingRefundReviews, Pending

LEMMA DecideFacts ==
  ASSUME TypeOK, NEW r \in Review, Pending(r), NEW decision \in {"approved", "rejected"},
         Decide(r, decision)
  PROVE  /\ ReviewsKept
         /\ review'[r].status = decision /\ review'[r].type = review[r].type
         /\ review'[r].order = review[r].order
         /\ review[r].type = "refund" /\ decision = "approved" => review'[r].related
<1> DEFINE rel == review[r].related \/ (review[r].type = "refund"
                                         /\ (HasRefund(r) \/ decision = "approved"))
<1>1. review' = [review EXCEPT ![r].status = decision, ![r].related = rel]
  BY DEF Decide
<1>2. review[r] \in ReviewRow
  BY DEF TypeOK
<1>3. review[r].type = "refund" /\ decision = "approved" => rel
  OBVIOUS
<1> HIDE DEF rel
<1>4. /\ review'[r].status = decision /\ review'[r].type = review[r].type
      /\ review'[r].order = review[r].order /\ review'[r].related = rel
      /\ \A s \in Review : s # r => review'[s] = review[s]
  BY <1>1, <1>2 DEF TypeOK, ReviewRow
<1>5. ReviewsKept
  BY <1>4 DEF ReviewsKept, PendingRefundReviews, Pending
<1> QED
  BY <1>3, <1>4, <1>5

LEMMA CloseKeepsReviews ==
  ASSUME TypeOK, NEW p \in Order, CloseReviews(PendingRefundReviews(p))
  PROVE  ReviewsKept
<1>1. \A r \in Review :
        review'[r] = IF r \in PendingRefundReviews(p)
                     THEN [review[r] EXCEPT !.status = "cancelled"] ELSE review[r]
  BY DEF CloseReviews
<1>2. \A r \in Review : \/ review'[r] = review[r]
                        \/ Pending(r) /\ review'[r].status = "cancelled"
  <2> SUFFICES ASSUME NEW r \in Review
               PROVE  \/ review'[r] = review[r]
                      \/ Pending(r) /\ review'[r].status = "cancelled"
    OBVIOUS
  <2>1. review[r] \in ReviewRow
    BY DEF TypeOK
  <2> QED
    BY <1>1, <2>1 DEF PendingRefundReviews, ReviewRow
<1> QED
  BY <1>2 DEF ReviewsKept, PendingRefundReviews, Pending

-----------------------------------------------------------------------------
(* Steps that publish nothing.                                             *)

\* The application's event or a repaired one, and after an approval one more.
EventCount ==
  \A o \in Order : /\ IsFiniteSet(Events(o)) /\ Cardinality(Events(o)) <= 2
                   /\ ~refund[o].approved => Cardinality(Events(o)) <= 1

EventInv == QueuedKeepsItsEvent /\ EventCount

RefundsKept ==
  \A o \in Order :
    /\ refund'[o].needs = refund[o].needs /\ refund'[o].approved = refund[o].approved
    /\ refund'[o].status = "none" => refund[o].status = "none"
    /\ refund'[o].status = "queued" => refund[o].status = "queued"
    /\ refund'[o].status = "pending_manual_review" => ~refund[o].approved
    /\ refund'[o].status \in Processed =>
         refund[o].status \in Processed \/ ~refund[o].needs \/ refund[o].approved

Frame ==
  /\ EventsKept
  /\ RefundsKept
  /\ \A r \in Review : review[r].status = "approved" => review'[r] = review[r]

LEMMA FrameKeepsInv ==
  ASSUME ApprovalInv, EventInv, Frame
  PROVE  ApprovalInv' /\ EventInv'
<1> USE DEF Frame, EventsKept, RefundsKept
<1>1. EventsFollowRefund'
  BY DEF ApprovalInv, EventsFollowRefund
<1>2. UnapprovedIsHeld'
  BY DEF ApprovalInv, UnapprovedIsHeld
<1>3. WaitingIsUnapproved'
  BY DEF ApprovalInv, WaitingIsUnapproved
<1>4. ApprovalIsAReviews'
  <2>1. \A o \in Order : ApprovedReview(o) => ApprovedReview(o)'
    BY DEF ApprovedReview
  <2> QED
    BY <2>1 DEF ApprovalInv, ApprovalIsAReviews
<1>5. QueuedKeepsItsEvent'
  BY DEF EventInv, QueuedKeepsItsEvent
<1>6. EventCount'
  BY DEF EventInv, EventCount
<1> QED
  BY <1>1, <1>2, <1>3, <1>4, <1>5, <1>6 DEF ApprovalInv, EventInv

LEMMA SameRefunds ==
  ASSUME refund' = refund, WaitingIsUnapproved
  PROVE  RefundsKept
BY DEF RefundsKept, WaitingIsUnapproved

\* The worker processes only what UnapprovedIsHeld lets it process.
LEMMA ConsumeKeeps ==
  ASSUME TypeOK, QueueInv, ApprovalInv, Consume
  PROVE  Frame
<1>1. PICK d \in inflight : ProcessRefundMessage(d)
  BY DEF Consume
<1> DEFINE p == payload[d.msg].order
<1>2. d.msg \in Msg /\ mq[d.msg].status # "absent"
  BY DeliveredIsPresent
<1>3. p \in Order /\ d.msg \in Events(p)
  BY <1>2 DEF Events, TypeOK
<1>4. review' = review
  BY <1>1 DEF ProcessRefundMessage, RefundEventNoop, ManualReviewRequired, RefundProcessing,
     deskVars
<1>5. RefundsKept
  <2>1. CASE RefundEventNoop(d)
    BY <2>1, SameRefunds DEF RefundEventNoop, deskVars, ApprovalInv
  <2>2. CASE ManualReviewRequired(d)
    <3>1. /\ refund' = [refund EXCEPT ![p].status = "pending_manual_review"]
          /\ ~refund[p].approved
      BY <2>2 DEF ManualReviewRequired, HeldForReview
    <3> HIDE DEF p
    <3> QED
      BY <1>3, <3>1 DEF TypeOK, RefundRow, RefundsKept, ApprovalInv, WaitingIsUnapproved,
         Processed, Dispatched
  <2>3. CASE RefundProcessing(d)
    <3>1. refund' = [refund EXCEPT ![p].status = "refund_processing",
                                   ![p].before = SnapshotOf(p)]
      BY <2>3 DEF RefundProcessing
    <3>2. ~payload[d.msg].review \/ refund[p].approved
      BY <2>3 DEF RefundProcessing, HeldForReview
    <3>3. ~refund[p].needs \/ refund[p].approved
      BY <1>3, <3>2 DEF ApprovalInv, UnapprovedIsHeld
    <3> HIDE DEF p
    <3> QED
      BY <1>3, <3>1, <3>3 DEF TypeOK, RefundRow, RefundsKept, ApprovalInv, WaitingIsUnapproved
  <2> QED
    BY <1>1, <2>1, <2>2, <2>3 DEF ProcessRefundMessage
<1> QED
  BY <1>4, <1>5, ConsumeKeepsEvents DEF Frame

LEMMA CancelKeeps ==
  ASSUME TypeOK, ApprovalInv, NEW p \in Order, CancelRefund(p)
  PROVE  Frame /\ ReviewsKept
<1>1. refund' = [refund EXCEPT ![p].status = "cancelled"]
  BY DEF CancelRefund
<1>2. RefundsKept
  BY <1>1 DEF TypeOK, RefundRow, RefundsKept, ApprovalInv, WaitingIsUnapproved,
     Processed, Dispatched
<1>3. EventsKept
  BY IdleKeepsEvents DEF CancelRefund
<1>4. ReviewsKept
  BY CloseKeepsReviews DEF CancelRefund
<1> QED
  BY <1>2, <1>3, <1>4 DEF Frame, ReviewsKept

LEMMA PayKeeps ==
  ASSUME TypeOK, PaymentInv, ApprovalInv, Pay
  PROVE  Frame
<1>1. review' = review /\ EventsKept
  BY IdleKeepsEvents DEF Pay, SubmitRefundPayment, ReconcileRefundPayment, SendRequest, Observe,
     CallFails, CallerDies, deskVars
<1>2. RefundsKept
  <2>1. ASSUME NEW p \in Order, NEW status \in Dispatched,
               refund[p].status \in Processed,
               refund' = [refund EXCEPT ![p].status = status]
        PROVE  RefundsKept
    BY <2>1 DEF TypeOK, RefundRow, RefundsKept, ApprovalInv, WaitingIsUnapproved, Processed,
       Dispatched
  <2>2. ASSUME NEW p \in Order, SubmitRefundPayment(p) PROVE RefundsKept
    BY <2>2, <2>1 DEF SubmitRefundPayment, Processed, Dispatched
  <2>3. ASSUME NEW p \in Order, ReconcileRefundPayment(p) PROVE RefundsKept
    BY <2>3, SameRefunds DEF ReconcileRefundPayment, deskVars, ApprovalInv
  <2>4. ASSUME NEW c \in calls, SendRequest(c) \/ CallerDies(c) PROVE RefundsKept
    BY <2>4, SameRefunds DEF SendRequest, CallerDies, deskVars, ApprovalInv
  <2>5. ASSUME NEW c \in calls, Observe(c) \/ CallFails(c) PROVE RefundsKept
    <3> DEFINE p == c.order
    <3>1. p \in Order /\ refund[p].status \in Processed
      BY DEF TypeOK, Call, PaymentInv, CallsAreDispatched, Processed
    <3>2. refund' = refund \/ \E status \in Dispatched :
                               refund' = [refund EXCEPT ![p].status = status]
      <4>1. CASE Observe(c)
        <5>1. c.answer \in DOMAIN Target
          BY <4>1 DEF Observe
        <5>2. Target[c.answer] \in Dispatched
          BY <5>1 DEF Target, Dispatched
        <5> QED
          BY <4>1, <5>2 DEF Observe
      <4>2. CASE CallFails(c)
        BY <4>2 DEF CallFails, Dispatched
      <4> QED
        BY <2>5, <4>1, <4>2
    <3> HIDE DEF p
    <3> QED
      BY <2>1, <3>1, <3>2, SameRefunds DEF ApprovalInv
  <2> QED
    BY <2>2, <2>3, <2>4, <2>5 DEF Pay
<1> QED
  BY <1>1, <1>2 DEF Frame

LEMMA OutsideKeeps ==
  ASSUME ApprovalInv, Outside
  PROVE  Frame /\ review' = review
<1>1. /\ UNCHANGED <<queueVars, payload>>
      /\ refund' = refund /\ review' = review
  BY DEF Outside, GatewayAccepts, RequestLost, GatewaySettles, GatewayAnswers, ShippingAdvances,
     PaymentArrives, PaymentReversed, deskVars
<1> QED
  BY <1>1, IdleKeepsEvents, SameRefunds DEF Frame, ApprovalInv

-----------------------------------------------------------------------------
(* Steps that publish an event.                                            *)

LEMMA PublisherKeepsInv ==
  ASSUME ApprovalInv, EventInv, TypeOK,
         NEW p \in Order, NEW reviewRequired \in BOOLEAN, Published(p, reviewRequired),
         Events(p) = {} \/ (~refund[p].approved /\ refund'[p].approved),
         \A r \in Review : review[r].status = "approved" => review'[r] = review[r],
         \A o \in Order : o # p => refund'[o] = refund[o],
         refund'[p].status \in {"queued", "pending_manual_review"},
         refund'[p].status = "pending_manual_review" => ~refund'[p].approved,
         refund'[p].needs /\ ~refund'[p].approved =>
           reviewRequired /\ \A m \in Events(p) : payload[m].review,
         refund'[p].needs /\ refund'[p].approved => ApprovedReview(p)'
  PROVE  ApprovalInv' /\ EventInv'
<1>1. PICK m \in Msg :
        /\ \A o \in Order : /\ m \notin Events(o)
                           /\ Events(o)' = IF o = p THEN Events(o) \cup {m} ELSE Events(o)
        /\ payload' = [payload EXCEPT ![m] = [order |-> p, review |-> reviewRequired]]
        /\ mq'[m].status = "pending"
        /\ \A n \in Msg : n # m => mq'[n] = mq[n]
  BY DEF Published
<1>2. /\ payload'[m].review = reviewRequired
      /\ \A n \in Msg : n # m => payload'[n] = payload[n]
  BY <1>1 DEF TypeOK
<1>3. \A o \in Order : Events(o) \subseteq Msg
  BY DEF Events
<1>4. refund'[p].status # "none" /\ refund'[p].status \notin Processed
  BY DEF Processed, Dispatched
<1>5. EventsFollowRefund'
  BY <1>1, <1>4 DEF ApprovalInv, EventsFollowRefund
<1>6. UnapprovedIsHeld'
  BY <1>1, <1>2, <1>3, <1>4 DEF ApprovalInv, UnapprovedIsHeld
<1>7. WaitingIsUnapproved'
  BY DEF ApprovalInv, WaitingIsUnapproved
<1>8. ApprovalIsAReviews'
  <2>1. \A o \in Order : ApprovedReview(o) => ApprovedReview(o)'
    BY DEF ApprovedReview
  <2> QED
    BY <2>1 DEF ApprovalInv, ApprovalIsAReviews
<1>9. QueuedKeepsItsEvent'
  BY <1>1, <1>3 DEF EventInv, QueuedKeepsItsEvent
<1>10. EventCount'
  <2>1. /\ IsFiniteSet(Events(p)) /\ m \notin Events(p)
        /\ Cardinality(Events(p)) <= 1
        /\ refund'[p].approved \/ Cardinality(Events(p)) = 0
    BY <1>1, FS_EmptySet DEF EventInv, EventCount
  <2>2. /\ IsFiniteSet(Events(p) \cup {m}) /\ Cardinality(Events(p)) \in Nat
        /\ Cardinality(Events(p) \cup {m}) = Cardinality(Events(p)) + 1
    BY <2>1, FS_AddElement, FS_CardinalityType
  <2>3. /\ IsFiniteSet(Events(p)') /\ Cardinality(Events(p)') <= 2
        /\ ~refund'[p].approved => Cardinality(Events(p)') <= 1
    <3>1. Events(p)' = Events(p) \cup {m}
      BY <1>1
    <3>2. Cardinality(Events(p)') = Cardinality(Events(p)) + 1 /\ IsFiniteSet(Events(p)')
      BY <2>2, <3>1
    <3>3. Cardinality(Events(p)') <= 2
      BY <2>1, <2>2, <3>2
    <3>4. Cardinality(Events(p)) = 0 => Cardinality(Events(p)') <= 1
      BY <3>2
    <3> QED
      BY <2>1, <3>2, <3>3, <3>4
  <2>4. ASSUME NEW o \in Order
        PROVE  /\ IsFiniteSet(Events(o)') /\ Cardinality(Events(o)') <= 2
               /\ ~refund'[o].approved => Cardinality(Events(o)') <= 1
    <3>1. CASE o = p
      BY <2>3, <3>1
    <3>2. CASE o # p
      <4>1. Events(o)' = Events(o) /\ refund'[o] = refund[o]
        BY <1>1, <3>2
      <4> QED
        BY <4>1 DEF EventInv, EventCount
    <3> QED
      BY <3>1, <3>2
  <2> QED
    BY <2>4 DEF EventCount
<1> QED
  BY <1>5, <1>6, <1>7, <1>8, <1>9, <1>10 DEF ApprovalInv, EventInv

LEMMA ApplyKeeps ==
  ASSUME TypeOK, ApprovalInv, EventInv, Apply
  PROVE  (ApprovalInv' /\ EventInv') /\ review' = review
<1>1. ASSUME NEW o \in Order, JudgeApplication(o)
      PROVE  (ApprovalInv' /\ EventInv') /\ review' = review
  <2>1. UNCHANGED <<queueVars, payload>> /\ refund' = refund /\ review' = review
    BY <1>1 DEF JudgeApplication, deskVars
  <2> QED
    BY <2>1, IdleKeepsEvents, SameRefunds, FrameKeepsInv DEF Frame, ApprovalInv
<1>2. ASSUME NEW a \in applying, AbandonApplication(a)
      PROVE  (ApprovalInv' /\ EventInv') /\ review' = review
  <2>1. UNCHANGED <<queueVars, payload>> /\ refund' = refund /\ review' = review
    BY <1>2 DEF AbandonApplication, deskVars
  <2> QED
    BY <2>1, IdleKeepsEvents, SameRefunds, FrameKeepsInv DEF Frame, ApprovalInv
<1>3. ASSUME NEW o \in Order, RepairMissingEvent(o)
      PROVE  (ApprovalInv' /\ EventInv') /\ review' = review
  <2> DEFINE rr == refund[o].status = "pending_manual_review" \/ refund[o].needs
  <2>1. /\ refund' = refund /\ review' = review
        /\ refund[o].status \in {"queued", "pending_manual_review"}
        /\ Events(o) = {}
        /\ PublishRefundCreated(o, rr)
    BY <1>3 DEF RepairMissingEvent, deskVars
  <2>2. rr \in BOOLEAN /\ (refund[o].needs => rr)
    BY DEF TypeOK, RefundRow
  <2> HIDE DEF rr
  <2>3. Published(o, rr)
    BY <2>1, <2>2, PublishAddsOneEvent
  <2>4. refund[o].needs /\ refund[o].approved => ApprovedReview(o)'
    BY <2>1 DEF ApprovalInv, ApprovalIsAReviews, ApprovedReview
  <2>5. refund[o].status = "pending_manual_review" => ~refund[o].approved
    BY DEF ApprovalInv, WaitingIsUnapproved
  <2> QED
    BY <2>1, <2>2, <2>3, <2>4, <2>5, PublisherKeepsInv
<1>4. ASSUME NEW a \in applying, PersistApplication(a)
      PROVE  (ApprovalInv' /\ EventInv') /\ review' = review
  <2> DEFINE o == a.order
             rr == a.review
  <2>1. o \in Order /\ rr \in BOOLEAN
    BY DEF TypeOK
  <2>2. /\ refund[o].status = "none" /\ review' = review
        /\ refund' = [refund EXCEPT ![o] =
             NewRefund(IF rr THEN "pending_manual_review" ELSE "queued", rr, FALSE, "application")]
        /\ PublishRefundCreated(o, rr)
    BY <1>4 DEF PersistApplication, InsertRefund
  <2> HIDE DEF o, rr
  <2>3. Published(o, rr)
    BY <2>1, <2>2, PublishAddsOneEvent
  <2>4. /\ refund'[o].status \in {"queued", "pending_manual_review"}
        /\ ~refund'[o].approved /\ refund'[o].needs = rr
        /\ \A q \in Order : q # o => refund'[q] = refund[q]
    BY <2>1, <2>2 DEF TypeOK, NewRefund
  <2>5. Events(o) = {}
    BY <2>1, <2>2 DEF ApprovalInv, EventsFollowRefund
  <2> QED
    BY <2>1, <2>2, <2>3, <2>4, <2>5, PublisherKeepsInv
<1> QED
  BY <1>1, <1>2, <1>3, <1>4 DEF Apply

\* An approval publishes its event for a refund that its own review approves,
\* or for one that needs no review.
LEMMA ApproveKeeps ==
  ASSUME TypeOK, ApprovalInv, EventInv, NEW r \in Review,
         ApproveRefund(r) \/ ApproveNewRefund(r) \/ ApproveCancelPaidOrder(r)
  PROVE  (ApprovalInv' /\ EventInv') /\ ReviewsKept
<1>1. PICK o \in Order : review[r].order = o
  BY DEF TypeOK, ReviewRow
<1>2. Pending(r) /\ Decide(r, "approved") /\ PublishRefundCreated(o, FALSE)
  BY <1>1 DEF ApproveRefund, ApproveNewRefund, ApproveCancelPaidOrder
<1>3. /\ ReviewsKept
      /\ review'[r].status = "approved" /\ review'[r].type = review[r].type
      /\ review'[r].order = o
      /\ review[r].type = "refund" => review'[r].related
  BY <1>1, <1>2, DecideFacts
<1>4. \/ /\ ApproveRefund(r)
         /\ refund' = [refund EXCEPT ![o].status = "queued", ![o].approved = TRUE]
      \/ \E reason \in Reasons :
           refund' = [refund EXCEPT ![o] = NewRefund("queued", FALSE, TRUE, reason)]
  BY <1>1 DEF ApproveRefund, ApproveNewRefund, ApproveCancelPaidOrder, InsertRefund, Reasons
<1>5. ApproveRefund(r) => ApprovedReview(o)'
  BY <1>3 DEF ApproveRefund, ApprovedReview
<1>6. /\ refund'[o].status = "queued" /\ refund'[o].approved
      /\ \A q \in Order : q # o => refund'[q] = refund[q]
      /\ refund'[o].needs => ApproveRefund(r)
  BY <1>1, <1>4 DEF TypeOK, RefundRow, NewRefund
<1>7. Events(o) = {} \/ ~refund[o].approved
  BY <1>1 DEF ApproveRefund, ApproveNewRefund, ApproveCancelPaidOrder, InsertRefund,
     ApprovalInv, EventsFollowRefund, WaitingIsUnapproved
<1> DEFINE rr == FALSE
<1>8. rr \in BOOLEAN /\ Published(o, rr)
  BY <1>1, <1>2, PublishAddsOneEvent
<1> HIDE DEF rr
<1>9. /\ refund'[o].status \in {"queued", "pending_manual_review"}
      /\ refund'[o].status = "pending_manual_review" => ~refund'[o].approved
      /\ refund'[o].needs /\ ~refund'[o].approved =>
           rr /\ \A m \in Events(o) : payload[m].review
  BY <1>6
<1>10. refund'[o].needs /\ refund'[o].approved => ApprovedReview(o)'
  BY <1>5, <1>6
<1>11. \A s \in Review : review[s].status = "approved" => review'[s] = review[s]
  BY <1>3 DEF ReviewsKept
<1>12. ApprovalInv' /\ EventInv'
  BY <1>1, <1>6, <1>8, <1>9, <1>10, <1>11, <1>7, PublisherKeepsInv
<1> QED
  BY <1>3, <1>12

LEMMA DecideWithoutEvent ==
  ASSUME TypeOK, ApprovalInv, NEW r \in Review,
         \/ RejectRefund(r) \/ RejectRequest(r)
         \/ ApproveCancelUnpaidOrder(r) \/ ApproveOther(r)
  PROVE  Frame /\ ReviewsKept
<1>1. /\ UNCHANGED <<queueVars, payload>>
      /\ Pending(r) /\ \E decision \in {"approved", "rejected"} : Decide(r, decision)
  BY DEF RejectRefund, RejectRequest, ApproveCancelUnpaidOrder, ApproveOther
<1>2. ReviewsKept
  BY <1>1, DecideFacts
<1>3. RefundsKept
  <2>1. CASE refund' = refund
    BY <2>1, SameRefunds DEF ApprovalInv
  <2>2. CASE RejectRefund(r)
    <3> DEFINE o == review[r].order
    <3>1. /\ refund[o].status = "pending_manual_review" /\ o \in Order
          /\ refund' = [refund EXCEPT ![o].status = "rejected", ![o].approved = FALSE]
      BY <2>2 DEF RejectRefund, TypeOK, ReviewRow
    <3> HIDE DEF o
    <3>2. refund[o] \in RefundRow /\ refund[o].approved = FALSE
      BY <3>1 DEF TypeOK, RefundRow, ApprovalInv, WaitingIsUnapproved
    <3>3. /\ refund'[o].status = "rejected" /\ refund'[o].approved = FALSE
          /\ refund'[o].needs = refund[o].needs
          /\ \A q \in Order : q # o => refund'[q] = refund[q]
      BY <3>1, <3>2 DEF TypeOK, RefundRow
    <3> QED
      BY <3>1, <3>2, <3>3 DEF RefundsKept, ApprovalInv, WaitingIsUnapproved, Processed, Dispatched
  <2> QED
    BY <2>1, <2>2 DEF RejectRequest, ApproveCancelUnpaidOrder, ApproveOther
<1> QED
  BY <1>1, <1>2, <1>3, IdleKeepsEvents DEF Frame, ReviewsKept

\* A new review takes a row that was absent; a refund review is opened only
\* where none is pending.
LEMMA OpenKeeps ==
  ASSUME TypeOK, ApprovalInv, NEW o \in Order,
         \/ \E linked \in BOOLEAN : OpenRefundReview(o, linked)
         \/ \E type \in ReviewType \ {"refund"} : OpenOtherReview(o, type)
  PROVE  /\ Frame
         /\ \E r \in Review : \A p \in Order :
              \/ PendingRefundReviews(p)' \subseteq PendingRefundReviews(p)
              \/ PendingRefundReviews(p) = {} /\ PendingRefundReviews(p)' \subseteq {r}
<1>1. UNCHANGED <<queueVars, payload>> /\ refund' = refund
  BY DEF OpenRefundReview, OpenOtherReview
<1>2. PICK type \in ReviewType, related \in BOOLEAN :
        /\ InsertReview(o, type, related)
        /\ type = "refund" => PendingRefundReviews(o) = {}
  <2>1. CASE \E linked \in BOOLEAN : OpenRefundReview(o, linked)
    BY <2>1 DEF OpenRefundReview, ReviewType, Active
  <2>2. CASE \E type \in ReviewType \ {"refund"} : OpenOtherReview(o, type)
    BY <2>2 DEF OpenOtherReview
  <2> QED
    BY <2>1, <2>2
<1>3. PICK r \in Review :
        /\ review[r].status = "absent"
        /\ review' = [review EXCEPT ![r] =
             [status |-> "pending_review", type |-> type, order |-> o, related |-> related]]
  BY <1>2 DEF InsertReview
<1>4. /\ review'[r].type = type /\ review'[r].order = o
      /\ \A s \in Review : s # r => review'[s] = review[s]
  BY <1>3 DEF TypeOK
<1>5. \A s \in Review : review[s].status = "approved" => review'[s] = review[s]
  BY <1>3, <1>4
<1>6. \A p \in Order :
        \/ PendingRefundReviews(p)' \subseteq PendingRefundReviews(p)
        \/ PendingRefundReviews(p) = {} /\ PendingRefundReviews(p)' \subseteq {r}
  BY <1>2, <1>4 DEF PendingRefundReviews, Pending
<1> QED
  BY <1>1, <1>5, <1>6, IdleKeepsEvents, SameRefunds DEF Frame, ApprovalInv

-----------------------------------------------------------------------------
(* The invariants of the reviews and events.                               *)

\* Two pending refund reviews of an order are one.
SinglePending == \A o \in Order : \A r, s \in PendingRefundReviews(o) : r = s

ReviewInv == (ApprovalInv /\ EventInv) /\ SinglePending

LEMMA ReviewInvInit == Init => ReviewInv
<1> SUFFICES ASSUME Init PROVE ReviewInv
  OBVIOUS
<1>1. \A o \in Order : Events(o) = {}
  BY DEF Init, QueueInit, Events
<1>2. \A o \in Order : /\ refund[o].status \in {"none", "queued", "pending_manual_review"}
                       /\ ~refund[o].approved
  BY DEF Init, NoRefund, LegacyRefunds, NewRefund
<1>3. \A r \in Review : review[r].status = "absent"
  BY DEF Init
<1>4. ApprovalInv
  BY <1>1, <1>2 DEF ApprovalInv, EventsFollowRefund, UnapprovedIsHeld, WaitingIsUnapproved,
     ApprovalIsAReviews, Processed, Dispatched
<1>5. EventInv
  BY <1>1, <1>2, FS_EmptySet DEF EventInv, QueuedKeepsItsEvent, EventCount
<1>6. SinglePending
  BY <1>3 DEF SinglePending, PendingRefundReviews, Pending
<1> QED
  BY <1>4, <1>5, <1>6 DEF ReviewInv

LEMMA ReviewInvStep ==
  TypeOK /\ QueueInv /\ PaymentInv /\ ReviewInv /\ [Next]_vars => ReviewInv'
<1> SUFFICES ASSUME TypeOK, QueueInv, PaymentInv, ReviewInv, [Next]_vars PROVE ReviewInv'
  OBVIOUS
<1>1. ApprovalInv /\ EventInv /\ SinglePending
  BY DEF ReviewInv
<1>2. ReviewsKept => SinglePending'
  BY <1>1 DEF ReviewsKept, SinglePending
<1>3. CASE Apply
  BY <1>1, <1>2, <1>3, ApplyKeeps, SameReviews DEF ReviewInv
<1>4. CASE Consume
  <2>1. review' = review
    BY <1>4 DEF Consume, ProcessRefundMessage, RefundEventNoop, ManualReviewRequired,
       RefundProcessing, deskVars
  <2> QED
    BY <1>1, <1>2, <1>4, <2>1, ConsumeKeeps, FrameKeepsInv, SameReviews DEF ReviewInv
<1>5. CASE QueueStep \/ UNCHANGED vars
  <2>1. refund' = refund /\ review' = review
    BY <1>5 DEF QueueStep, vars, deskVars
  <2>2. EventsKept
    <3>1. CASE QueueStep
      BY <3>1, QueueStepKeepsEvents
    <3>2. CASE UNCHANGED vars
      BY <3>2, IdleKeepsEvents DEF vars, queueVars
    <3> QED
      BY <1>5, <3>1, <3>2
  <2>3. Frame
    BY <1>1, <2>1, <2>2, SameRefunds DEF Frame, ApprovalInv
  <2> QED
    BY <1>1, <1>2, <2>1, <2>3, FrameKeepsInv, SameReviews DEF ReviewInv
<1>6. CASE ReviewDesk
  <2>1. ASSUME NEW o \in Order,
               \/ \E linked \in BOOLEAN : OpenRefundReview(o, linked)
               \/ \E type \in ReviewType \ {"refund"} : OpenOtherReview(o, type)
        PROVE  ReviewInv'
    <3>1. /\ Frame
          /\ \E r \in Review : \A p \in Order :
               \/ PendingRefundReviews(p)' \subseteq PendingRefundReviews(p)
               \/ PendingRefundReviews(p) = {} /\ PendingRefundReviews(p)' \subseteq {r}
      BY <1>1, <2>1, OpenKeeps
    <3>2. SinglePending'
      BY <1>1, <3>1 DEF SinglePending
    <3> QED
      BY <1>1, <3>1, <3>2, FrameKeepsInv DEF ReviewInv
  <2>2. ASSUME NEW r \in Review,
               \/ RejectRefund(r) \/ RejectRequest(r)
               \/ ApproveCancelUnpaidOrder(r) \/ ApproveOther(r)
        PROVE  ReviewInv'
    BY <1>1, <1>2, <2>2, DecideWithoutEvent, FrameKeepsInv DEF ReviewInv
  <2>3. ASSUME NEW r \in Review,
               ApproveRefund(r) \/ ApproveNewRefund(r) \/ ApproveCancelPaidOrder(r)
        PROVE  ReviewInv'
    BY <1>1, <1>2, <2>3, ApproveKeeps DEF ReviewInv
  <2> QED
    BY <1>6, <2>1, <2>2, <2>3 DEF ReviewDesk
<1>7. CASE \E o \in Order : CancelRefund(o)
  BY <1>1, <1>2, <1>7, CancelKeeps, FrameKeepsInv DEF ReviewInv
<1>8. CASE Pay
  <2>1. review' = review
    BY <1>8 DEF Pay, SubmitRefundPayment, ReconcileRefundPayment, SendRequest, Observe,
       CallFails, CallerDies, deskVars
  <2> QED
    BY <1>1, <1>2, <1>8, <2>1, PayKeeps, FrameKeepsInv, SameReviews DEF ReviewInv
<1>9. CASE Outside
  BY <1>1, <1>2, <1>9, OutsideKeeps, FrameKeepsInv, SameReviews DEF ReviewInv
<1> QED
  BY <1>3, <1>4, <1>5, <1>6, <1>7, <1>8, <1>9 DEF Next

-----------------------------------------------------------------------------
(* The theorems.                                                           *)

LEMMA ReviewSafety == Spec => []ReviewInv
BY ReviewInvInit, ReviewInvStep, TypeCorrect, LifecycleQueueInv, PaymentSafety, PTL DEF Spec

\* No refund that needs a human review is processed or paid before an operator
\* approved a review linked to it, in whatever order its events arrive.
THEOREM ReviewedBeforeProcessed == Spec => []ProcessedOnlyWithApproval
<1>1. ReviewInv => ProcessedOnlyWithApproval
  BY DEF ReviewInv, ApprovalInv, UnapprovedIsHeld, ApprovalIsAReviews, ApprovedReview,
     Processed, ProcessedOnlyWithApproval
<1> QED
  BY <1>1, ReviewSafety, PTL

\* A queued refund always has an event that is not acknowledged yet: no
\* acknowledgement that overtakes a decision strands it.
THEOREM NoStrandedRefund == Spec => []QueuedKeepsItsEvent
<1>1. ReviewInv => QueuedKeepsItsEvent
  BY DEF ReviewInv, EventInv
<1> QED
  BY <1>1, ReviewSafety, PTL

\* Repeated and concurrent requests leave at most one refund review pending
\* for an order.
THEOREM NoDoubleReview == Spec => []OnePendingRefundReview
<1>1. ReviewInv => OnePendingRefundReview
  <2> SUFFICES ASSUME SinglePending, NEW o \in Order
               PROVE  Cardinality(PendingRefundReviews(o)) <= 1
    BY DEF ReviewInv, OnePendingRefundReview
  <2>1. CASE PendingRefundReviews(o) = {}
    BY <2>1, FS_EmptySet
  <2>2. CASE PendingRefundReviews(o) # {}
    <3>1. PICK r \in PendingRefundReviews(o) : PendingRefundReviews(o) = {r}
      BY <2>2 DEF SinglePending
    <3> QED
      BY <3>1, FS_Singleton
  <2> QED
    BY <2>1, <2>2
<1> QED
  BY <1>1, ReviewSafety, PTL

\* Repair, approval and application together publish at most two events for
\* an order's refund.
THEOREM FewEvents == Spec => []AtMostTwoEvents
<1>1. ReviewInv => AtMostTwoEvents
  BY DEF ReviewInv, EventInv, EventCount, AtMostTwoEvents
<1> QED
  BY <1>1, ReviewSafety, PTL

-----------------------------------------------------------------------------
(***************************************************************************)
(* RefundLifecycle implements RefundPromise.                               *)
(*                                                                         *)
(* A step changes the refund of at most one order, or what the channel     *)
(* knows of one (OneAtATime).  What it can do to that refund is RowStep;   *)
(* that it may is what PaymentInv says before and after the step.          *)
(***************************************************************************)

\* The mapping of a refund's row to its stage.
StageNow == [o \in Order |-> StageOf[refund[o].status]]

OnlyRefundOf(p) ==
  gateway' = gateway /\ \A q \in Order \ {p} : refund'[q] = refund[q]

ChannelMoves(p) ==
  /\ refund' = refund
  /\ \/ p \in wire /\ gateway[p] = "none"
        /\ gateway' = [gateway EXCEPT ![p] = "processing"]
     \/ /\ gateway[p] = "processing"
        /\ \E outcome \in {"succeeded", "failed"} :
             gateway' = [gateway EXCEPT ![p] = outcome]

OneStep == \E p \in Order : OnlyRefundOf(p) \/ ChannelMoves(p)

LEMMA NothingMoved == ASSUME refund' = refund, gateway' = gateway PROVE OneStep
<1>1. PICK p \in Order : TRUE
  BY RefundAssumption
<1> QED
  BY <1>1 DEF OneStep, OnlyRefundOf

LEMMA OneRowMoved ==
  ASSUME NEW p \in Order, NEW row, gateway' = gateway, TypeOK,
         refund' = [refund EXCEPT ![p] = row]
  PROVE  OneStep
BY DEF OneStep, OnlyRefundOf, TypeOK

LEMMA ApplyIsOneStep == ASSUME TypeOK, Apply PROVE OneStep
<1>1. ASSUME NEW p \in Order, JudgeApplication(p) \/ RepairMissingEvent(p) PROVE OneStep
  BY <1>1, NothingMoved DEF JudgeApplication, RepairMissingEvent, deskVars, paymentVars
<1>2. ASSUME NEW a \in applying, PersistApplication(a) PROVE OneStep
  <2>1. a.order \in Order /\ gateway' = gateway
    BY <1>2 DEF TypeOK, PersistApplication, paymentVars
  <2>2. \E row : refund' = [refund EXCEPT ![a.order] = row]
    BY <1>2 DEF PersistApplication, InsertRefund
  <2> QED
    BY <2>1, <2>2, OneRowMoved
<1>3. ASSUME NEW a \in applying, AbandonApplication(a) PROVE OneStep
  BY <1>3, NothingMoved DEF AbandonApplication, deskVars, paymentVars
<1> QED
  BY <1>1, <1>2, <1>3 DEF Apply

LEMMA ConsumeIsOneStep == ASSUME TypeOK, Consume PROVE OneStep
<1>1. PICK d \in inflight : ProcessRefundMessage(d)
  BY DEF Consume
<1> DEFINE p == payload[d.msg].order
<1>2. p \in Order
  BY DEF TypeOK, QueueTypeOK, Delivery
<1>3. gateway' = gateway
  BY <1>1 DEF ProcessRefundMessage, RefundEventNoop, ManualReviewRequired, RefundProcessing,
              paymentVars
<1>4. refund' = refund \/ \E row : refund' = [refund EXCEPT ![p] = row]
  <2>1. CASE RefundEventNoop(d)
    BY <2>1 DEF RefundEventNoop, deskVars
  <2>2. CASE ManualReviewRequired(d)
    BY <2>2 DEF ManualReviewRequired
  <2>3. CASE RefundProcessing(d)
    <3>1. refund' = [refund EXCEPT ![p].status = "refund_processing", ![p].before = SnapshotOf(p)]
      BY <2>3 DEF RefundProcessing
    <3> HIDE DEF p
    <3>2. refund' = [refund EXCEPT ![p] = refund'[p]]
      BY <1>2, <3>1 DEF TypeOK
    <3> QED
      BY <3>2
  <2> QED
    BY <1>1, <2>1, <2>2, <2>3 DEF ProcessRefundMessage
<1> HIDE DEF p
<1> QED
  BY <1>2, <1>3, <1>4, NothingMoved, OneRowMoved

LEMMA ReviewDeskIsOneStep == ASSUME TypeOK, ReviewDesk PROVE OneStep
<1>1. ASSUME NEW p \in Order, NEW linked \in BOOLEAN, OpenRefundReview(p, linked)
      PROVE  OneStep
  BY <1>1, NothingMoved DEF OpenRefundReview, paymentVars
<1>2. ASSUME NEW p \in Order, NEW type \in ReviewType, OpenOtherReview(p, type)
      PROVE  OneStep
  BY <1>2, NothingMoved DEF OpenOtherReview, paymentVars
<1>3. ASSUME NEW r \in Review, RejectRefund(r) \/ ApproveRefund(r) PROVE OneStep
  <2> DEFINE p == review[r].order
  <2>1. p \in Order
    BY DEF TypeOK, ReviewRow
  <2>2. /\ gateway' = gateway
        /\ \/ refund' = [refund EXCEPT ![p].status = "rejected", ![p].approved = FALSE]
           \/ refund' = [refund EXCEPT ![p].status = "queued", ![p].approved = TRUE]
    BY <1>3 DEF RejectRefund, ApproveRefund, paymentVars
  <2> HIDE DEF p
  <2>3. \A q \in Order \ {p} : refund'[q] = refund[q]
    BY <2>1, <2>2 DEF TypeOK
  <2> QED
    BY <2>1, <2>2, <2>3 DEF OneStep, OnlyRefundOf
<1>4. ASSUME NEW r \in Review, ApproveNewRefund(r) \/ ApproveCancelPaidOrder(r) PROVE OneStep
  <2>1. review[r].order \in Order
    BY DEF TypeOK, ReviewRow
  <2>2. /\ gateway' = gateway
        /\ \E row : refund' = [refund EXCEPT ![review[r].order] = row]
    BY <1>4 DEF ApproveNewRefund, ApproveCancelPaidOrder, InsertRefund, paymentVars
  <2> QED
    BY <2>1, <2>2, OneRowMoved
<1>5. ASSUME NEW r \in Review, RejectRequest(r) \/ ApproveOther(r) \/ ApproveCancelUnpaidOrder(r)
      PROVE  OneStep
  BY <1>5, NothingMoved
     DEF RejectRequest, ApproveOther, ApproveCancelUnpaidOrder, paymentVars
<1> QED
  BY <1>1, <1>2, <1>3, <1>4, <1>5 DEF ReviewDesk

LEMMA PayIsOneStep == ASSUME TypeOK, Pay PROVE OneStep
<1>1. ASSUME NEW p \in Order, SubmitRefundPayment(p) PROVE OneStep
  BY <1>1, OneRowMoved DEF SubmitRefundPayment
<1>2. ASSUME NEW p \in Order, ReconcileRefundPayment(p) PROVE OneStep
  BY <1>2, NothingMoved DEF ReconcileRefundPayment, deskVars
<1>3. ASSUME NEW c \in calls, SendRequest(c) \/ CallerDies(c) PROVE OneStep
  BY <1>3, NothingMoved DEF SendRequest, CallerDies, deskVars
<1>4. ASSUME NEW c \in calls, Observe(c) \/ CallFails(c) PROVE OneStep
  <2>1. c.order \in Order /\ gateway' = gateway
    BY <1>4 DEF TypeOK, Call, Observe, CallFails
  <2>2. refund' = refund \/ \E row : refund' = [refund EXCEPT ![c.order] = row]
    BY <1>4 DEF Observe, CallFails
  <2> QED
    BY <2>1, <2>2, NothingMoved, OneRowMoved
<1> QED
  BY <1>1, <1>2, <1>3, <1>4 DEF Pay

LEMMA OutsideIsOneStep == ASSUME TypeOK, Outside PROVE OneStep
<1>1. ASSUME NEW p \in Order, GatewayAccepts(p) \/ GatewaySettles(p) PROVE OneStep
  <2>1. CASE gateway' = gateway
    BY <1>1, <2>1, NothingMoved DEF GatewayAccepts, GatewaySettles, deskVars
  <2>2. CASE gateway' # gateway
    BY <1>1, <2>2 DEF GatewayAccepts, GatewaySettles, deskVars, OneStep, ChannelMoves, TypeOK
  <2> QED
    BY <2>1, <2>2
<1>2. ASSUME NEW p \in Order,
             RequestLost(p) \/ ShippingAdvances(p) \/ PaymentArrives(p) \/ PaymentReversed(p)
      PROVE  OneStep
  BY <1>2, NothingMoved
     DEF RequestLost, ShippingAdvances, PaymentArrives, PaymentReversed, deskVars, paymentVars
<1>3. ASSUME NEW c \in calls, GatewayAnswers(c) PROVE OneStep
  BY <1>3, NothingMoved DEF GatewayAnswers, deskVars
<1> QED
  BY <1>1, <1>2, <1>3 DEF Outside

LEMMA OneAtATime == ASSUME TypeOK, [Next]_vars PROVE OneStep
<1>1. CASE QueueStep \/ UNCHANGED vars
  BY <1>1, NothingMoved DEF QueueStep, vars, deskVars, paymentVars
<1>2. ASSUME NEW p \in Order, CancelRefund(p) PROVE OneStep
  BY <1>2, OneRowMoved DEF CancelRefund, paymentVars
<1> QED
  BY <1>1, <1>2, ApplyIsOneStep, ConsumeIsOneStep, ReviewDeskIsOneStep, PayIsOneStep,
     OutsideIsOneStep DEF Next

-----------------------------------------------------------------------------
(* Steps of the promise.                                                   *)

\* The stage of one order moves, or none does.
LEMMA StageEntered ==
  ASSUME TypeOK, TypeOK', NEW p \in Order, OnlyRefundOf(p), NEW from, NEW to,
         StageOf[refund[p].status] \in from, StageOf[refund'[p].status] = to
  PROVE  Promise!Enter(p, from, to)
<1>1. StageNow' = [StageNow EXCEPT ![p] = to]
  BY DEF StageNow, OnlyRefundOf
<1> QED
  BY <1>1 DEF StageNow, OnlyRefundOf, Promise!Enter

LEMMA StageStays ==
  ASSUME NEW p \in Order, OnlyRefundOf(p), StageOf[refund'[p].status] = StageOf[refund[p].status]
  PROVE  UNCHANGED <<StageNow, gateway>>
BY DEF StageNow, OnlyRefundOf

LEMMA RowKeepsPromise ==
  ASSUME TypeOK, TypeOK', PaymentInv, PaymentInv', NEW p \in Order, RowStep(p), OnlyRefundOf(p)
  PROVE  Promise!Keep(p) \/ UNCHANGED <<StageNow, gateway>>
<1> DEFINE s == refund[p].status
           t == refund'[p].status
<1>1. /\ t = "refund_succeeded" => gateway[p] = "succeeded"
      /\ t = "failed" => gateway[p] = "failed"
      /\ gateway[p] # "none" => s \in Dispatched
  BY DEF OnlyRefundOf, PaymentInv, BooksAgreeWithGateway, NoPayoutWithoutDispatch
<1>2. CASE Kept(p) \/ Started(p) \/ Moved(p)
  <2>1. StageOf[t] = StageOf[s]
    <3>1. CASE Kept(p) \/ Moved(p)
      BY <3>1 DEF Kept, Moved
    <3>2. CASE Started(p)
      <4>1. refund[p] \in RefundRow
        BY DEF TypeOK
      <4>2. s = "queued" /\ t = "refund_processing"
        BY <3>2, <4>1 DEF Started, RefundRow
      <4> QED
        BY <4>2 DEF StageOf
    <3> QED
      BY <1>2, <3>1, <3>2
  <2> QED
    BY <2>1, StageStays
<1>3. CASE Created(p)
  <2>1. StageOf[s] = "none" /\ StageOf[t] \in {"under_review", "in_progress"}
    BY <1>3 DEF Created, StageOf
  <2> QED
    BY <2>1, StageEntered DEF Promise!Keep, Promise!Open
<1>4. CASE Waited(p)
  <2>1. /\ StageOf[s] \in {"under_review", "in_progress"}
        /\ StageOf[t] \in {"under_review", "in_progress", "closed"}
    BY <1>4 DEF Waited, StageOf
  <2>2. CASE StageOf[t] = StageOf[s]
    BY <2>2, StageStays
  <2>3. CASE StageOf[t] # StageOf[s]
    <3>1. \/ Promise!Enter(p, {"in_progress"}, "under_review")
          \/ Promise!Enter(p, {"under_review"}, "in_progress")
          \/ Promise!Enter(p, {"under_review", "in_progress"}, "closed")
      <4>1. CASE StageOf[t] = "closed"
        BY <2>1, <4>1, StageEntered
      <4>2. CASE StageOf[s] = "in_progress" /\ StageOf[t] = "under_review"
        BY <4>2, StageEntered
      <4>3. CASE StageOf[s] = "under_review" /\ StageOf[t] = "in_progress"
        BY <4>3, StageEntered
      <4> QED
        BY <2>1, <2>3, <4>1, <4>2, <4>3
    <3> QED
      BY <3>1 DEF Promise!Keep, Promise!Hold, Promise!Approve, Promise!Close
  <2> QED
    BY <2>2, <2>3
<1>5. CASE Withdrawn(p)
  <2>1. StageOf[s] = "in_progress" /\ StageOf[t] = "closed"
    BY <1>5 DEF Withdrawn, StageOf
  <2> QED
    BY <2>1, StageEntered DEF Promise!Keep, Promise!Close
<1>6. CASE Asked(p) /\ t # "failed"
  <2>1. StageOf[s] \in {"in_progress", "at_channel"} /\ StageOf[t] = "at_channel"
    BY <1>6 DEF Asked, StageOf
  <2> QED
    BY <2>1, StageEntered, StageStays DEF Promise!Keep, Promise!Dispatch
<1>7. CASE Asked(p) /\ t = "failed"
  <2>1. gateway[p] = "failed" /\ StageOf[s] = "at_channel" /\ StageOf[t] = "refused"
    BY <1>1, <1>7 DEF Asked, StageOf, Dispatched
  <2> QED
    BY <2>1, StageEntered DEF Promise!Keep, Promise!RecordRefused
<1>8. CASE PaidOut(p)
  <2>1. gateway[p] = "succeeded" /\ StageOf[s] = "at_channel" /\ StageOf[t] = "paid"
    BY <1>1, <1>8 DEF PaidOut, StageOf
  <2> QED
    BY <2>1, StageEntered DEF Promise!Keep, Promise!RecordPaid
<1> QED
  BY <1>2, <1>3, <1>4, <1>5, <1>6, <1>7, <1>8 DEF RowStep

LEMMA ChannelKeepsPromise ==
  ASSUME TypeOK, PaymentInv, NEW p \in Order, ChannelMoves(p)
  PROVE  Promise!Keep(p)
<1>1. UNCHANGED StageNow
  BY DEF ChannelMoves, StageNow
<1>2. CASE p \in wire /\ gateway[p] = "none" /\ gateway' = [gateway EXCEPT ![p] = "processing"]
  <2>1. refund[p].status \in Dispatched \ {"refund_succeeded", "failed"}
    BY <1>2 DEF PaymentInv, NoPayoutWithoutDispatch, BooksAgreeWithGateway
  <2>2. StageNow[p] = "at_channel"
    BY <2>1 DEF StageNow, StageOf, Dispatched
  <2> QED
    BY <1>1, <1>2, <2>2 DEF StageNow, Promise!Keep, Promise!ChannelAccepts
<1>3. CASE /\ gateway[p] = "processing"
           /\ \E outcome \in {"succeeded", "failed"} : gateway' = [gateway EXCEPT ![p] = outcome]
  BY <1>1, <1>3 DEF StageNow, Promise!Keep, Promise!ChannelSettles
<1> QED
  BY <1>2, <1>3 DEF ChannelMoves

\* The services keep the shop's promise about every refund: every step of
\* applications, events, reviews, withdrawals, payments and the channel is a
\* step of RefundPromise for one order, or leaves all stages and money alone.
THEOREM LifecycleKeepsPromise == Spec => KeepsRefundPromise
<1>1. Init => Promise!Promised
  <2> SUFFICES ASSUME Init PROVE Promise!Promised
    OBVIOUS
  <2>1. \A o \in Order : refund[o].status \in {"none", "queued", "pending_manual_review"}
    BY DEF Init, NoRefund, LegacyRefunds, NewRefund
  <2>2. \A o \in Order : StageOf[refund[o].status] \in {"none", "under_review", "in_progress"}
    BY <2>1 DEF StageOf
  <2> QED
    BY <2>2 DEF Init, Promise!Promised
<1>2. TypeOK /\ TypeOK' /\ PaymentInv /\ PaymentInv' /\ [Next]_vars =>
        [\E o \in Order : Promise!Keep(o)]_<<StageNow, gateway>>
  <2> SUFFICES ASSUME TypeOK, TypeOK', PaymentInv, PaymentInv', [Next]_vars
               PROVE  (\E o \in Order : Promise!Keep(o)) \/ UNCHANGED <<StageNow, gateway>>
    OBVIOUS
  <2>1. PICK p \in Order : OnlyRefundOf(p) \/ ChannelMoves(p)
    BY OneAtATime DEF OneStep
  <2>2. RowStep(p)
    BY EveryStepIsARowStep
  <2> QED
    BY <2>1, <2>2, RowKeepsPromise, ChannelKeepsPromise
<1> QED
  BY <1>1, <1>2, TypeCorrect, PaymentSafety, PTL
     DEF Spec, KeepsRefundPromise, Promise!Spec, StageNow
=============================================================================
