--------------------------- MODULE RefundLifecycle ---------------------------
(***************************************************************************)
(* The life of the refunds of a set of orders: application (tools/refund), *)
(* manual review (tools/human_review, services/review_service and          *)
(* review_continuation), the worker that consumes refund.created           *)
(* (services/refund_service), withdrawal (services/refund_cancellation)    *)
(* and payment (services/payments), over the message queue of the module   *)
(* MessageQueue.                                                           *)
(*                                                                         *)
(* One database transaction is one action.  What happens outside of one is *)
(* state of its own: applications that were judged and not yet persisted,  *)
(* requests on their way to the payment channel, the callers waiting for   *)
(* its answer.  Any of them can die between two steps.                     *)
(*                                                                         *)
(* refund_requests has a UNIQUE idempotency_key and every writer uses      *)
(* refund_apply:{order_id}, so an order has at most one refund row in its  *)
(* whole life: the row is refund[o] and its id needs no name of its own.   *)
(* Rows are never deleted; the "not found" branches of the code cannot be  *)
(* taken and are left out.  So are refusals that write nothing, the        *)
(* supplement version check among them: a caller may present any version,  *)
(* and one that is refused changes nothing.                                *)
(***************************************************************************)
EXTENDS MessageQueue

CONSTANTS
  Order,   \* order ids
  Review   \* review ids (uuid4)

ASSUME RefundAssumption == Order # {}

VARIABLES
  order,     \* orders: order id -> row
  refund,    \* refund_requests: order id -> row
  review,    \* manual_reviews: review id -> row
  payload,   \* the payload column of mq_messages
  applying,  \* applications judged eligible, not yet persisted
  calls,     \* callers inside _query_or_submit, outside of its transactions
  wire,      \* submit requests travelling to the payment channel
  gateway,   \* the payment channel's own record of each refund (external)
  submits    \* history: how many submit requests were sent for each refund

deskVars == <<order, refund, review>>
paymentVars == <<calls, wire, gateway, submits>>
vars == <<mq, inflight, handled, order, refund, review, payload, applying,
          calls, wire, gateway, submits>>

-----------------------------------------------------------------------------
(* Rows.                                                                   *)

OrderStatus == {"awaiting_payment", "open", "shipped", "returning",
                "refunding", "refunded", "cancelled"}
AfterSales == {"none", "refund_processing", "refund_succeeded"}
Shipping == {"unshipped", "outbound", "signed"}
Payment == {"paid", "unpaid", "unconfirmed"}

\* last: last_refund_id is the id of the order's refund.
OrderRow == [pay: Payment, status: OrderStatus, after: AfterSales,
             last: BOOLEAN, ship: Shipping]

\* order_before_refund; the status "none" stands for a missing snapshot.
Snapshot == [status: OrderStatus \cup {"none"}, after: AfterSales,
             last: BOOLEAN, ship: Shipping]
NoSnapshot == [status |-> "none", after |-> "none", last |-> FALSE,
               ship |-> "unshipped"]

Inactive == {"failed", "rejected", "cancelled"}
Dispatched == {"payment_submitting", "refund_unknown", "refund_succeeded", "failed"}
RefundStatus == {"none", "queued", "pending_manual_review", "refund_processing"}
                \cup Inactive \cup Dispatched
Reasons == {"application", "manual_review_approved", "approved_order_cancellation"}

\* needs: eligibility.review_required.  approved: review_approved.
RefundRow == [status: RefundStatus, needs: BOOLEAN, approved: BOOLEAN,
              reason: Reasons, before: Snapshot]
NewRefund(status, needs, approved, reason) ==
  [status |-> status, needs |-> needs, approved |-> approved, reason |-> reason,
   before |-> NoSnapshot]
NoRefund == NewRefund("none", FALSE, FALSE, "application")

\* What requested_action makes of a review: a refund review, or one of the
\* continuations of continue_approved_review.
ReviewType == {"refund", "cancel_order", "address_change", "followup_ticket"}
ReviewStatus == {"absent", "pending_review", "approved", "rejected", "cancelled"}

\* related: related_id is the id of the order's refund, or null.
ReviewRow == [status: ReviewStatus, type: ReviewType, order: Order, related: BOOLEAN]

Answer == {"unsent", "waiting", "processing", "succeeded", "failed", "unknown"}
Call == [order: Order, submit: BOOLEAN, answer: Answer]

TypeOK ==
  /\ QueueTypeOK
  /\ order \in [Order -> OrderRow]
  /\ refund \in [Order -> RefundRow]
  /\ review \in [Review -> ReviewRow]
  /\ payload \in [Msg -> [order: Order, review: BOOLEAN]]
  /\ applying \subseteq [order: Order, review: BOOLEAN]
  /\ calls \subseteq Call
  /\ wire \subseteq Order
  /\ gateway \in [Order -> {"none", "processing", "succeeded", "failed"}]
  /\ submits \in [Order -> Nat]

-----------------------------------------------------------------------------
(* Reads shared by the operations.                                         *)

\* get_active_refund_request_by_order_id_from_db
Active(o) == refund[o].status \notin Inactive \cup {"none"}

\* require_confirmed_refund_payment
PaymentConfirmed(o) == order[o].pay = "paid" /\ order[o].status # "awaiting_payment"

\* existing_after_sales_reason
InAfterSales(o) == order[o].status \in {"returning", "refunding", "refunded"}

Pending(r) == review[r].status = "pending_review"
PendingRefundReviews(o) ==
  {r \in Review : Pending(r) /\ review[r].type = "refund" /\ review[r].order = o}

Events(o) == {m \in Msg : mq[m].status # "absent" /\ payload[m].order = o}

\* publish_message(REFUND_CREATED_TOPIC, ...) inside the caller's transaction.
PublishRefundCreated(o, reviewRequired) ==
  \E m \in Msg :
    /\ PublishMessage(m)
    /\ payload' = [payload EXCEPT ![m] = [order |-> o, review |-> reviewRequired]]

\* save_refund_request_to_db: the UNIQUE key refuses a second row.
InsertRefund(o, row) ==
  /\ refund[o].status = "none"
  /\ refund' = [refund EXCEPT ![o] = row]

InsertReview(o, type, related) ==
  \E r \in Review :
    /\ review[r].status = "absent"
    /\ review' = [review EXCEPT ![r] =
         [status |-> "pending_review", type |-> type, order |-> o, related |-> related]]

-----------------------------------------------------------------------------
(* Applying for a refund.                                                  *)

\* refund_apply up to the decision to create: no active refund, and the order
\* snapshot is eligible.  The risk assessment may ask for a review, and a
\* parcel still in transit always does.
JudgeApplication(o) ==
  /\ ~Active(o)
  /\ PaymentConfirmed(o)
  /\ ~InAfterSales(o)
  /\ \E reviewRequired \in BOOLEAN :
       /\ order[o].status = "shipped" /\ order[o].ship # "signed" => reviewRequired
       /\ applying' = applying \cup {[order |-> o, review |-> reviewRequired]}
  /\ UNCHANGED <<queueVars, deskVars, payload, paymentVars>>

\* _persist_refund_and_event: the payment is checked again under the order
\* lock; refund and event are written together.
PersistApplication(a) ==
  /\ PaymentConfirmed(a.order)
  /\ InsertRefund(a.order,
       NewRefund(IF a.review THEN "pending_manual_review" ELSE "queued",
                 a.review, FALSE, "application"))
  /\ PublishRefundCreated(a.order, a.review)
  /\ applying' = applying \ {a}
  /\ UNCHANGED <<order, review, paymentVars>>

\* The transaction was refused (payment no longer confirmed, key taken), or
\* the process died.
AbandonApplication(a) ==
  /\ applying' = applying \ {a}
  /\ UNCHANGED <<queueVars, deskVars, payload, paymentVars>>

\* Mutant: events that are finished or dead-lettered count as missing.
RepairIgnoringFinished(o) ==
  /\ refund[o].status \in {"queued", "pending_manual_review"}
  /\ \A m \in Events(o) : mq[m].status \in {"done", "dead_letter"}
  /\ PublishRefundCreated(o, refund[o].status = "pending_manual_review" \/ refund[o].needs)
  /\ UNCHANGED <<deskVars, applying, paymentVars>>

\* Mutant: the repaired event forgets that the refund needs a review.
RepairWithoutReviewFlag(o) ==
  /\ refund[o].status \in {"queued", "pending_manual_review"}
  /\ Events(o) = {}
  /\ PublishRefundCreated(o, FALSE)
  /\ UNCHANGED <<deskVars, applying, paymentVars>>

\* repair_missing_refund_events, for one of the refunds it finds.
RepairMissingEvent(o) ==
  /\ refund[o].status \in {"queued", "pending_manual_review"}
  /\ Events(o) = {}
  /\ PublishRefundCreated(o, refund[o].status = "pending_manual_review" \/ refund[o].needs)
  /\ UNCHANGED <<deskVars, applying, paymentVars>>

-----------------------------------------------------------------------------
(* Consuming refund.created.                                               *)

\* Mutant: the event is acknowledged without looking at the delivery.
AcknowledgeAnyDelivery(d) ==
  /\ refund[payload[d.msg].order].status # "queued"
  /\ mq' = SetStatus(d.msg, "done")
  /\ inflight' = inflight \ {d}
  /\ UNCHANGED <<handled, deskVars, payload, applying, paymentVars>>

\* The refund has left "queued": whatever it is now, the event is only
\* acknowledged (and the customer perhaps notified).
RefundEventNoop(d) ==
  /\ refund[payload[d.msg].order].status # "queued"
  /\ HandleMessage(d)
  /\ UNCHANGED <<deskVars, payload, applying, paymentVars>>

\* review_required and not review_approved
HeldForReview(d) ==
  payload[d.msg].review /\ ~refund[payload[d.msg].order].approved

\* A queued refund whose event asks for a review.
ManualReviewRequired(d) ==
  LET o == payload[d.msg].order
  IN  /\ refund[o].status = "queued"
      /\ HeldForReview(d)
      /\ HandleMessage(d)
      /\ refund' = [refund EXCEPT ![o].status = "pending_manual_review"]
      /\ UNCHANGED <<order, review, payload, applying, paymentVars>>

SnapshotOf(o) ==
  [status |-> order[o].status, after |-> order[o].after, last |-> order[o].last,
   ship |-> order[o].ship]

\* Mutant: the worker advances a refund that is not terminal or under
\* payment, without asking whether it is still queued.
ProcessingFromAnyStatus(d) ==
  LET o == payload[d.msg].order
  IN  /\ refund[o].status \notin Dispatched
      /\ ~HeldForReview(d)
      /\ HandleMessage(d)
      /\ refund' = [refund EXCEPT ![o].status = "refund_processing",
                                  ![o].before = SnapshotOf(o)]
      /\ order' = [order EXCEPT ![o].status = "refunding",
                                ![o].after = "refund_processing", ![o].last = TRUE]
      /\ UNCHANGED <<review, payload, applying, paymentVars>>

\* queued -> refund_processing, with the order's snapshot and its new status.
RefundProcessing(d) ==
  LET o == payload[d.msg].order
  IN  /\ refund[o].status = "queued"
      /\ ~HeldForReview(d)
      /\ HandleMessage(d)
      /\ refund' = [refund EXCEPT ![o].status = "refund_processing",
                                  ![o].before = SnapshotOf(o)]
      /\ order' = [order EXCEPT ![o].status = "refunding",
                                ![o].after = "refund_processing", ![o].last = TRUE]
      /\ UNCHANGED <<review, payload, applying, paymentVars>>

\* process_refund_message and its call from process_refund_tasks.
ProcessRefundMessage(d) ==
  RefundEventNoop(d) \/ ManualReviewRequired(d) \/ RefundProcessing(d)

\* The queue's own steps: claims, refused or failed or lost deliveries, time.
QueueStep ==
  /\ \/ ClaimMessages
     \/ \E m \in Msg : TimePasses(m)
     \/ \E d \in inflight : IgnoreDelivery(d) \/ FailMessage(d) \/ LoseDelivery(d)
  /\ UNCHANGED <<deskVars, payload, applying, paymentVars>>

-----------------------------------------------------------------------------
(* Manual review.                                                          *)

\* Mutant: a second review is opened beside the pending one.
OpenRefundReviewAgain(o, linked) ==
  /\ linked => refund[o].status # "none"
  /\ Active(o) => refund[o].status = "pending_manual_review"
  /\ InsertReview(o, "refund", linked \/ Active(o))
  /\ UNCHANGED <<queueVars, order, refund, payload, applying, paymentVars>>

\* create_manual_review for a refund, under the order lock.  A pending review
\* is reused, a refund that no longer waits for review needs none; neither
\* writes.  linked: the caller passes the id of the refund it was told of.
OpenRefundReview(o, linked) ==
  /\ linked => refund[o].status # "none"
  /\ PendingRefundReviews(o) = {}
  /\ Active(o) => refund[o].status = "pending_manual_review"
  /\ InsertReview(o, "refund", linked \/ Active(o))
  /\ UNCHANGED <<queueVars, order, refund, payload, applying, paymentVars>>

\* create_manual_review for anything else: always a new row.
OpenOtherReview(o, type) ==
  /\ InsertReview(o, type, FALSE)
  /\ UNCHANGED <<queueVars, order, refund, payload, applying, paymentVars>>

\* The refund a decision is about: the linked one, else the order's active one.
HasRefund(r) == review[r].related \/ Active(review[r].order)

Decide(r, decision) ==
  review' = [review EXCEPT ![r].status = decision,
               ![r].related = @ \/ (review[r].type = "refund"
                                    /\ (HasRefund(r) \/ decision = "approved"))]

\* resolve_review, reject, with a refund that waits for the decision.
RejectRefund(r) ==
  LET o == review[r].order
  IN  /\ Pending(r) /\ review[r].type = "refund" /\ HasRefund(r)
      /\ refund[o].status = "pending_manual_review"
      /\ refund' = [refund EXCEPT ![o].status = "rejected", ![o].approved = FALSE]
      /\ Decide(r, "rejected")
      /\ UNCHANGED <<queueVars, order, payload, applying, paymentVars>>

\* resolve_review, reject, with nothing but the review to write.
RejectRequest(r) ==
  /\ Pending(r)
  /\ review[r].type = "refund" => ~HasRefund(r)
  /\ Decide(r, "rejected")
  /\ UNCHANGED <<queueVars, order, refund, payload, applying, paymentVars>>

\* Mutant: the approval is recorded and its event forgotten.
ApproveWithoutEvent(r) ==
  LET o == review[r].order
  IN  /\ Pending(r) /\ review[r].type = "refund" /\ HasRefund(r)
      /\ order[o].pay = "paid"
      /\ refund[o].status = "pending_manual_review"
      /\ refund' = [refund EXCEPT ![o].status = "queued", ![o].approved = TRUE]
      /\ Decide(r, "approved")
      /\ UNCHANGED <<queueVars, order, payload, applying, paymentVars>>

\* resolve_review, approve, with a refund to continue.
ApproveRefund(r) ==
  LET o == review[r].order
  IN  /\ Pending(r) /\ review[r].type = "refund" /\ HasRefund(r)
      /\ order[o].pay = "paid"
      /\ refund[o].status = "pending_manual_review"
      /\ refund' = [refund EXCEPT ![o].status = "queued", ![o].approved = TRUE]
      /\ PublishRefundCreated(o, FALSE)
      /\ Decide(r, "approved")
      /\ UNCHANGED <<order, applying, paymentVars>>

\* resolve_review, approve, with none: the refund is created here, unless the
\* order ever had one.
ApproveNewRefund(r) ==
  LET o == review[r].order
  IN  /\ Pending(r) /\ review[r].type = "refund" /\ ~HasRefund(r)
      /\ order[o].pay = "paid"
      /\ ~InAfterSales(o)
      /\ InsertRefund(o, NewRefund("queued", FALSE, TRUE, "manual_review_approved"))
      /\ PublishRefundCreated(o, FALSE)
      /\ Decide(r, "approved")
      /\ UNCHANGED <<order, applying, paymentVars>>

\* require_unshipped_order, and the check for an active refund that follows.
OrderMayChange(o) ==
  /\ order[o].status \in {"awaiting_payment", "open"}
  /\ order[o].ship = "unshipped"
  /\ order[o].after = "none"
  /\ ~Active(o)

\* continue_approved_review, cancel_order on a paid order: refund, event and
\* cancelled order together.
ApproveCancelPaidOrder(r) ==
  LET o == review[r].order
  IN  /\ Pending(r) /\ review[r].type = "cancel_order"
      /\ OrderMayChange(o)
      /\ order[o].pay = "paid"
      /\ InsertRefund(o, NewRefund("queued", FALSE, TRUE, "approved_order_cancellation"))
      /\ PublishRefundCreated(o, FALSE)
      /\ order' = [order EXCEPT ![o].status = "cancelled"]
      /\ Decide(r, "approved")
      /\ UNCHANGED <<applying, paymentVars>>

\* continue_approved_review, cancel_order on an unpaid order.
ApproveCancelUnpaidOrder(r) ==
  LET o == review[r].order
  IN  /\ Pending(r) /\ review[r].type = "cancel_order"
      /\ OrderMayChange(o)
      /\ order[o].pay = "unpaid"
      /\ order' = [order EXCEPT ![o].status = "cancelled"]
      /\ UNCHANGED refund
      /\ Decide(r, "approved")
      /\ UNCHANGED <<queueVars, payload, applying, paymentVars>>

\* continue_approved_review, the other two: a new address (not modelled as
\* state) or a follow-up ticket.
ApproveOther(r) ==
  /\ Pending(r)
  /\ \/ review[r].type = "address_change" /\ OrderMayChange(review[r].order)
     \/ review[r].type = "followup_ticket"
  /\ UNCHANGED refund
  /\ Decide(r, "approved")
  /\ UNCHANGED <<queueVars, order, payload, applying, paymentVars>>

-----------------------------------------------------------------------------
(* Withdrawal.                                                             *)

\* Mutant: a parcel that has moved since the snapshot is overlooked.
RestorableWhateverShipped(o) ==
  /\ refund[o].before.status # "none"
  /\ order[o].last
  /\ order[o].status = "refunding"
  /\ order[o].after = "refund_processing"

\* What cancel_refund demands of an order whose refund is being processed:
\* nobody else has moved it since the snapshot.
Restorable(o) ==
  /\ refund[o].before.status # "none"
  /\ order[o].last
  /\ order[o].status = "refunding"
  /\ order[o].after = "refund_processing"
  /\ order[o].ship = refund[o].before.ship

CloseReviews(reviews) ==
  review' = [r \in Review |->
    IF r \in reviews THEN [review[r] EXCEPT !.status = "cancelled"] ELSE review[r]]

\* Mutant: a refund under payment may still be withdrawn.
CancelUnderPayment(o) ==
  /\ refund[o].status = "payment_submitting"
  /\ refund' = [refund EXCEPT ![o].status = "cancelled"]
  /\ CloseReviews(PendingRefundReviews(o))
  /\ UNCHANGED <<queueVars, order, payload, applying, paymentVars>>

\* Mutant: the other spelling of the status, which several readers accept.
CancelSpelledCanceled(o) ==
  /\ refund[o].status = "queued"
  /\ refund' = [refund EXCEPT ![o].status = "canceled"]
  /\ CloseReviews(PendingRefundReviews(o))
  /\ UNCHANGED <<queueVars, order, payload, applying, paymentVars>>

\* Mutant: the order keeps its "refunding" status.
CancelWithoutRestore(o) ==
  /\ refund[o].status = "refund_processing"
  /\ refund' = [refund EXCEPT ![o].status = "cancelled"]
  /\ CloseReviews(PendingRefundReviews(o))
  /\ UNCHANGED <<queueVars, order, payload, applying, paymentVars>>

\* cancel_refund: refund, order and pending reviews in one transaction.
CancelRefund(o) ==
  /\ refund[o].reason # "approved_order_cancellation"
  /\ \/ /\ refund[o].status \in {"queued", "pending_manual_review"}
        /\ UNCHANGED order
     \/ /\ refund[o].status = "refund_processing"
        /\ Restorable(o)
        /\ order' = [order EXCEPT ![o].status = refund[o].before.status,
                                  ![o].after = refund[o].before.after,
                                  ![o].last = refund[o].before.last]
  /\ refund' = [refund EXCEPT ![o].status = "cancelled"]
  /\ CloseReviews(PendingRefundReviews(o))
  /\ UNCHANGED <<queueVars, payload, applying, paymentVars>>

-----------------------------------------------------------------------------
(* Payment.                                                                *)

\* Mutant: a refund whose outcome is unknown may be submitted again.
SubmitAgain(o) ==
  /\ refund[o].status \in {"refund_processing", "refund_unknown"}
  /\ PaymentConfirmed(o)
  /\ refund' = [refund EXCEPT ![o].status = "payment_submitting"]
  /\ calls' = calls \cup {[order |-> o, submit |-> TRUE, answer |-> "unsent"]}
  /\ UNCHANGED <<queueVars, order, review, payload, applying, wire, gateway, submits>>

\* submit_refund_payment up to the commit that records the dispatch.
SubmitRefundPayment(o) ==
  /\ refund[o].status = "refund_processing"
  /\ PaymentConfirmed(o)
  /\ refund' = [refund EXCEPT ![o].status = "payment_submitting"]
  /\ calls' = calls \cup {[order |-> o, submit |-> TRUE, answer |-> "unsent"]}
  /\ UNCHANGED <<queueVars, order, review, payload, applying, wire, gateway, submits>>

\* reconcile_refund_payment up to its query.
ReconcileRefundPayment(o) ==
  /\ refund[o].status \in Dispatched
  /\ calls' = calls \cup {[order |-> o, submit |-> FALSE, answer |-> "unsent"]}
  /\ UNCHANGED <<queueVars, deskVars, payload, applying, wire, gateway, submits>>

Progress(c, answer) == (calls \ {c}) \cup {[c EXCEPT !.answer = answer]}

\* gateway.submit_refund / gateway.query_refund puts its request on the wire.
SendRequest(c) ==
  /\ c.answer = "unsent"
  /\ calls' = Progress(c, "waiting")
  /\ IF c.submit
     THEN /\ wire' = wire \cup {c.order}
          /\ submits' = [submits EXCEPT ![c.order] = @ + 1]
     ELSE UNCHANGED <<wire, submits>>
  /\ UNCHANGED <<queueVars, deskVars, payload, applying, gateway>>

\* The refund status an observed channel state is recorded as.
Target == [processing |-> "payment_submitting", succeeded |-> "refund_succeeded",
           failed |-> "failed", unknown |-> "refund_unknown"]

\* Mutant: whatever the channel says last is written down.
ObserveLatest(c) ==
  /\ c.answer \in DOMAIN Target
  /\ refund' = [refund EXCEPT ![c.order].status = Target[c.answer]]
  /\ calls' = calls \ {c}
  /\ UNCHANGED <<queueVars, order, review, payload, applying, wire, gateway, submits>>

\* _observe: a terminal refund is replayed or, on a conflict, left alone; the
\* exception handler that a conflict reaches leaves it alone as well.
Observe(c) ==
  LET o == c.order
      open == refund[o].status \in {"payment_submitting", "refund_unknown"}
  IN  /\ c.answer \in DOMAIN Target
      /\ IF open
         THEN refund' = [refund EXCEPT ![o].status = Target[c.answer]]
         ELSE UNCHANGED refund
      /\ IF open /\ c.answer = "succeeded"
         THEN order' = [order EXCEPT ![o].status = "refunded",
                                     ![o].after = "refund_succeeded", ![o].last = TRUE]
         ELSE UNCHANGED order
      /\ calls' = calls \ {c}
      /\ UNCHANGED <<queueVars, review, payload, applying, wire, gateway, submits>>

\* Mutant: an exception is taken for a refusal by the channel.
CallFailsForGood(c) ==
  /\ refund' = IF refund[c.order].status \in {"refund_succeeded", "failed"} THEN refund
               ELSE [refund EXCEPT ![c.order].status = "failed"]
  /\ calls' = calls \ {c}
  /\ UNCHANGED <<queueVars, order, review, payload, applying, wire, gateway, submits>>

\* The except branch of _query_or_submit: the call timed out, the connection
\* broke, the observation did not match, or recording it failed.
CallFails(c) ==
  /\ refund' = IF refund[c.order].status \in {"refund_succeeded", "failed"} THEN refund
               ELSE [refund EXCEPT ![c.order].status = "refund_unknown"]
  /\ calls' = calls \ {c}
  /\ UNCHANGED <<queueVars, order, review, payload, applying, wire, gateway, submits>>

\* The caller's process dies: nobody handles the exception.
CallerDies(c) ==
  /\ calls' = calls \ {c}
  /\ UNCHANGED <<queueVars, deskVars, payload, applying, wire, gateway, submits>>

-----------------------------------------------------------------------------
(* The world outside: the payment channel behind the PaymentGateway        *)
(* protocol, and the shop that owns payment and shipping.  The channel     *)
(* acts once per refund (the idempotency key is derived from its id), does *)
(* not change its mind once it has succeeded or failed, and reports its    *)
(* own record, or "unknown".                                               *)

GatewayAccepts(o) ==
  /\ o \in wire
  /\ wire' = wire \ {o}
  /\ gateway' = [gateway EXCEPT ![o] = IF @ = "none" THEN "processing" ELSE @]
  /\ UNCHANGED <<queueVars, deskVars, payload, applying, calls, submits>>

RequestLost(o) ==
  /\ o \in wire
  /\ wire' = wire \ {o}
  /\ UNCHANGED <<queueVars, deskVars, payload, applying, calls, gateway, submits>>

GatewaySettles(o) ==
  /\ gateway[o] = "processing"
  /\ \E outcome \in {"succeeded", "failed"} :
       gateway' = [gateway EXCEPT ![o] = outcome]
  /\ UNCHANGED <<queueVars, deskVars, payload, applying, calls, wire, submits>>

GatewayAnswers(c) ==
  /\ c.answer = "waiting"
  /\ c.submit => gateway[c.order] # "none"
  /\ \E answer \in {gateway[c.order], "unknown"} \ {"none"} :
       calls' = Progress(c, answer)
  /\ UNCHANGED <<queueVars, deskVars, payload, applying, wire, gateway, submits>>

\* The shop's fulfilment moves the parcel; it leaves a refund's status alone.
ShippingAdvances(o) ==
  /\ order[o].status \notin {"awaiting_payment", "cancelled"}
  /\ order[o].ship # "signed"
  /\ order' = [order EXCEPT
       ![o].ship = IF @ = "unshipped" THEN "outbound" ELSE "signed",
       ![o].status = IF @ = "open" THEN "shipped" ELSE @]
  /\ UNCHANGED <<queueVars, refund, review, payload, applying, paymentVars>>

PaymentArrives(o) ==
  /\ order[o].pay = "unpaid" /\ order[o].status = "awaiting_payment"
  /\ order' = [order EXCEPT ![o].pay = "paid", ![o].status = "open"]
  /\ UNCHANGED <<queueVars, refund, review, payload, applying, paymentVars>>

PaymentReversed(o) ==
  /\ order[o].pay = "paid"
  /\ order' = [order EXCEPT ![o].pay = "unconfirmed"]
  /\ UNCHANGED <<queueVars, refund, review, payload, applying, paymentVars>>

-----------------------------------------------------------------------------
(* The specification.                                                      *)

\* Orders as the shop imports them.
ShopOrder(pay, status, ship) ==
  [pay |-> pay, status |-> status, after |-> "none", last |-> FALSE, ship |-> ship]
ShopOrders ==
  {ShopOrder("unpaid", "awaiting_payment", "unshipped"),
   ShopOrder("unconfirmed", "open", "unshipped"),
   ShopOrder("paid", "open", "unshipped"),
   ShopOrder("paid", "shipped", "outbound"),
   ShopOrder("paid", "shipped", "signed"),
   ShopOrder("paid", "returning", "signed")}

\* No refund yet, or one that an older release committed without its event
\* (the "legacy committed intents" of repair_missing_refund_events).
LegacyRefunds ==
  {NewRefund("queued", FALSE, FALSE, "application"),
   NewRefund("queued", TRUE, FALSE, "application"),
   NewRefund("pending_manual_review", TRUE, FALSE, "application")}

Init ==
  /\ QueueInit
  /\ order \in [Order -> ShopOrders]
  /\ refund \in [Order -> {NoRefund} \cup LegacyRefunds]
  /\ \A o \in Order : refund[o] # NoRefund =>
       order[o].pay = "paid" /\ order[o].status # "returning"
  /\ review \in [Review -> {[status |-> "absent", type |-> "refund", order |-> o,
                             related |-> FALSE] : o \in {CHOOSE o \in Order : TRUE}}]
  /\ payload \in [Msg -> {[order |-> o, review |-> FALSE] : o \in {CHOOSE o \in Order : TRUE}}]
  /\ applying = {}
  /\ calls = {}
  /\ wire = {}
  /\ gateway = [o \in Order |-> "none"]
  /\ submits = [o \in Order |-> 0]

Apply ==
  \/ \E o \in Order : JudgeApplication(o) \/ RepairMissingEvent(o)
  \/ \E a \in applying : PersistApplication(a) \/ AbandonApplication(a)

Consume == \E d \in inflight : ProcessRefundMessage(d)

ReviewDesk ==
  \/ \E o \in Order :
       \/ \E linked \in BOOLEAN : OpenRefundReview(o, linked)
       \/ \E type \in ReviewType \ {"refund"} : OpenOtherReview(o, type)
  \/ \E r \in Review :
       \/ RejectRefund(r) \/ RejectRequest(r)
       \/ ApproveRefund(r) \/ ApproveNewRefund(r)
       \/ ApproveCancelPaidOrder(r) \/ ApproveCancelUnpaidOrder(r) \/ ApproveOther(r)

Pay ==
  \/ \E o \in Order : SubmitRefundPayment(o) \/ ReconcileRefundPayment(o)
  \/ \E c \in calls : SendRequest(c) \/ Observe(c) \/ CallFails(c) \/ CallerDies(c)

Outside ==
  \/ \E o \in Order :
       \/ GatewayAccepts(o) \/ RequestLost(o) \/ GatewaySettles(o)
       \/ ShippingAdvances(o) \/ PaymentArrives(o) \/ PaymentReversed(o)
  \/ \E c \in calls : GatewayAnswers(c)

Next ==
  \/ Apply
  \/ Consume
  \/ QueueStep
  \/ ReviewDesk
  \/ \E o \in Order : CancelRefund(o)
  \/ Pay
  \/ Outside

Spec == Init /\ [][Next]_vars

\* The refund worker polls for ever, finishes the deliveries it holds, and
\* clocks advance; operators, customers and the channel owe nothing.
WorkerFairness ==
  /\ WF_vars(QueueStep /\ ClaimMessages)
  /\ \A m \in Msg : WF_vars(QueueStep /\ TimePasses(m))
  /\ \A m \in Msg, k \in 1 .. MaxAttempts :
       LET d == [msg |-> m, attempt |-> k]
       IN  WF_vars(/\ d \in inflight
                   /\ \/ ProcessRefundMessage(d)
                      \/ QueueStep /\ (IgnoreDelivery(d) \/ FailMessage(d)))

-----------------------------------------------------------------------------
(* Properties.                                                             *)

\* The channel is never asked twice to pay a refund, whatever times out,
\* crashes or is retried (docs/payment_integration.md: only query, never
\* submit again; _query_or_submit).
SubmittedAtMostOnce == \A o \in Order : submits[o] <= 1

\* Money moves only for a refund that is recorded as dispatched: a refund
\* that was withdrawn, rejected or still waits for a review is neither at the
\* channel nor on its way there (cancel_refund against submit_refund_payment).
NoPayoutWithoutDispatch ==
  \A o \in Order :
    o \in wire \/ gateway[o] # "none" \/ submits[o] > 0
      => refund[o].status \in Dispatched

\* A recorded outcome is the channel's: late, repeated and failed calls never
\* make the books claim a payment that did not happen, or deny one that did
\* (_observe and the exception handler of _query_or_submit).
BooksAgreeWithGateway ==
  \A o \in Order :
    /\ refund[o].status = "refund_succeeded" => gateway[o] = "succeeded"
    /\ refund[o].status = "failed" => gateway[o] = "failed"

\* What the customer sees on the order is the state of its refund, through
\* processing, payment and withdrawal; a withdrawn refund leaves no trace on
\* the order (order_before_refund, cancel_refund, _observe).
UnderRefund == {"refund_processing", "payment_submitting", "refund_unknown", "failed"}
OrderMirrorsRefund ==
  \A o \in Order :
    /\ order[o].status = "refunding" <=> refund[o].status \in UnderRefund
    /\ order[o].after = "refund_processing" <=> refund[o].status \in UnderRefund
    /\ order[o].status = "refunded" <=> refund[o].status = "refund_succeeded"
    /\ order[o].last <=> refund[o].status \in UnderRefund \cup {"refund_succeeded"}

\* An order that has left the warehouse is never shown as waiting for it again:
\* a withdrawal does not put back a snapshot that shipping has overtaken
\* (cancel_refund's comparison of shipping_status and signed_date).
StatusFollowsShipping ==
  \A o \in Order : order[o].status = "open" => order[o].ship = "unshipped"

\* A refund whose application called for a human review is processed and paid
\* only after an operator approved a review linked to it, whichever of its
\* events is delivered, and in whichever order (review_required in the event,
\* review_approved in the row).
ProcessedOnlyWithApproval ==
  \A o \in Order :
    refund[o].needs /\ refund[o].status \in {"refund_processing"} \cup Dispatched =>
      \E r \in Review : /\ review[r].status = "approved"
                        /\ review[r].type = "refund"
                        /\ review[r].order = o
                        /\ review[r].related

\* A queued refund still has an event that can move it: none of the
\* acknowledgements that overtake a review decision swallows the last one.
\* Only a legacy row has no event at all, and nobody has approved that one.
QueuedKeepsItsEvent ==
  \A o \in Order : refund[o].status = "queued" =>
    \/ \E m \in Events(o) : mq[m].status # "done"
    \/ Events(o) = {} /\ ~refund[o].approved

\* However often review, repair and application run, an order gets at most
\* one event for its application and one for its approval.
AtMostTwoEvents == \A o \in Order : Cardinality(Events(o)) <= 2

\* Repeated requests do not open a second refund review beside a pending one
\* (create_manual_review under the order lock).
OnePendingRefundReview == \A o \in Order : Cardinality(PendingRefundReviews(o)) <= 1

\* No decision, event, withdrawal or payment answer changes a refund that is
\* cancelled, rejected, paid or refused by the channel.
TerminalIsFinal ==
  [][\A o \in Order :
       refund[o].status \in {"cancelled", "rejected", "refund_succeeded", "failed"} =>
         refund'[o] = refund[o]]_vars

\* A queued refund with an event is moved on by the worker, unless deliveries
\* of every event of it were lost or failed until the queue gave up on it.
QueuedRefundMoves ==
  \A o \in Order :
    refund[o].status = "queued" /\ Events(o) # {} ~>
      \/ refund[o].status # "queued"
      \/ \A m \in Events(o) : mq[m].status \in {"done", "dead_letter"}

\* Cancelling a refund closes the reviews linked to it: none of them is left
\* pending for a refund that no longer exists.
CancelledRefundHasNoPendingReview ==
  \A r \in Review :
    Pending(r) /\ review[r].type = "refund" /\ review[r].related =>
      refund[review[r].order].status # "cancelled"

\* The stage at which the customer and the operators see a refund.
StageOf ==
  [none |-> "none", pending_manual_review |-> "under_review",
   queued |-> "in_progress", refund_processing |-> "in_progress",
   rejected |-> "closed", cancelled |-> "closed",
   payment_submitting |-> "at_channel", refund_unknown |-> "at_channel",
   refund_succeeded |-> "paid", failed |-> "refused"]

Promise == INSTANCE RefundPromise
  WITH stage <- [o \in Order |-> StageOf[refund[o].status]], money <- gateway

\* The services keep the shop's promise about a refund, whatever crashes, is
\* retried or arrives late: it is closed only before it is dispatched, the
\* channel moves money once and only for a dispatched refund, and an outcome
\* is recorded after it came about and for good (the abstract RefundPromise).
KeepsRefundPromise == Promise!Spec

\* The lifecycle is one of the queue's clients: it moves messages only as the
\* queue's operations do.
QueueUsedAsSpecified == QueueSpec
=============================================================================
