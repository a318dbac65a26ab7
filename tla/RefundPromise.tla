---------------------------- MODULE RefundPromise ----------------------------
(***************************************************************************)
(* What the shop promises about the refund of an order, without saying how *)
(* applications, events, reviews, payment calls and crashes bring it       *)
(* about: the stage a refund is in as its customer and its operators see   *)
(* it, and what happens to the money at the payment channel.               *)
(***************************************************************************)
CONSTANT Order

VARIABLES
  stage,  \* the refund's stage in the books of the shop
  money   \* the refund's state at the payment channel

Stage == {"none", "under_review", "in_progress", "closed",
          "at_channel", "paid", "refused"}
Money == {"none", "processing", "succeeded", "failed"}

Promised ==
  /\ stage \in [Order -> {"none", "under_review", "in_progress"}]
  /\ money = [o \in Order |-> "none"]

Enter(o, from, to) ==
  /\ stage[o] \in from
  /\ stage' = [stage EXCEPT ![o] = to]
  /\ UNCHANGED money

Open(o) == Enter(o, {"none"}, "under_review") \/ Enter(o, {"none"}, "in_progress")

\* A review may hold a refund up and let it go on.
Hold(o) == Enter(o, {"in_progress"}, "under_review")
Approve(o) == Enter(o, {"under_review"}, "in_progress")

\* Rejected or withdrawn: only before the payment was dispatched.
Close(o) == Enter(o, {"under_review", "in_progress"}, "closed")

Dispatch(o) == Enter(o, {"in_progress"}, "at_channel")

\* The outcome is recorded after it came about.
RecordPaid(o) == money[o] = "succeeded" /\ Enter(o, {"at_channel"}, "paid")
RecordRefused(o) == money[o] = "failed" /\ Enter(o, {"at_channel"}, "refused")

\* The channel acts, once, on a refund that was dispatched.
ChannelAccepts(o) ==
  /\ stage[o] = "at_channel" /\ money[o] = "none"
  /\ money' = [money EXCEPT ![o] = "processing"]
  /\ UNCHANGED stage

ChannelSettles(o) ==
  /\ money[o] = "processing"
  /\ \E outcome \in {"succeeded", "failed"} : money' = [money EXCEPT ![o] = outcome]
  /\ UNCHANGED stage

Keep(o) ==
  \/ Open(o) \/ Hold(o) \/ Approve(o) \/ Close(o) \/ Dispatch(o)
  \/ RecordPaid(o) \/ RecordRefused(o) \/ ChannelAccepts(o) \/ ChannelSettles(o)

Spec == Promised /\ [][\E o \in Order : Keep(o)]_<<stage, money>>
=============================================================================
