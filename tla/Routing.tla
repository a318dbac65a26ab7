------------------------------- MODULE Routing -------------------------------
(***************************************************************************)
(* From what the language model says of a message to a route: the flags    *)
(* that decide which tools a turn needs (agent/routing/decision,           *)
(* pending_task, router_v2; agent/policies; agent/tools/tool_validation).  *)
(*                                                                         *)
(* The model's answer is checked for its words only, not for combinations: *)
(* every intent can come with every action and every topic.  The text of   *)
(* the message matters through the signals that keyword lists find in it.  *)
(***************************************************************************)
EXTENDS Naturals

Intent == {"address_change", "cancel_order", "return_refund", "shipping_exception",
           "warranty_repair", "payment_invoice", "complaint", "order_lookup",
           "general_support"}
Action == {"query", "execute", "handoff", "unknown"}

\* One topic for each class that the decisions tell apart.
PolicyTopic == {"refund_policy", "refund_eligibility", "address_change_policy"}
Topic == PolicyTopic \cup {"refund_apply", "return_apply", "shipping_status",
                           "payment_status", "general_question"}

\* Requests for a risky operation, for a way round the review, and risky words.
Signal == {"handoff", "bypass", "risky"}

\* What a turn is given.  Signals count for requests to execute only.
Request ==
  [kind : {"ordinary"}, intent : Intent, action : Action \ {"execute"}, topic : Topic,
   order : BOOLEAN, address : {FALSE}, signals : {{}}] \cup
  [kind : {"ordinary"}, intent : Intent, action : {"execute"}, topic : Topic,
   order : BOOLEAN, address : BOOLEAN, signals : SUBSET Signal]

\* Prompt injection, the withdrawal of a refund, the cancellation of a request
\* that was not submitted yet: messages that never reach the language model.
Unrouted ==
  [kind : {"unsafe", "withdrawal"}, intent : {"general_support"}, action : {"unknown"},
   topic : {"general_question"}, order : {FALSE}, address : {FALSE}, signals : {{}}]

-----------------------------------------------------------------------------
(* The decision table.                                                     *)

Executes(q) == q.action = "execute"
Says(q, signal) == Executes(q) /\ signal \in q.signals

RequiresOrder(q) ==
  /\ q.action # "handoff"
  /\ \/ q.intent \in {"order_lookup", "cancel_order"}
     \/ q.intent = "address_change" /\ ~(q.action = "query" /\ q.topic = "address_change_policy")
     \/ q.intent = "return_refund" /\ (Executes(q) \/ q.topic = "refund_eligibility")
     \/ q.intent = "shipping_exception" /\ q.topic = "shipping_status"
     \/ q.intent = "payment_invoice" /\ q.topic = "payment_status"
     \/ q.intent \in {"warranty_repair", "complaint"} /\ Executes(q)

RequiresPolicy(q) ==
  \/ q.topic \in PolicyTopic
  \/ q.intent = "return_refund" /\ Executes(q) /\ q.topic \in {"refund_apply", "return_apply"}

RequiresRefund(q) ==
  q.intent = "return_refund" /\ Executes(q) /\ q.topic = "refund_apply" /\ q.order

RequiresTicket(q) ==
  /\ q.order
  /\ \/ RequiresRefund(q)
     \/ Says(q, "risky") \/ Says(q, "bypass")
     \/ /\ Executes(q)
        /\ q.intent \in {"address_change", "cancel_order", "shipping_exception",
                         "warranty_repair", "complaint", "payment_invoice"}

\* A change of an order is reviewed by a person even at low risk.
ChangesOrder(q) == Executes(q) /\ q.intent \in {"cancel_order", "address_change"}

RequiresReview(q) == Says(q, "bypass") \/ Says(q, "handoff") \/ ChangesOrder(q)

RequiresRisk(q) ==
  /\ q.order
  /\ \/ RequiresRefund(q) \/ ChangesOrder(q)
     \/ Executes(q) /\ q.intent = "complaint"
     \/ q.signals # {} /\ Executes(q)

RequiresHandoff(q) == q.action = "handoff" \/ Says(q, "bypass") \/ Says(q, "handoff")

Decision(q) ==
  [intent  |-> q.intent, action |-> q.action, topic |-> q.topic, order |-> q.order,
   blocked |-> FALSE,
   clarify |-> RequiresOrder(q) /\ ~q.order,
   policy  |-> RequiresPolicy(q),
   refund  |-> RequiresRefund(q),
   risk    |-> RequiresRisk(q),
   review  |-> RequiresReview(q),
   ticket  |-> RequiresTicket(q),
   handoff |-> RequiresHandoff(q)]

\* RouteDecision as its defaults leave it.
Unplanned(q) ==
  [intent |-> q.intent, action |-> q.action, topic |-> q.topic, order |-> FALSE,
   blocked |-> q.kind = "unsafe", clarify |-> FALSE, policy |-> FALSE, refund |-> FALSE,
   risk |-> FALSE, review |-> FALSE, ticket |-> FALSE, handoff |-> FALSE]

RouteTools(q) == IF q.kind = "ordinary" THEN Decision(q) ELSE Unplanned(q)

\* Slots: an executed change of address needs its order and the new address.
Slots(q, r) ==
  (IF r.action = "execute" /\ r.intent = "address_change" THEN {"order_id", "new_address"} ELSE {})
  \cup (IF r.clarify THEN {"order_id"} ELSE {})
MissingSlots(q, r) ==
  {slot \in Slots(q, r) : (slot = "order_id" /\ ~q.order) \/ (slot = "new_address" /\ ~q.address)}

Route(q) ==
  LET r == RouteTools(q) IN
  [r EXCEPT !.clarify = @ \/ (~r.blocked /\ MissingSlots(q, r) # {})]

-----------------------------------------------------------------------------
(* Checks of a route.                                                      *)

\* Eligibility may be explained while the order number is asked for.
PolicyWhileClarifying(r) ==
  /\ r.clarify /\ r.policy /\ ~r.order /\ ~r.blocked
  /\ r.intent = "return_refund" /\ r.action = "query" /\ r.topic = "refund_eligibility"
  /\ ~(r.ticket \/ r.refund \/ r.risk \/ r.review \/ r.handoff)

\* handoff_required and need_handoff are set and cleared together.
ShouldSkipAgents(r) == r.blocked \/ (r.clarify /\ ~PolicyWhileClarifying(r))

PlanIsValid(r) ==
  /\ r.ticket => r.order
  /\ r.refund => r.order /\ r.risk

\* Mutant: only the application is taken out, not what follows it.
WithoutApplication(r) == [r EXCEPT !.refund = FALSE, !.risk = FALSE]

\* The business decision not to create anything: every write is taken out.
WithoutWrites(r) ==
  [r EXCEPT !.refund = FALSE, !.risk = FALSE, !.ticket = FALSE, !.review = FALSE,
            !.handoff = FALSE]

-----------------------------------------------------------------------------
(* What the order says.                                                    *)

RefundFact == {"unpaid", "refund_exists", "after_sales"}
TicketFact(intent) ==
  CASE intent = "warranty_repair"    -> {"signed", "in_warranty"}
    [] intent = "shipping_exception" -> {"signed", "recent_update"}
    [] intent = "address_change"     -> {"to_ship"}
    [] OTHER -> {}

\* The facts this turn may still look at.
OrderFact(r) ==
  (IF r.refund THEN RefundFact ELSE {}) \cup (IF r.ticket THEN TicketFact(r.intent) ELSE {})

CanCreateTicket(r, facts) ==
  /\ r.ticket
  /\ r.intent = "warranty_repair" => {"signed", "in_warranty"} \subseteq facts
  /\ r.intent = "shipping_exception" => facts \cap {"signed", "recent_update"} = {}
  /\ r.intent = "address_change" => "to_ship" \in facts
=============================================================================
