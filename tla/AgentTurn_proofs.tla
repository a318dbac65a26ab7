-------------------------- MODULE AgentTurn_proofs --------------------------
(***************************************************************************)
(* Proofs about one turn: whatever the language model says and the tools   *)
(* answer, the agents act as planned, refunds are cleared first, promises  *)
(* are kept, and nothing follows the decision not to act.                  *)
(*                                                                         *)
(* None of it is inductive.  The results alone do not say why a tool was   *)
(* called, and the plan is rebuilt from them after every one: so the       *)
(* invariant has what route and results say of each other (TurnInv), that  *)
(* every task is where the results put it (PlanInv), and what is known of  *)
(* the one task that runs, before and after its agent (CallInv,            *)
(* ObserveInv).  The key is OwnerAgrees: the agent, which reads the shared *)
(* state and not the plan, comes to the tool of the task it was given.     *)
(* From it a tool is called once (NotCalledYet), which is what the order   *)
(* of the chain, the one application and the budget rest on.               *)
(***************************************************************************)
EXTENDS AgentTurn, FiniteSetTheorems, TLAPS

RouteState ==
  [intent : Intent, action : Action, topic : Topic, order : BOOLEAN, blocked : BOOLEAN,
   clarify : BOOLEAN, policy : BOOLEAN, refund : BOOLEAN, risk : BOOLEAN,
   review : BOOLEAN, ticket : BOOLEAN, handoff : BOOLEAN]

TaskState ==
  {"absent", "pending", "running", "completed", "failed", "skipped", "waiting", "stopped"}

TypeOK ==
  /\ pc \in {"idle", "plan", "pick", "call", "observe", "check", "done"}
  /\ tasks \in [Tool -> TaskState]
  /\ results \in Seq(Result)
  /\ answer \in Result \cup {None}
  /\ steps \in 0..MaxSteps
  /\ stopped \in Reason \cup {None}
  /\ pc # "idle" => request \in Request \cup Unrouted /\ route \in RouteState
  /\ pc \in {"idle", "plan"} =>
       results = << >> /\ tasks = NoTask /\ stopped = None /\ steps = 0

-----------------------------------------------------------------------------
(* What request, route and results have to do with each other.             *)

\* What the route asks for, it has an order for; a refund is asked for together
\* with all that clears it, and until the decision not to act.
RouteInv ==
  /\ route.refund => RequiresRefund(request) /\ route.order /\ route.policy
                     /\ route.risk /\ route.ticket
  /\ route.refund /\ request.signals \cap {"bypass", "handoff"} # {} => route.review
  /\ route.risk \/ route.ticket => route.order
  /\ RequiresRefund(request) /\ ~Called("refund_decision") => route.refund
  /\ Called("refund_decision") =>
       ~(route.refund \/ route.risk \/ route.ticket \/ route.review \/ route.handoff)

\* A tool answers once in a turn.
OneResultEach ==
  \A i, j \in DOMAIN results :
    results[i].tool = results[j].tool /\ results[i].tool \in Tool => i = j

\* An application that was refused for want of a review.
ReviewNeeded(r) == r.tool = "refund_apply" /\ "review_required" \in r.facts

\* What failure and success of a result say of its facts.
FactsInv == \A i \in DOMAIN results :
  /\ ReviewNeeded(results[i]) => ~results[i].ok
  /\ results[i].tool = "ticket_decision" => ~results[i].ok
  /\ "pending_manual_review" \in results[i].facts => results[i].ok
  /\ results[i].tool = "order_lookup" /\ route.refund => results[i].facts \cap RefundFact = {}

\* The later tool was called after the other one.
Follows(tool, later) ==
  \A j \in DOMAIN results : results[j].tool = later =>
    \E i \in 1 .. j - 1 : results[i].tool = tool

\* The order in which the tools have answered (what validate_tool_chain checks).
ChainInv ==
  /\ Called("order_lookup") => route.order
  /\ route.order => Follows("order_lookup", "policy_search")
  /\ Follows("order_lookup", "risk_check")
  /\ Called("risk_check") => Follows("risk_check", "create_manual_review")
  /\ Called("create_manual_review") /\ route.risk => Called("risk_check")
  /\ Called("create_ticket") \/ Called("ticket_decision") =>
       Called("order_lookup") /\ (route.policy => Called("policy_search"))
  /\ ~(Called("create_ticket") /\ Called("ticket_decision"))
  /\ Failed("order_lookup") =>
       ~Called("policy_search") /\ ~Called("ticket_decision") /\ ~Called("create_ticket")
  /\ Failed("policy_search") => ~Called("create_ticket")

\* Why a review was opened, a ticket created, and a refund decided against.
PlanStepsInv ==
  /\ Called("create_manual_review") /\ route.refund => ReviewAsked \/ Held("refund_apply")
  /\ Called("create_ticket") /\ RequiresRefund(request) =>
       Held("refund_apply") /\ ~Called("refund_decision") /\ ~NeedsManualReview
  /\ Called("refund_decision") =>
       \/ Called("create_manual_review")
       \/ "review_required" \notin Facts("risk_check") \cup Facts("refund_apply")

\* What route and results say of each other.
TurnInv ==
  /\ RouteInv /\ OneResultEach /\ FactsInv /\ ChainInv /\ PlanStepsInv
  /\ RefundOnlyWhenCleared /\ NothingAfterDecision

-----------------------------------------------------------------------------
(* What the plan has to do with them.                                      *)

\* A result that lets the turn go on.
Excused(r) == r.ok \/ ReviewNeeded(r)

\* A task is where the results and the route put it.
Planned(t) ==
  \/ tasks[t] = "completed" /\ Held(t)
  \/ /\ tasks[t] \in {"pending", "running"} /\ ~Held(t) /\ Required(t)
     /\ ~(ReviewBlocksRefund /\ t \in {"refund_apply", "create_ticket"})
  \/ tasks[t] \in {"absent", "skipped"} /\ ~Held(t) /\ ~Required(t)
  \/ /\ tasks[t] = "waiting" /\ ~Held(t) /\ Required(t)
     /\ ReviewBlocksRefund /\ t \in {"refund_apply", "create_ticket"}

\* The plan, while it is carried out.
PlanInv ==
  /\ stopped = None
  /\ \A i \in DOMAIN results : Excused(results[i])
  /\ \A t \in Tool : Planned(t)

IsRunning(t) == tasks[t] = "running" /\ \A u \in Tool \ {t} : tasks[u] # "running"

\* One task runs, and what it depends on is completed.
CallInv == \E t \in Tool :
  /\ IsRunning(t)
  /\ \A u \in DependsOn(t) : tasks[u] = "completed"

\* The running task's agent has called its tool, or the ticket's rules have refused.
ObserveInv == \E t \in Tool :
  /\ IsRunning(t)
  /\ answer \in Result
  /\ \/ answer.tool = t
     \/ t = "create_ticket" /\ answer.tool = "ticket_decision" /\ ~answer.ok
  /\ answer.tool = t => Called(t) /\ (Held(t) <=> answer.ok)
  /\ \A u \in Tool \ {t} :
       /\ tasks[u] \in {"absent", "pending", "completed", "skipped", "waiting"}
       /\ tasks[u] = "completed" <=> Held(u)
  /\ Excused(answer) => stopped = None /\ \A i \in DOMAIN results : Excused(results[i])
  /\ route.order => Called("order_lookup")

\* PromisesKept, without its premise.
Promises ==
  /\ (\/ "review_required" \in Facts("refund_apply") \cup Facts("risk_check")
      \/ "pending_manual_review" \in Facts("refund_apply")) => Held("create_manual_review")
  /\ RequiresRefund(request) =>
       (Held("create_ticket") <=> Held("refund_apply") /\ ~Called("refund_decision"))

StageInv ==
  /\ pc # "idle" => TurnInv
  /\ pc \in {"pick", "call"} => PlanInv
  /\ pc = "pick" => \A t \in Tool : tasks[t] # "running"
  /\ pc = "call" => CallInv
  /\ pc = "observe" => ObserveInv
  /\ pc \in {"check", "done"} /\ stopped = None => Promises

\* A started task calls a tool that was not called before.
CalledTools == {t \in Tool : Called(t)}

BudgetInv ==
  /\ pc = "pick" => steps <= Cardinality(CalledTools)
  /\ pc = "call" => steps <= Cardinality(CalledTools) + 1
  /\ pc = "observe" /\ answer.tool \in Tool => steps <= Cardinality(CalledTools)
  /\ stopped = "invalid_tool_chain" => pc = "done"
  /\ pc = "check" /\ route.order => Called("order_lookup") \/ tasks["order_lookup"] = "failed"
  /\ OwnersFollowThePlan

-----------------------------------------------------------------------------
(* Tools and their order.                                                  *)

LEMMA Tools ==
  /\ Tool = {"order_lookup", "policy_search", "risk_check", "create_manual_review",
             "refund_apply", "create_ticket", "transfer_to_human"}
  /\ Len(TaskOrder) = 7 /\ DOMAIN TaskOrder = 1..7
<1>1. DOMAIN TaskOrder = 1..7 /\ Len(TaskOrder) = 7
  BY DEF TaskOrder
<1>2. Tool = {TaskOrder[i] : i \in 1..7}
  BY <1>1 DEF Tool, ToSet
<1> QED
  BY <1>1, <1>2 DEF TaskOrder

LEMMA BeforeIs ==
  /\ Before("order_lookup") = {}
  /\ Before("policy_search") = {"order_lookup"}
  /\ Before("risk_check") = {"order_lookup", "policy_search"}
  /\ Before("create_manual_review") = {"order_lookup", "policy_search", "risk_check"}
  /\ Before("refund_apply") =
       {"order_lookup", "policy_search", "risk_check", "create_manual_review"}
  /\ Before("create_ticket") =
       {"order_lookup", "policy_search", "risk_check", "create_manual_review", "refund_apply"}
  /\ Before("transfer_to_human") =
       {"order_lookup", "policy_search", "risk_check", "create_manual_review", "refund_apply",
        "create_ticket"}
<1>1. DOMAIN TaskOrder = 1..7 /\ Len(TaskOrder) = 7
  BY Tools
<1>2. /\ TaskOrder[1] = "order_lookup" /\ TaskOrder[2] = "policy_search"
      /\ TaskOrder[3] = "risk_check" /\ TaskOrder[4] = "create_manual_review"
      /\ TaskOrder[5] = "refund_apply" /\ TaskOrder[6] = "create_ticket"
      /\ TaskOrder[7] = "transfer_to_human"
  BY DEF TaskOrder
<1>3. \A k \in 1..7 : Before(TaskOrder[k]) = {TaskOrder[i] : i \in 1..k-1}
  BY <1>1, <1>2 DEF Before
<1>4. /\ 1..1-1 = {} /\ 1..2-1 = {1} /\ 1..3-1 = {1,2} /\ 1..4-1 = {1,2,3}
      /\ 1..5-1 = {1,2,3,4} /\ 1..6-1 = {1,2,3,4,5} /\ 1..7-1 = {1,2,3,4,5,6}
  OBVIOUS
<1> QED
  BY <1>2, <1>3, <1>4

-----------------------------------------------------------------------------
(* What a result adds to the results.                                      *)

LEMMA HeldOnce ==
  ASSUME NEW s \in Seq(Result), NEW t,
         \A i, j \in DOMAIN s : s[i].tool = t /\ s[j].tool = t => i = j
  PROVE  (\E i \in DOMAIN s : /\ s[i].tool = t /\ s[i].ok
                              /\ \A j \in i + 1 .. Len(s) : s[j].tool # t)
         <=> \E i \in DOMAIN s : s[i].tool = t /\ s[i].ok
BY DOMAIN s = 1..Len(s), Len(s) \in Nat

\* A field of the state and the one result of its tool.
LEMMA HeldIs ==
  ASSUME results \in Seq(Result), OneResultEach, NEW t \in Tool
  PROVE  /\ Held(t) <=> \E i \in DOMAIN results : results[i].tool = t /\ results[i].ok
         /\ Held(t) => Called(t) /\ ~Failed(t)
         /\ Called(t) /\ ~Held(t) => Failed(t)
<1>1. Held(t) <=> \E i \in DOMAIN results : results[i].tool = t /\ results[i].ok
  BY HeldOnce DEF Held, OneResultEach
<1> QED
  BY <1>1 DEF Called, Failed, OneResultEach

Decided == Yields("refund_decision", {})

LEMMA Longer ==
  ASSUME NEW s \in Seq(Result), NEW r \in Result,
         NEW l, l = Append(s, r) \/ l = s \o <<r, Decided>>
  PROVE  /\ l \in Seq(Result)
         /\ DOMAIN s = 1..Len(s) /\ Len(s) \in Nat
         /\ \/ DOMAIN l = 1..Len(s) + 1 /\ Len(l) = Len(s) + 1
            \/ DOMAIN l = 1..Len(s) + 2 /\ Len(l) = Len(s) + 2 /\ l[Len(s) + 2] = Decided
         /\ \A i \in 1..Len(s) : l[i] = s[i]
         /\ l[Len(s) + 1] = r
<1>1. Decided \in Result
  BY DEF Decided, Yields, Result
<1>2. CASE l = Append(s, r)
  BY <1>2
<1>3. CASE l = s \o <<r, Decided>>
  <2>1. <<r, Decided>> \in Seq(Result) /\ Len(<<r, Decided>>) = 2
    BY <1>1
  <2>2. l \in Seq(Result) /\ Len(l) = Len(s) + 2
    BY <1>3, <2>1
  <2>3. \A i \in 1..Len(s) : l[i] = s[i]
    BY <1>3, <2>1
  <2>4. l[Len(s) + 1] = r /\ l[Len(s) + 2] = Decided
    BY <1>3, <2>1
  <2> QED
    BY <2>2, <2>3, <2>4
<1> QED
  BY <1>2, <1>3

\* The result of a tool that was not called yet, alone or with the decision.
Heard(r) ==
  \/ results' = Append(results, r)
  \/ results' = results \o <<r, Decided>>

LEMMA HeardResults ==
  ASSUME results \in Seq(Result), NEW r \in Result, Heard(r)
  PROVE  /\ results' \in Seq(Result)
         /\ DOMAIN results = 1..Len(results) /\ Len(results) \in Nat
         /\ \/ DOMAIN results' = 1..Len(results) + 1
            \/ /\ DOMAIN results' = 1..Len(results) + 2
               /\ results'[Len(results) + 2] = Decided
         /\ \A i \in 1..Len(results) : results'[i] = results[i]
         /\ results'[Len(results) + 1] = r
BY Longer DEF Heard

\* Every result is an old one, the new one, or the decision.
LEMMA HeardAt ==
  ASSUME results \in Seq(Result), NEW r \in Result, Heard(r)
  PROVE  /\ \A i \in DOMAIN results' :
              \/ i \in DOMAIN results /\ results'[i] = results[i]
              \/ i = Len(results) + 1 /\ results'[i] = r
              \/ i = Len(results) + 2 /\ results'[i] = Decided
         /\ \A i \in DOMAIN results : i \in DOMAIN results' /\ results'[i] = results[i]
         /\ Len(results) + 1 \in DOMAIN results' /\ results'[Len(results) + 1] = r
         /\ Len(results) + 1 \notin DOMAIN results
BY HeardResults

LEMMA HeardOnce ==
  ASSUME results \in Seq(Result), OneResultEach, NEW r \in Result, Heard(r), ~Called(r.tool)
  PROVE  OneResultEach'
<1>1. \A i \in DOMAIN results : results[i].tool # r.tool
  BY DEF Called
<1>2. Decided.tool = "refund_decision" /\ "refund_decision" \notin Tool
  BY Tools DEF Decided, Yields
<1> QED
  <2> SUFFICES ASSUME NEW i \in DOMAIN results', NEW j \in DOMAIN results',
                      results'[i].tool = results'[j].tool, results'[i].tool \in Tool
               PROVE  i = j
    BY DEF OneResultEach
  <2>1. results'[i] # Decided /\ results'[j] # Decided
    BY <1>2
  <2>2. CASE i \in DOMAIN results /\ results'[i] = results[i]
    <3>1. j \in DOMAIN results /\ results'[j] = results[j]
      BY <1>1, <2>1, <2>2, HeardAt
    <3> QED
      BY <2>2, <3>1 DEF OneResultEach
  <2>3. CASE i = Len(results) + 1 /\ results'[i] = r
    BY <1>1, <2>1, <2>3, HeardAt
  <2> QED
    BY <2>1, <2>2, <2>3, HeardAt

LEMMA HeardCalls ==
  ASSUME results \in Seq(Result), NEW r \in Result, Heard(r)
  PROVE  /\ \A t : t # "refund_decision" => (Called(t)' <=> Called(t) \/ t = r.tool)
         /\ \A t : t # "refund_decision" => (Failed(t)' <=> Failed(t) \/ (t = r.tool /\ ~r.ok))
         /\ Called("refund_decision") => Called("refund_decision")'
         /\ results' = Append(results, r) /\ r.tool # "refund_decision" =>
              (Called("refund_decision")' <=> Called("refund_decision"))
         /\ results' = results \o <<r, Decided>> => Called("refund_decision")'
<1>1. Decided.tool = "refund_decision"
  BY DEF Decided, Yields
<1>2. ASSUME NEW t, t # "refund_decision"
      PROVE  Called(t)' <=> Called(t) \/ t = r.tool
  BY <1>1, <1>2, HeardAt DEF Called
<1>3. ASSUME NEW t, t # "refund_decision"
      PROVE  Failed(t)' <=> Failed(t) \/ (t = r.tool /\ ~r.ok)
  <2>1. ASSUME Failed(t)' PROVE Failed(t) \/ (t = r.tool /\ ~r.ok)
    <3>1. PICK i \in DOMAIN results' : results'[i].tool = t /\ ~results'[i].ok
      BY <2>1 DEF Failed
    <3>2. \/ i \in DOMAIN results /\ results'[i] = results[i]
          \/ results'[i] = r
      BY <1>1, <1>3, <3>1, HeardAt
    <3>3. CASE results'[i] = r
      BY <3>1, <3>3
    <3>4. CASE i \in DOMAIN results /\ results'[i] = results[i]
      BY <3>1, <3>4 DEF Failed
    <3> QED
      BY <3>2, <3>3, <3>4
  <2>2. ASSUME Failed(t) PROVE Failed(t)'
    <3>1. PICK i \in DOMAIN results : results[i].tool = t /\ ~results[i].ok
      BY <2>2 DEF Failed
    <3>2. i \in DOMAIN results' /\ results'[i] = results[i]
      BY HeardAt
    <3> QED
      BY <3>1, <3>2 DEF Failed
  <2>3. ASSUME t = r.tool, ~r.ok PROVE Failed(t)'
    <3>1. Len(results) + 1 \in DOMAIN results' /\ results'[Len(results) + 1] = r
      BY HeardAt
    <3> QED
      BY <2>3, <3>1 DEF Failed
  <2> QED
    BY <2>1, <2>2, <2>3
<1>4. Called("refund_decision") => Called("refund_decision")'
  BY HeardResults DEF Called
<1>5. ASSUME results' = Append(results, r), r.tool # "refund_decision"
      PROVE  Called("refund_decision")' <=> Called("refund_decision")
  <2>1. DOMAIN results' = 1..Len(results) + 1
    BY <1>5, HeardResults
  <2> QED
    BY <1>5, <2>1, HeardResults DEF Called
<1>6. ASSUME results' = results \o <<r, Decided>>
      PROVE  Called("refund_decision")'
  <2>1. <<r, Decided>> \in Seq({r, Decided}) /\ Len(<<r, Decided>>) = 2
    OBVIOUS
  <2>2. Len(results') = Len(results) + 2
    BY <1>6, <2>1
  <2>3. DOMAIN results' = 1..Len(results) + 2
    BY <2>2, HeardResults
  <2> QED
    BY <1>1, <2>3, HeardResults DEF Called
<1> QED
  BY <1>2, <1>3, <1>4, <1>5, <1>6

LEMMA HeardHeld ==
  ASSUME results \in Seq(Result), OneResultEach, NEW r \in Result, Heard(r), ~Called(r.tool),
         NEW t \in Tool
  PROVE  /\ Held(t)' <=> Held(t) \/ (t = r.tool /\ r.ok)
         /\ Facts(t)' = IF t = r.tool THEN r.facts ELSE Facts(t)
<1>1. Decided.tool # t
  BY Tools DEF Decided, Yields
<1>2. \A i \in DOMAIN results : results[i].tool # r.tool
  BY DEF Called
<1>3. Held(t)' <=> \E i \in DOMAIN results' : results'[i].tool = t /\ results'[i].ok
  BY HeldOnce, HeardOnce, HeardResults DEF Held, OneResultEach
<1>4. Held(t) <=> \E i \in DOMAIN results : results[i].tool = t /\ results[i].ok
  BY HeldIs
<1>5. Held(t)' <=> Held(t) \/ (t = r.tool /\ r.ok)
  <2>1. ASSUME Held(t)' PROVE Held(t) \/ (t = r.tool /\ r.ok)
    <3>1. PICK i \in DOMAIN results' : results'[i].tool = t /\ results'[i].ok
      BY <1>3, <2>1
    <3>2. \/ i \in DOMAIN results /\ results'[i] = results[i]
          \/ results'[i] = r
      BY <1>1, <3>1, HeardAt
    <3>3. CASE results'[i] = r
      BY <3>1, <3>3
    <3>4. CASE i \in DOMAIN results /\ results'[i] = results[i]
      BY <1>4, <3>1, <3>4
    <3> QED
      BY <3>2, <3>3, <3>4
  <2>2. ASSUME Held(t) PROVE Held(t)'
    <3>1. PICK i \in DOMAIN results : results[i].tool = t /\ results[i].ok
      BY <1>4, <2>2
    <3>2. i \in DOMAIN results' /\ results'[i] = results[i]
      BY HeardAt
    <3> QED
      BY <1>3, <3>1, <3>2
  <2>3. ASSUME t = r.tool, r.ok PROVE Held(t)'
    <3>1. Len(results) + 1 \in DOMAIN results' /\ results'[Len(results) + 1] = r
      BY HeardAt
    <3> QED
      BY <1>3, <2>3, <3>1
  <2> QED
    BY <2>1, <2>2, <2>3
<1>6. CASE t = r.tool
  <2>1. {results'[i].facts : i \in {n \in DOMAIN results' : results'[n].tool = t}} = {r.facts}
    BY <1>1, <1>2, <1>6, HeardResults
  <2> QED
    BY <1>5, <1>6, <2>1 DEF Facts
<1>7. CASE t # r.tool
  <2>1. {n \in DOMAIN results' : results'[n].tool = t}
          = {n \in DOMAIN results : results[n].tool = t}
    BY <1>1, <1>7, HeardResults
  <2>2. {results'[i].facts : i \in {n \in DOMAIN results' : results'[n].tool = t}}
          = {results[i].facts : i \in {n \in DOMAIN results : results[n].tool = t}}
    BY <2>1, HeardResults
  <2> QED
    BY <1>5, <1>7, <2>2 DEF Facts
<1> QED
  BY <1>6, <1>7

LEMMA HeardOrder ==
  ASSUME results \in Seq(Result), NEW r \in Result, Heard(r), NEW a, NEW b, b # "refund_decision"
  PROVE  /\ Follows(a, b) /\ b # r.tool => Follows(a, b)'
         /\ Called(a) /\ ~Called(r.tool) /\ b = r.tool => Follows(a, b)'
<1>1. Decided.tool # b
  BY DEF Decided, Yields
<1>2. ASSUME Follows(a, b), b # r.tool PROVE Follows(a, b)'
  <2> SUFFICES ASSUME NEW j \in DOMAIN results', results'[j].tool = b
               PROVE  \E i \in 1 .. j - 1 : results'[i].tool = a
    BY DEF Follows
  <2>1. j \in DOMAIN results /\ results'[j] = results[j]
    BY <1>1, <1>2, HeardAt
  <2>2. PICK i \in 1 .. j - 1 : results[i].tool = a
    BY <1>2, <2>1 DEF Follows
  <2>3. results'[i] = results[i]
    BY <2>1, <2>2, HeardResults
  <2> QED
    BY <2>2, <2>3
<1>3. ASSUME Called(a), ~Called(r.tool), b = r.tool PROVE Follows(a, b)'
  <2>1. PICK i \in 1..Len(results) : results[i].tool = a
    BY <1>3, HeardResults DEF Called
  <2>2. ASSUME NEW j \in DOMAIN results', results'[j].tool = b PROVE j = Len(results) + 1
    <3>1. ~(j \in DOMAIN results /\ results'[j] = results[j])
      BY <1>3, <2>2 DEF Called
    <3>2. results'[j] # Decided
      BY <1>1, <2>2
    <3> QED
      BY <3>1, <3>2, HeardAt
  <2>3. i \in 1..Len(results) + 1 - 1 /\ results'[i].tool = a
    BY <2>1, HeardResults
  <2> QED
    BY <2>2, <2>3 DEF Follows
<1> QED
  BY <1>2, <1>3

-----------------------------------------------------------------------------
(* Routes.                                                                 *)

LEMMA Requests ==
  ASSUME NEW q \in Request \cup Unrouted
  PROVE  /\ q.intent \in Intent /\ q.action \in Action /\ q.topic \in Topic
         /\ q.order \in BOOLEAN /\ q.address \in BOOLEAN /\ q.signals \subseteq Signal
         /\ q.kind # "ordinary" => q.intent = "general_support"
BY DEF Request, Unrouted, Intent, Action, Topic, Signal

LEMMA RequirementTypes ==
  ASSUME NEW q
  PROVE  /\ RequiresPolicy(q) \in BOOLEAN /\ RequiresRefund(q) \in BOOLEAN
         /\ RequiresRisk(q) \in BOOLEAN /\ RequiresReview(q) \in BOOLEAN
         /\ RequiresTicket(q) \in BOOLEAN /\ RequiresHandoff(q) \in BOOLEAN
         /\ RequiresOrder(q) \in BOOLEAN
BY DEF RequiresPolicy, RequiresRefund, RequiresRisk, RequiresReview, RequiresTicket,
       RequiresHandoff, RequiresOrder, Says

LEMMA RouteToolsType ==
  ASSUME NEW q \in Request \cup Unrouted
  PROVE  RouteTools(q) \in RouteState
<1>1. Decision(q) \in RouteState
  BY Requests, RequirementTypes DEF Decision, RouteState
<1>2. Unplanned(q) \in RouteState
  BY Requests DEF Unplanned, RouteState
<1> QED
  BY <1>1, <1>2 DEF RouteTools

LEMMA RouteType ==
  ASSUME NEW q \in Request \cup Unrouted
  PROVE  Route(q) \in RouteState
<1> DEFINE r == RouteTools(q)
<1>1. r \in RouteState
  BY RouteToolsType
<1> HIDE DEF r
<1>2. (r.clarify \/ (~r.blocked /\ MissingSlots(q, r) # {})) \in BOOLEAN
  OBVIOUS
<1>3. [r EXCEPT !.clarify = @ \/ (~r.blocked /\ MissingSlots(q, r) # {})] \in RouteState
  BY <1>1, <1>2 DEF RouteState
<1> QED
  BY <1>3 DEF Route, r

\* The flags a route starts with.
LEMMA RouteFlags ==
  ASSUME NEW q \in Request \cup Unrouted
  PROVE  /\ Route(q).order = RouteTools(q).order /\ Route(q).policy = RouteTools(q).policy
         /\ Route(q).refund = RouteTools(q).refund /\ Route(q).risk = RouteTools(q).risk
         /\ Route(q).review = RouteTools(q).review /\ Route(q).ticket = RouteTools(q).ticket
<1> DEFINE r == RouteTools(q)
<1>1. r \in RouteState
  BY RouteToolsType
<1> HIDE DEF r
<1>2. LET s == [r EXCEPT !.clarify = @ \/ (~r.blocked /\ MissingSlots(q, r) # {})] IN
      /\ s.order = r.order /\ s.policy = r.policy /\ s.refund = r.refund
      /\ s.risk = r.risk /\ s.review = r.review /\ s.ticket = r.ticket
  BY <1>1 DEF RouteState
<1> QED
  BY <1>2 DEF Route, r

\* An application needs an order, a policy, a risk and a ticket; to go round
\* the review asks for one.
LEMMA RouteIsCoherent ==
  ASSUME NEW q \in Request \cup Unrouted
  PROVE  /\ Route(q).refund <=> RequiresRefund(q)
         /\ Route(q).refund =>
              Route(q).order /\ Route(q).policy /\ Route(q).risk /\ Route(q).ticket
         /\ Route(q).refund /\ q.signals \cap {"bypass", "handoff"} # {} => Route(q).review
         /\ Route(q).risk \/ Route(q).ticket => Route(q).order
<1>1. CASE q.kind = "ordinary"
  <2>1. RouteTools(q) = Decision(q)
    BY <1>1 DEF RouteTools
  <2>2. /\ Route(q).order = q.order /\ Route(q).policy = RequiresPolicy(q)
        /\ Route(q).refund = RequiresRefund(q) /\ Route(q).risk = RequiresRisk(q)
        /\ Route(q).review = RequiresReview(q) /\ Route(q).ticket = RequiresTicket(q)
    BY <2>1, RouteFlags DEF Decision
  <2>3. RequiresRefund(q) =>
          /\ Executes(q) /\ q.order /\ RequiresPolicy(q) /\ RequiresRisk(q) /\ RequiresTicket(q)
    BY DEF RequiresRefund, RequiresPolicy, RequiresRisk, RequiresTicket
  <2>4. Executes(q) /\ q.signals \cap {"bypass", "handoff"} # {} => RequiresReview(q)
    BY DEF RequiresReview, Says
  <2>5. RequiresRisk(q) \/ RequiresTicket(q) => q.order
    BY DEF RequiresRisk, RequiresTicket
  <2> QED
    BY <2>2, <2>3, <2>4, <2>5, RequirementTypes
<1>2. CASE q.kind # "ordinary"
  <2>1. RouteTools(q) = Unplanned(q)
    BY <1>2 DEF RouteTools
  <2>2. ~Route(q).order /\ ~Route(q).refund /\ ~Route(q).risk /\ ~Route(q).ticket
    BY <2>1, RouteFlags DEF Unplanned
  <2>3. ~RequiresRefund(q)
    BY <1>2, Requests DEF RequiresRefund
  <2> QED
    BY <2>2, <2>3
<1> QED
  BY <1>1, <1>2

-----------------------------------------------------------------------------
(* Steps that leave request, route and results alone.                      *)

LEMMA SameKnowledge ==
  ASSUME UNCHANGED <<request, route, results>>
  PROVE  /\ \A t : /\ (Held(t)' <=> Held(t)) /\ Facts(t)' = Facts(t)
                   /\ (Failed(t)' <=> Failed(t)) /\ (Called(t)' <=> Called(t))
         /\ (ReviewAsked' <=> ReviewAsked) /\ (NeedsManualReview' <=> NeedsManualReview)
         /\ (ReviewBlocksRefund' <=> ReviewBlocksRefund)
<1>1. \A t : Held(t)' <=> Held(t)
  BY DEF Held
<1>2. \A t : Facts(t)' = Facts(t)
  BY DEF Facts
<1>3. \A t : Failed(t)' <=> Failed(t)
  BY DEF Failed
<1>4. \A t : Called(t)' <=> Called(t)
  BY DEF Called
<1>5. ReviewAsked' <=> ReviewAsked
  BY <1>2, <1>3 DEF ReviewAsked
<1>6. NeedsManualReview' <=> NeedsManualReview
  BY <1>1, <1>2, <1>5 DEF NeedsManualReview
<1>7. ReviewBlocksRefund' <=> ReviewBlocksRefund
  BY <1>1, <1>5 DEF ReviewBlocksRefund
<1> QED
  BY <1>1, <1>2, <1>3, <1>4, <1>5, <1>6, <1>7

LEMMA SameRequirements ==
  ASSUME UNCHANGED <<request, route, results>>
  PROVE  \A t \in Tool : Required(t)' <=> Required(t)
BY SameKnowledge, Tools DEF Required

LEMMA SameTurn ==
  ASSUME UNCHANGED <<request, route, results>>, TurnInv
  PROVE  TurnInv'
<1>1. RouteInv'
  BY SameKnowledge DEF TurnInv, RouteInv
<1>2. OneResultEach'
  BY DEF TurnInv, OneResultEach
<1>3. FactsInv'
  BY DEF TurnInv, FactsInv, ReviewNeeded
<1>4. \A a, b : Follows(a, b)' <=> Follows(a, b)
  BY DEF Follows
<1>5. ChainInv'
  BY <1>4, SameKnowledge DEF TurnInv, ChainInv
<1>6. PlanStepsInv'
  BY SameKnowledge DEF TurnInv, PlanStepsInv
<1>7. RefundOnlyWhenCleared'
  BY DEF TurnInv, RefundOnlyWhenCleared, Earlier
<1>8. NothingAfterDecision'
  BY SameKnowledge DEF TurnInv, NothingAfterDecision
<1> QED
  BY <1>1, <1>2, <1>3, <1>5, <1>6, <1>7, <1>8 DEF TurnInv

-----------------------------------------------------------------------------
(* The owner of the running task chooses the tool of the task.             *)

LEMMA RunningIs ==
  ASSUME NEW t \in Tool, IsRunning(t)
  PROVE  Running = t
BY DEF IsRunning, Running

\* A tool is required as the route says; a review that was needed is required.
LEMMA Requirements ==
  ASSUME TurnInv
  PROVE  /\ Required("order_lookup") <=> route.order
         /\ Required("policy_search") <=> route.policy
         /\ Required("risk_check") <=> route.risk
         /\ Required("refund_apply") <=> route.refund
         /\ Required("create_ticket") <=> route.ticket
         /\ Required("transfer_to_human") <=> route.handoff
         /\ NeedsManualReview => Required("create_manual_review")
         /\ Required("create_manual_review") /\ ~Held("create_manual_review") =>
              NeedsManualReview /\ route.order
<1>1. NeedsManualReview => route.order
  BY DEF NeedsManualReview
<1>2. route.order /\ route.review /\ ~Held("create_manual_review") => NeedsManualReview
  BY DEF NeedsManualReview, ReviewAsked
<1> QED
  BY <1>1, <1>2 DEF Required

\* A ready task of the plan: what comes before it has been done, or waits.
LEMMA Prepared ==
  ASSUME TurnInv, PlanInv, NEW t \in Tool, IsRunning(t),
         \A u \in DependsOn(t) : tasks[u] = "completed"
  PROVE  /\ Required(t) /\ ~Held(t)
         /\ ~(ReviewBlocksRefund /\ t \in {"refund_apply", "create_ticket"})
         /\ \A u \in Before(t) : Required(u) =>
              Held(u) \/ (u \in {"refund_apply", "create_ticket"} /\ ReviewBlocksRefund)
<1>1. Before(t) \subseteq Tool /\ t \notin Before(t)
  BY Tools, BeforeIs
<1>2. tasks[t] = "running" /\ Planned(t)
  BY DEF IsRunning, PlanInv
<1>3. ASSUME NEW u \in Before(t), Required(u)
      PROVE  Held(u) \/ (u \in {"refund_apply", "create_ticket"} /\ ReviewBlocksRefund)
  <2>1. Planned(u) /\ tasks[u] # "running"
    BY <1>1 DEF PlanInv, IsRunning
  <2>2. CASE tasks[u] = "pending"
    BY <1>3, <2>2 DEF DependsOn
  <2> QED
    BY <1>3, <2>1, <2>2 DEF Planned
<1> QED
  BY <1>2, <1>3 DEF Planned

\* While the plan is carried out, what failed is an application refused for review.
LEMMA FailuresAreRefusals ==
  ASSUME PlanInv, NEW u, Failed(u)
  PROVE  u = "refund_apply" /\ "review_required" \in Facts("refund_apply")
<1>1. PICK i \in DOMAIN results : results[i].tool = u /\ ~results[i].ok
  BY DEF Failed
<1>2. ReviewNeeded(results[i])
  BY <1>1 DEF PlanInv, Excused
<1> QED
  BY <1>1, <1>2 DEF ReviewNeeded, Facts

\* An application that waits for its review was accepted.
LEMMA WaitingIsHeld ==
  ASSUME results \in Seq(Result), TurnInv, "pending_manual_review" \in Facts("refund_apply")
  PROVE  Held("refund_apply")
<1>1. PICK i \in DOMAIN results : /\ results[i].tool = "refund_apply"
                                  /\ "pending_manual_review" \in results[i].facts
  BY DEF Facts
<1>2. results[i].ok
  BY <1>1 DEF TurnInv, FactsInv
<1> QED
  BY <1>1, <1>2, HeldIs, Tools DEF TurnInv

\* No task runs whose tool has answered: a refused application is followed by
\* the review, and then waits.
LEMMA NotCalledYet ==
  ASSUME results \in Seq(Result), TurnInv, PlanInv, NEW t \in Tool, IsRunning(t),
         \A u \in DependsOn(t) : tasks[u] = "completed"
  PROVE  ~Called(t)
<1> SUFFICES ASSUME Called(t) PROVE FALSE
  OBVIOUS
<1>1. ~Held(t) /\ Required(t)
  BY Prepared
<1>2. Failed(t)
  BY <1>1, HeldIs DEF TurnInv
<1>3. t = "refund_apply" /\ "review_required" \in Facts("refund_apply")
  BY <1>2, FailuresAreRefusals
<1>4. route.refund /\ route.order
  BY <1>1, <1>3, Requirements DEF TurnInv, RouteInv
<1>5. ReviewAsked
  BY <1>2, <1>3 DEF ReviewAsked
<1>6. CASE Held("create_manual_review")
  BY <1>1, <1>3, <1>4, <1>5, <1>6, Prepared DEF ReviewBlocksRefund
<1>7. CASE ~Held("create_manual_review")
  <2>1. Required("create_manual_review")
    BY <1>4, <1>5, <1>7, Requirements DEF NeedsManualReview
  <2>2. Held("create_manual_review")
    BY <1>3, <2>1, BeforeIs, Prepared
  <2> QED
    BY <1>7, <2>2
<1> QED
  BY <1>6, <1>7

\* Once the order is found, and the risk where it counts, no review is needed
\* when a task after the review runs, and none blocks the refund.
LEMMA NoReviewPending ==
  ASSUME results \in Seq(Result), TurnInv, PlanInv, NEW t \in Tool, IsRunning(t),
         \A u \in DependsOn(t) : tasks[u] = "completed",
         t \in {"refund_apply", "create_ticket", "transfer_to_human"}
  PROVE  /\ ~NeedsManualReview
         /\ ReviewBlocksAgent <=> ReviewBlocksRefund
<1>1. ~NeedsManualReview
  <2> SUFFICES ASSUME NeedsManualReview PROVE FALSE
    OBVIOUS
  <2>1. Required("create_manual_review")
    BY Requirements
  <2>2. Held("create_manual_review")
    BY <2>1, BeforeIs, Prepared
  <2> QED
    BY <2>2 DEF NeedsManualReview
<1>2. "pending_manual_review" \in Facts("refund_apply") => Held("refund_apply")
  BY WaitingIsHeld
<1> QED
  BY <1>1, <1>2 DEF ReviewBlocksAgent, ReviewBlocksRefund

LEMMA OwnerAgrees ==
  ASSUME results \in Seq(Result), TurnInv, PlanInv, NEW t \in Tool, IsRunning(t),
         \A u \in DependsOn(t) : tasks[u] = "completed"
  PROVE  OwnerTool = t
<1>1. Required(t) /\ ~Held(t)
  BY Prepared
<1>2. Running = t
  BY RunningIs
<1>3. CASE t = "policy_search"
  BY <1>1, <1>2, <1>3, Requirements DEF OwnerTool, Owner
<1>4. CASE t = "risk_check"
  BY <1>1, <1>2, <1>4, Requirements DEF OwnerTool, Owner, TurnInv, RouteInv
<1>5. CASE t \notin {"policy_search", "risk_check"}
  <2>1. OwnerTool = AfterSalesTool
    BY <1>2, <1>5 DEF OwnerTool, Owner
  <2>2. CASE t = "order_lookup"
    BY <1>1, <2>1, <2>2, Requirements DEF AfterSalesTool
  <2>3. CASE t # "order_lookup"
    <3>1. /\ route.order => Held("order_lookup")
          /\ route.risk => Held("risk_check")
      BY <1>5, <2>3, Tools, BeforeIs, Requirements, Prepared
    <3>2. CASE t = "create_manual_review"
      BY <1>1, <2>1, <3>1, <3>2, Requirements DEF AfterSalesTool
    <3>3. CASE t \in {"refund_apply", "create_ticket", "transfer_to_human"}
      <4>1. ~NeedsManualReview /\ (ReviewBlocksAgent <=> ReviewBlocksRefund)
        BY <3>3, NoReviewPending
      <4>2. t \in {"refund_apply", "create_ticket"} => ~ReviewBlocksRefund
        BY Prepared
      <4>3. t # "refund_apply" /\ ~ReviewBlocksRefund /\ route.refund => Held("refund_apply")
        BY <3>3, BeforeIs, Requirements, Prepared
      <4>4. t = "transfer_to_human" /\ ~ReviewBlocksRefund /\ route.ticket =>
              Held("create_ticket")
        BY BeforeIs, Requirements, Prepared
      <4>5. CASE t = "refund_apply"
        BY <1>1, <2>1, <3>1, <4>1, <4>2, <4>5, Requirements DEF AfterSalesTool
      <4>6. CASE t = "create_ticket"
        BY <1>1, <2>1, <3>1, <4>1, <4>2, <4>3, <4>6, Requirements DEF AfterSalesTool
      <4>7. CASE t = "transfer_to_human"
        BY <1>1, <2>1, <3>1, <4>1, <4>3, <4>4, <4>7, Requirements DEF AfterSalesTool
      <4> QED
        BY <3>3, <4>5, <4>6, <4>7
    <3> QED
      BY <1>5, <2>3, <3>2, <3>3, Tools
  <2> QED
    BY <2>2, <2>3
<1> QED
  BY <1>3, <1>4, <1>5

-----------------------------------------------------------------------------
(* What a tool answers, and what the orchestrator makes of it.             *)

LEMMA AnswerTypes ==
  /\ \A t \in Tool \cup {"ticket_decision"}, facts \in SUBSET Fact :
       Yields(t, facts) \in Result /\ Fails(t, facts) \in Result
  /\ OrderFact(route) \subseteq Fact
  /\ \A facts \in SUBSET OrderFact(route) : "pending_manual_review" \notin facts
<1>1. \A t \in Tool \cup {"ticket_decision"}, facts \in SUBSET Fact :
        Yields(t, facts) \in Result /\ Fails(t, facts) \in Result
  BY DEF Yields, Fails, Result
<1>2. /\ TicketFact(route.intent) \subseteq Fact
      /\ "pending_manual_review" \notin TicketFact(route.intent)
  BY DEF TicketFact, Fact
<1>3. RefundFact \subseteq Fact /\ "pending_manual_review" \notin RefundFact
  BY DEF Fact, RefundFact
<1> QED
  BY <1>1, <1>2, <1>3 DEF OrderFact

\* An answer of the running task's tool.
Sound(t, r) ==
  /\ r \in Result
  /\ \/ r.tool = t
     \/ t = "create_ticket" /\ r.tool = "ticket_decision" /\ ~r.ok
  /\ ReviewNeeded(r) => ~r.ok
  /\ "pending_manual_review" \in r.facts => r.ok
  /\ r.ok \/ r.facts = {} \/ ReviewNeeded(r)

LEMMA AnswersAreSound ==
  ASSUME NEW t \in Tool, NEW r \in Answers(t)
  PROVE  Sound(t, r)
<1>1. {"review_required"} \subseteq Fact /\ {"pending_manual_review"} \subseteq Fact
      /\ {"replay"} \subseteq Fact /\ {"replay", "pending_manual_review"} \subseteq Fact
      /\ {"open"} \subseteq Fact /\ {"replay", "refund_review"} \subseteq Fact
      /\ {"replay", "refund_review", "open"} \subseteq Fact
      /\ {"replay", "refund_exists"} \subseteq Fact
  BY DEF Fact, RefundFact
<1>2. CASE r = Fails(t, {})
  BY <1>2, AnswerTypes DEF Sound, Fails, ReviewNeeded
<1>3. ASSUME NEW facts \in SUBSET Fact, r = Yields(t, facts),
             t = "refund_apply" => "review_required" \notin facts
      PROVE  Sound(t, r)
  BY <1>3, AnswerTypes DEF Sound, Yields, ReviewNeeded
<1>4. CASE t = "order_lookup"
  BY <1>2, <1>3, <1>4, AnswerTypes DEF Answers
<1>5. CASE t = "risk_check"
  BY <1>1, <1>2, <1>3, <1>5 DEF Answers
<1>6. CASE t = "create_manual_review"
  <2>1. \/ r = Fails(t, {}) \/ r = Yields(t, {"open"})
        \/ \E facts \in {{"replay", "refund_review"}, {"replay", "refund_review", "open"},
                         {"replay", "refund_exists"}} : r = Yields(t, facts)
    BY <1>6 DEF Answers, ReviewReplays
  <2> QED
    BY <1>1, <1>2, <1>3, <1>6, <2>1
<1>7. CASE t = "refund_apply"
  <2>1. \/ r = Fails(t, {}) \/ r = Yields(t, {}) \/ r = Yields(t, {"pending_manual_review"})
        \/ r = Fails(t, {"review_required"})
        \/ r = Yields(t, {"replay"}) \/ r = Yields(t, {"replay", "pending_manual_review"})
    BY <1>7 DEF Answers, Replays
  <2>2. CASE r = Fails(t, {"review_required"})
    BY <1>1, <1>7, <2>2, AnswerTypes DEF Sound, Fails, ReviewNeeded
  <2> QED
    BY <1>1, <1>2, <1>3, <1>7, <2>1, <2>2
<1>8. CASE t \in {"policy_search", "create_ticket", "transfer_to_human"}
  BY <1>2, <1>3, <1>8 DEF Answers
<1> QED
  BY <1>4, <1>5, <1>6, <1>7, <1>8, Tools

LEMMA OutcomesAreSound ==
  ASSUME NEW t \in Tool, Running = t, NEW r \in Outcomes(t)
  PROVE  Sound(t, r)
<1>1. CASE r = Fails("ticket_decision", {}) /\ t = "create_ticket"
  BY <1>1, AnswerTypes DEF Sound, Fails, ReviewNeeded
<1>2. CASE r \in Answers(t)
  BY <1>2, AnswersAreSound
<1> QED
  BY <1>1, <1>2 DEF Outcomes

\* A result is added, and the route keeps its flags, is promoted by a risk, or
\* gives every write up.
LEMMA RouteAfter ==
  ASSUME route \in RouteState, NEW r \in Result, Receive(r)
  PROVE  /\ route' \in RouteState
         /\ route'.order = route.order /\ route'.policy = route.policy
         /\ \/ /\ results' = Append(results, r) /\ ~(r.ok /\ Precondition(r))
               /\ route'.refund = route.refund /\ route'.risk = route.risk
               /\ route'.ticket = route.ticket /\ route'.handoff = route.handoff
               /\ route.review => route'.review
               /\ r.tool # "risk_check" => route'.review = route.review
               /\ route'.review => route.review \/ "review_required" \in r.facts
            \/ /\ results' = results \o <<r, Decided>> /\ r.ok /\ Precondition(r)
               /\ ~(route'.refund \/ route'.risk \/ route'.ticket \/ route'.review
                    \/ route'.handoff)
<1>1. CASE r.ok /\ Precondition(r)
  <2>1. results' = results \o <<r, Decided>> /\ route' = WithoutWrites(route)
    BY <1>1 DEF Receive, Decided
  <2>2. route' \in RouteState /\ route'.order = route.order /\ route'.policy = route.policy
        /\ ~route'.refund /\ ~route'.risk /\ ~route'.ticket /\ ~route'.review
        /\ ~route'.handoff
    BY <2>1 DEF WithoutWrites, RouteState
  <2> QED
    BY <1>1, <2>1, <2>2
<1>2. CASE ~(r.ok /\ Precondition(r))
  <2>1. results' = Append(results, r)
    BY <1>2 DEF Receive
  <2>2. CASE route' = route
    BY <1>2, <2>1, <2>2
  <2>3. CASE r.ok /\ route' = Promoted(r)
    <3> DEFINE asks == r.tool = "risk_check" /\ "review_required" \in r.facts
    <3>1. asks \in BOOLEAN /\ route.review \in BOOLEAN
      BY DEF RouteState
    <3>2. route' = [route EXCEPT !.review = route.review \/ asks]
      BY <2>3 DEF Promoted
    <3> HIDE DEF asks
    <3>3. /\ route' \in RouteState
          /\ route'.order = route.order /\ route'.policy = route.policy
          /\ route'.refund = route.refund /\ route'.risk = route.risk
          /\ route'.ticket = route.ticket /\ route'.handoff = route.handoff
          /\ route'.review = (route.review \/ asks)
      BY <3>1, <3>2 DEF RouteState
    <3>4. ~asks => (route.review \/ asks) = route.review
      BY <3>1
    <3>5. r.tool # "risk_check" => ~asks
      BY DEF asks
    <3>6. asks => "review_required" \in r.facts
      BY DEF asks
    <3> QED
      BY <1>2, <2>1, <3>3, <3>4, <3>5, <3>6
  <2> QED
    BY <1>2, <2>2, <2>3 DEF Receive
<1> QED
  BY <1>1, <1>2

-----------------------------------------------------------------------------
(* The answer to the running task.                                         *)

Calling(t) ==
  /\ results \in Seq(Result) /\ route \in RouteState
  /\ TurnInv /\ PlanInv
  /\ t \in Tool /\ IsRunning(t)
  /\ \A u \in DependsOn(t) : tasks[u] = "completed"

Answered(t, r) == Sound(t, r) /\ Receive(r) /\ request' = request

LEMMA AnswerHeard ==
  ASSUME NEW t, NEW r, Calling(t), Answered(t, r)
  PROVE  /\ r \in Result /\ Heard(r) /\ ~Called(r.tool)
         /\ r.tool # "refund_decision" /\ ~Called(t) /\ ~Called("ticket_decision")
<1>1. ~Called(t)
  BY NotCalledYet DEF Calling
<1>2. ~Called("ticket_decision")
  <2> SUFFICES ASSUME NEW i \in DOMAIN results, results[i].tool = "ticket_decision"
               PROVE  FALSE
    BY DEF Called
  <2>1. ~results[i].ok
    BY DEF Calling, TurnInv, FactsInv
  <2> QED
    BY <2>1 DEF Calling, PlanInv, Excused, ReviewNeeded
<1>3. r \in Result /\ (r.tool = t \/ r.tool = "ticket_decision")
  BY DEF Answered, Sound
<1>4. Heard(r)
  BY DEF Answered, Receive, Heard, Decided
<1>5. t # "refund_decision"
  BY Tools DEF Calling
<1> QED
  BY <1>1, <1>2, <1>3, <1>4, <1>5

\* What is known after the answer, tool by tool.
LEMMA KnownAfter ==
  ASSUME NEW t, NEW r, Calling(t), Answered(t, r)
  PROVE  /\ \A u : u # "refund_decision" => (Called(u)' <=> Called(u) \/ u = r.tool)
         /\ \A u : u # "refund_decision" => (Failed(u)' <=> Failed(u) \/ (u = r.tool /\ ~r.ok))
         /\ Called("refund_decision") => Called("refund_decision")'
         /\ results' = Append(results, r) =>
              (Called("refund_decision")' <=> Called("refund_decision"))
         /\ results' = results \o <<r, Decided>> => Called("refund_decision")'
         /\ \A u \in Tool : /\ Held(u)' <=> Held(u) \/ (u = r.tool /\ r.ok)
                            /\ Facts(u)' = IF u = r.tool THEN r.facts ELSE Facts(u)
                            /\ ~Called(u) => Facts(u) = {} /\ ~Held(u) /\ ~Failed(u)
<1>1. \A u : ~Called(u) => Facts(u) = {} /\ ~Held(u) /\ ~Failed(u)
  BY DEF Called, Facts, Held, Failed
<1> QED
  BY <1>1, AnswerHeard, HeardCalls, HeardHeld DEF Calling, TurnInv

LEMMA RouteFollows ==
  ASSUME NEW t, NEW r, Calling(t), Answered(t, r)
  PROVE  RouteInv'
<1>1. r.tool = "risk_check" => route.risk
  BY Prepared, Requirements DEF Answered, Sound, Calling
<1>2. r \in Result /\ request' = request
  BY DEF Answered, Sound
<1>3. route' \in RouteState /\ route'.order = route.order /\ route'.policy = route.policy
  BY <1>2, RouteAfter DEF Answered, Calling
<1>4. CASE results' = results \o <<r, Decided>>
           /\ ~(route'.refund \/ route'.risk \/ route'.ticket \/ route'.review
                \/ route'.handoff)
  BY <1>2, <1>4, KnownAfter DEF RouteInv
<1>5. CASE /\ results' = Append(results, r)
           /\ route'.refund = route.refund /\ route'.risk = route.risk
           /\ route'.ticket = route.ticket /\ route'.handoff = route.handoff
           /\ route.review => route'.review
           /\ r.tool # "risk_check" => route'.review = route.review
  BY <1>1, <1>2, <1>3, <1>5, KnownAfter DEF RouteInv, Calling, TurnInv
<1> QED
  BY <1>2, <1>4, <1>5, RouteAfter DEF Answered, Calling

LEMMA FactsFollow ==
  ASSUME NEW t, NEW r, Calling(t), Answered(t, r)
  PROVE  FactsInv'
<1>1. r \in Result /\ Heard(r) /\ results \in Seq(Result) /\ FactsInv
  BY AnswerHeard DEF Calling, TurnInv
<1>2. route'.refund => route.refund
  BY <1>1, RouteAfter DEF Answered, Calling
<1>3. r.tool = "order_lookup" /\ route'.refund => r.facts \cap RefundFact = {}
  <2> SUFFICES ASSUME r.tool = "order_lookup", r.facts \cap RefundFact # {}
               PROVE  ~route'.refund
    OBVIOUS
  <2>1. r.ok
    BY DEF Answered, Sound, ReviewNeeded
  <2>2. route.refund => Precondition(r)
    BY DEF Precondition
  <2> QED
    BY <1>1, <1>2, <2>1, <2>2, RouteAfter DEF Answered, Calling
<1> SUFFICES ASSUME NEW i \in DOMAIN results'
             PROVE  /\ ReviewNeeded(results'[i]) => ~results'[i].ok
                    /\ results'[i].tool = "ticket_decision" => ~results'[i].ok
                    /\ "pending_manual_review" \in results'[i].facts => results'[i].ok
                    /\ results'[i].tool = "order_lookup" /\ route'.refund =>
                         results'[i].facts \cap RefundFact = {}
  BY DEF FactsInv, ReviewNeeded
<1>4. CASE i \in DOMAIN results /\ results'[i] = results[i]
  BY <1>1, <1>2, <1>4 DEF FactsInv
<1>5. CASE results'[i] = r
  BY <1>3, <1>5, Tools DEF Answered, Sound, Calling
<1>6. CASE results'[i] = Decided
  BY <1>6 DEF Decided, Yields, ReviewNeeded
<1> QED
  BY <1>1, <1>4, <1>5, <1>6, HeardAt

LEMMA FollowsCalled ==
  ASSUME results \in Seq(Result), NEW a, NEW b, Follows(a, b), Called(b)
  PROVE  Called(a)
<1>1. PICK j \in DOMAIN results : results[j].tool = b
  BY DEF Called
<1>2. PICK i \in 1 .. j - 1 : results[i].tool = a
  BY <1>1 DEF Follows
<1>3. i \in DOMAIN results
  BY <1>1, <1>2, DOMAIN results = 1..Len(results), Len(results) \in Nat
<1> QED
  BY <1>2, <1>3 DEF Called

\* What the running task can rely on.
LEMMA Prior ==
  ASSUME NEW t, Calling(t)
  PROVE  /\ t # "order_lookup" /\ route.order => Held("order_lookup")
         /\ t \notin {"order_lookup", "policy_search"} /\ route.policy => Held("policy_search")
         /\ t \notin {"order_lookup", "policy_search", "risk_check"} /\ route.risk =>
              Held("risk_check")
         /\ \A u \in Tool : Held(u) => Called(u) /\ ~Failed(u)
         /\ t = "order_lookup" => route.order
         /\ t = "policy_search" => route.policy
         /\ t = "risk_check" => route.risk /\ route.order
         /\ t = "refund_apply" => route.refund
         /\ t = "create_ticket" => route.ticket /\ route.order
         /\ t = "transfer_to_human" => route.handoff
<1>1. \A u \in Tool : Held(u) => Called(u) /\ ~Failed(u)
  BY HeldIs DEF Calling, TurnInv
<1>2. Required(t) /\ \A u \in Before(t) : Required(u) =>
        Held(u) \/ u \in {"refund_apply", "create_ticket"}
  BY Prepared DEF Calling
<1>3. /\ t # "order_lookup" => "order_lookup" \in Before(t)
      /\ t \notin {"order_lookup", "policy_search"} => "policy_search" \in Before(t)
      /\ t \notin {"order_lookup", "policy_search", "risk_check"} => "risk_check" \in Before(t)
  BY Tools, BeforeIs DEF Calling
<1> QED
  BY <1>1, <1>2, <1>3, Requirements DEF Calling, TurnInv, RouteInv

LEMMA ChainFollows ==
  ASSUME NEW t, NEW r, Calling(t), Answered(t, r)
  PROVE  ChainInv'
<1>1. /\ r \in Result /\ Heard(r) /\ ~Called(r.tool) /\ ~Called(t)
      /\ ~Called("ticket_decision") /\ results \in Seq(Result) /\ ChainInv
      /\ r.tool = t \/ (t = "create_ticket" /\ r.tool = "ticket_decision")
  BY AnswerHeard DEF Calling, TurnInv, Answered, Sound
<1>2. route'.order = route.order /\ route'.policy = route.policy
      /\ (route'.risk => route.risk)
  BY <1>1, RouteAfter DEF Answered, Calling
<1>3. \A a, b : ~Called(b)' => Follows(a, b)'
  BY DEF Called, Follows
<1>4. \A a, b : Follows(a, b) /\ Called(b) => Called(a)
  BY <1>1, FollowsCalled
<1>5. /\ \A a, b : Follows(a, b) /\ b # r.tool /\ b # "refund_decision" => Follows(a, b)'
      /\ \A a : Called(a) /\ r.tool # "refund_decision" => Follows(a, r.tool)'
  BY <1>1, HeardOrder
<1>6. /\ \A u : u # "refund_decision" => (Called(u)' <=> Called(u) \/ u = r.tool)
      /\ \A u : u # "refund_decision" => (Failed(u)' <=> Failed(u) \/ (u = r.tool /\ ~r.ok))
  BY KnownAfter
<1>7. ~Failed("order_lookup") /\ ~Failed("policy_search")
  BY FailuresAreRefusals DEF Calling
<1>8. Called("order_lookup")' => route'.order
  BY <1>1, <1>2, <1>6, Prior DEF ChainInv
<1>9. route'.order => Follows("order_lookup", "policy_search")'
  BY <1>1, <1>2, <1>5, Prior, Tools DEF ChainInv
<1>10. Follows("order_lookup", "risk_check")'
  BY <1>1, <1>5, Prior, Tools DEF ChainInv
<1>11. Called("risk_check")' => Follows("risk_check", "create_manual_review")'
  BY <1>1, <1>3, <1>5, <1>6, Prior DEF ChainInv
<1>12. Called("create_manual_review")' /\ route'.risk => Called("risk_check")'
  BY <1>1, <1>2, <1>6, Prior, Tools DEF ChainInv
<1>13. Called("create_ticket")' \/ Called("ticket_decision")' =>
         Called("order_lookup")' /\ (route'.policy => Called("policy_search")')
  <2>1. CASE t = "create_ticket"
    <3>1. Called("order_lookup") /\ (route.policy => Called("policy_search"))
      BY <2>1, Prior, Tools
    <3> QED
      BY <1>2, <1>6, <3>1
  <2>2. CASE t # "create_ticket"
    <3>1. r.tool \notin {"create_ticket", "ticket_decision"}
      BY <1>1, <2>2, Tools DEF Calling
    <3> QED
      BY <1>1, <1>2, <1>6, <3>1 DEF ChainInv
  <2> QED
    BY <2>1, <2>2
<1>14. ~(Called("create_ticket")' /\ Called("ticket_decision")')
  <2>1. CASE t = "create_ticket"
    <3>1. ~Called("create_ticket") /\ ~Called("ticket_decision")
      BY <1>1, <2>1
    <3> QED
      BY <1>6, <3>1
  <2>2. CASE t # "create_ticket"
    <3>1. r.tool \notin {"create_ticket", "ticket_decision"}
      BY <1>1, <2>2, Tools DEF Calling
    <3> QED
      BY <1>1, <1>6, <3>1 DEF ChainInv
  <2> QED
    BY <2>1, <2>2
<1>15. Failed("order_lookup")' =>
         ~Called("policy_search")' /\ ~Called("ticket_decision")' /\ ~Called("create_ticket")'
  BY <1>1, <1>4, <1>6, <1>7, Prior DEF ChainInv
<1>16. Failed("policy_search")' => ~Called("create_ticket")'
  BY <1>1, <1>6, <1>7, Prior DEF ChainInv
<1> QED
  BY <1>8, <1>9, <1>10, <1>11, <1>12, <1>13, <1>14, <1>15, <1>16 DEF ChainInv

\* When the application runs, no review is asked for and none was opened.
LEMMA ApplicationIsCleared ==
  ASSUME Calling("refund_apply")
  PROVE  /\ ~ReviewAsked /\ ~route.review /\ ~Called("create_manual_review")
         /\ "review_required" \notin Facts("risk_check")
         /\ route.refund /\ route.order /\ RequiresRefund(request)
         /\ Held("order_lookup") /\ Held("policy_search") /\ Held("risk_check")
<1>1. route.refund /\ ~Held("refund_apply") /\ ~ReviewBlocksRefund
  BY Prior, Prepared, Tools DEF Calling
<1>2. route.order /\ route.policy /\ route.risk /\ RequiresRefund(request)
  BY <1>1 DEF Calling, TurnInv, RouteInv
<1>3. ~NeedsManualReview
  BY NoReviewPending DEF Calling
<1>4. ~ReviewAsked
  BY <1>1, <1>2, <1>3 DEF NeedsManualReview, ReviewBlocksRefund
<1>5. ~Called("create_manual_review")
  BY <1>1, <1>4 DEF Calling, TurnInv, PlanStepsInv
<1> QED
  BY <1>1, <1>2, <1>4, <1>5, Prior DEF ReviewAsked

LEMMA EarlierStays ==
  ASSUME NEW t, NEW r, Calling(t), Answered(t, r),
         NEW i \in 1..Len(results) + 1, NEW tool, NEW facts, Earlier(i, tool, facts)
  PROVE  Earlier(i, tool, facts)'
<1>1. PICK j \in 1 .. i - 1 : /\ results[j].tool = tool /\ results[j].ok
                              /\ results[j].facts \cap facts = {}
  BY DEF Earlier
<1>2. results'[j] = results[j]
  BY AnswerHeard, HeardResults DEF Calling
<1> QED
  BY <1>1, <1>2 DEF Earlier

LEMMA ClearedFollows ==
  ASSUME NEW t, NEW r, Calling(t), Answered(t, r)
  PROVE  RefundOnlyWhenCleared'
<1>1. /\ r \in Result /\ Heard(r) /\ results \in Seq(Result) /\ request' = request
      /\ Len(results) \in Nat /\ DOMAIN results = 1..Len(results)
      /\ \A i \in 1..Len(results) : results'[i] = results[i]
  BY AnswerHeard, HeardResults DEF Calling, Answered
<1> SUFFICES ASSUME NEW i \in DOMAIN results', results'[i].tool = "refund_apply"
             PROVE  /\ request.intent = "return_refund" /\ Executes(request)
                    /\ request.signals \cap {"bypass", "handoff"} = {}
                    /\ Earlier(i, "order_lookup", RefundFact)'
                    /\ Earlier(i, "policy_search", {})'
                    /\ Earlier(i, "risk_check", {"review_required"})'
                    /\ \A j \in 1 .. i - 1 :
                         results'[j].tool \notin {"refund_apply", "create_manual_review"}
  BY <1>1 DEF RefundOnlyWhenCleared, Executes
<1>2. CASE i \in DOMAIN results /\ results'[i] = results[i]
  <2>1. /\ request.intent = "return_refund" /\ Executes(request)
        /\ request.signals \cap {"bypass", "handoff"} = {}
        /\ Earlier(i, "order_lookup", RefundFact)
        /\ Earlier(i, "policy_search", {})
        /\ Earlier(i, "risk_check", {"review_required"})
        /\ \A j \in 1 .. i - 1 :
             results[j].tool \notin {"refund_apply", "create_manual_review"}
    BY <1>2 DEF Calling, TurnInv, RefundOnlyWhenCleared
  <2>2. i \in 1..Len(results) + 1 /\ \A j \in 1 .. i - 1 : results'[j] = results[j]
    BY <1>1, <1>2
  <2> QED
    BY <2>1, <2>2, EarlierStays
<1>3. CASE i = Len(results) + 1 /\ results'[i] = r
  <2>1. t = "refund_apply"
    BY <1>3 DEF Answered, Sound
  <2>2. Calling("refund_apply") /\ ~Called("refund_apply")
    BY <2>1, AnswerHeard
  <2>3. /\ request.intent = "return_refund" /\ Executes(request)
        /\ request.signals \cap {"bypass", "handoff"} = {}
    BY <2>2, ApplicationIsCleared DEF RequiresRefund, Calling, TurnInv, RouteInv
  <2>4. ASSUME NEW u \in Tool, Held(u), NEW facts,
               \A j \in DOMAIN results : results[j].tool = u => results[j].facts \cap facts = {}
        PROVE  Earlier(i, u, facts)'
    <3>1. PICK j \in DOMAIN results : results[j].tool = u /\ results[j].ok
      BY <2>4, HeldIs DEF Calling, TurnInv
    <3>2. j \in 1 .. i - 1 /\ results'[j] = results[j]
      BY <1>1, <1>3, <3>1
    <3> QED
      BY <2>4, <3>1, <3>2 DEF Earlier
  <2>5. Earlier(i, "order_lookup", RefundFact)'
    <3>1. \A j \in DOMAIN results : results[j].tool = "order_lookup" =>
            results[j].facts \cap RefundFact = {}
      BY <2>2, ApplicationIsCleared DEF Calling, TurnInv, FactsInv
    <3> QED
      BY <2>2, <2>4, <3>1, ApplicationIsCleared, Tools
  <2>6. Earlier(i, "policy_search", {})'
    BY <2>2, <2>4, ApplicationIsCleared, Tools
  <2>7. Earlier(i, "risk_check", {"review_required"})'
    <3>1. \A j \in DOMAIN results : results[j].tool = "risk_check" =>
            results[j].facts \cap {"review_required"} = {}
      BY <2>2, ApplicationIsCleared DEF Facts
    <3> QED
      BY <2>2, <2>4, <3>1, ApplicationIsCleared, Tools
  <2>8. \A j \in 1 .. i - 1 :
          results'[j].tool \notin {"refund_apply", "create_manual_review"}
    BY <1>1, <1>3, <2>2, ApplicationIsCleared DEF Called
  <2> QED
    BY <2>3, <2>5, <2>6, <2>7, <2>8
<1>4. CASE results'[i] = Decided
  BY <1>4 DEF Decided, Yields
<1> QED
  BY <1>1, <1>2, <1>3, <1>4, HeardAt

LEMMA NothingFollows ==
  ASSUME NEW t, NEW r, Calling(t), Answered(t, r)
  PROVE  NothingAfterDecision'
<1>1. /\ r \in Result /\ Heard(r) /\ results \in Seq(Result) /\ ~Called(t)
      /\ Len(results) \in Nat /\ DOMAIN results = 1..Len(results)
      /\ \A i \in 1..Len(results) : results'[i] = results[i]
      /\ r.tool # "refund_decision"
  BY AnswerHeard, HeardResults DEF Calling, Answered
<1>2. Facts("refund_apply") \subseteq Facts("refund_apply")'
  BY AnswerHeard, KnownAfter, Tools
<1>3. ASSUME Called("refund_decision"),
             t \in {"refund_apply", "create_manual_review", "create_ticket", "transfer_to_human"}
      PROVE  t = "create_manual_review" /\ "pending_manual_review" \in Facts("refund_apply")
  <2>1. ~(route.refund \/ route.ticket \/ route.review \/ route.handoff)
    BY <1>3 DEF Calling, TurnInv, RouteInv
  <2>2. t = "create_manual_review"
    BY <1>3, <2>1, Prior
  <2>3. NeedsManualReview
    BY <2>2, Prepared, Requirements DEF Calling
  <2>4. "review_required" \notin Facts("risk_check") \cup Facts("refund_apply")
    BY <1>1, <1>3, <2>2 DEF Calling, TurnInv, PlanStepsInv
  <2>5. ~ReviewAsked
    BY <2>1, <2>4 DEF ReviewAsked
  <2> QED
    BY <2>2, <2>3, <2>5 DEF NeedsManualReview
<1> SUFFICES ASSUME NEW i \in DOMAIN results', NEW j \in DOMAIN results', i < j,
                    results'[i].tool = "refund_decision",
                    results'[j].tool \in {"refund_apply", "create_manual_review",
                                          "create_ticket", "transfer_to_human"}
             PROVE  /\ results'[j].tool = "create_manual_review"
                    /\ "pending_manual_review" \in Facts("refund_apply")'
  BY DEF NothingAfterDecision
<1>4. CASE j \in DOMAIN results
  <2>1. i \in DOMAIN results /\ results'[i] = results[i] /\ results'[j] = results[j]
    BY <1>1, <1>4, HeardResults
  <2> QED
    BY <1>2, <1>4, <2>1 DEF Calling, TurnInv, NothingAfterDecision
<1>5. CASE j = Len(results) + 1 /\ results'[j] = r
  <2>1. i \in DOMAIN results /\ results'[i] = results[i]
    BY <1>1, <1>5, HeardResults
  <2>2. Called("refund_decision")
    BY <2>1 DEF Called
  <2>3. r.tool = t
    BY <1>5 DEF Answered, Sound
  <2> QED
    BY <1>2, <1>3, <1>5, <2>2, <2>3
<1>6. CASE results'[j] = Decided
  BY <1>6 DEF Decided, Yields
<1> QED
  BY <1>1, <1>4, <1>5, <1>6, HeardAt

\* What asks for a review goes on asking, unless the turn gives its writes up.
LEMMA ReviewStaysAsked ==
  ASSUME NEW t, NEW r, Calling(t), Answered(t, r), results' = Append(results, r), ReviewAsked
  PROVE  ReviewAsked'
<1>1. r \in Result /\ ~Called(r.tool)
  BY AnswerHeard
<1>2. results' # results \o <<r, Decided>>
  <2>1. Len(Append(results, r)) = Len(results) + 1 /\ Len(results) \in Nat
    BY <1>1 DEF Calling
  <2>2. <<r, Decided>> \in Seq({r, Decided}) /\ Len(<<r, Decided>>) = 2
    OBVIOUS
  <2>3. Len(results \o <<r, Decided>>) = Len(results) + 2
    BY <2>2 DEF Calling
  <2> QED
    BY <2>1, <2>3
<1>3. route.review => route'.review
  BY <1>1, <1>2, RouteAfter DEF Calling, Answered
<1>4. /\ Facts("risk_check") \subseteq Facts("risk_check")'
      /\ Facts("refund_apply") \subseteq Facts("refund_apply")'
      /\ Failed("refund_apply") => Failed("refund_apply")'
  BY <1>1, KnownAfter, Tools
<1> QED
  BY <1>3, <1>4 DEF ReviewAsked

\* The first of the three: a review of an open application was asked for.
LEMMA OpenedIsAsked ==
  ASSUME NEW t, NEW r, Calling(t), Answered(t, r),
         Called("create_manual_review")', route'.refund
  PROVE  ReviewAsked' \/ Held("refund_apply")'
<1>1. r \in Result /\ (r.tool = t \/ r.tool = "ticket_decision")
  BY DEF Answered, Sound
<1>2. results' = Append(results, r) /\ route'.refund = route.refund
  BY <1>1, RouteAfter DEF Answered, Calling
<1>3. ReviewAsked => ReviewAsked'
  BY <1>2, ReviewStaysAsked
<1>4. Held("refund_apply") => Held("refund_apply")'
  BY KnownAfter, Tools
<1>5. CASE Called("create_manual_review")
  BY <1>2, <1>3, <1>4, <1>5 DEF Calling, TurnInv, PlanStepsInv
<1>6. CASE ~Called("create_manual_review")
  <2>1. t = "create_manual_review"
    BY <1>1, <1>6, KnownAfter
  <2>2. NeedsManualReview
    BY <2>1, Prepared, Requirements DEF Calling
  <2> QED
    BY <1>3, <1>4, <2>2, WaitingIsHeld DEF NeedsManualReview, Calling
<1> QED
  BY <1>5, <1>6

\* The second: a refund's ticket comes last, after the application.
LEMMA TicketIsLast ==
  ASSUME NEW t, NEW r, Calling(t), Answered(t, r),
         Called("create_ticket")', RequiresRefund(request)
  PROVE  Held("refund_apply")' /\ ~Called("refund_decision")' /\ ~NeedsManualReview'
<1>1. /\ r \in Result /\ (r.tool = t \/ r.tool = "ticket_decision")
      /\ ~Called(t) /\ ~Called(r.tool)
  BY AnswerHeard DEF Answered, Sound
<1>2. /\ Held("refund_apply") /\ ~Called("refund_decision") /\ ~NeedsManualReview
      /\ t \in {"create_ticket", "transfer_to_human"}
  <2>1. CASE Called("create_ticket")
    <3>1. Held("refund_apply") /\ ~Called("refund_decision") /\ ~NeedsManualReview
      BY <2>1 DEF Calling, TurnInv, PlanStepsInv
    <3>2. Called("refund_apply") /\ Called("order_lookup")
          /\ (route.policy => Called("policy_search"))
      BY <2>1, <3>1, Prior, Tools DEF Calling, TurnInv, ChainInv
    <3>3. Called("risk_check")
      <4>1. PICK i \in DOMAIN results : results[i].tool = "refund_apply"
        BY <3>2 DEF Called
      <4>2. PICK j \in 1 .. i - 1 : results[j].tool = "risk_check"
        BY <4>1 DEF Calling, TurnInv, RefundOnlyWhenCleared, Earlier
      <4>3. j \in DOMAIN results
        BY <4>1, <4>2, DOMAIN results = 1..Len(results), Len(results) \in Nat DEF Calling
      <4> QED
        BY <4>2, <4>3 DEF Called
    <3>4. t # "create_manual_review"
      BY <3>1, Prepared, Requirements DEF Calling
    <3> QED
      BY <1>1, <2>1, <3>1, <3>2, <3>3, <3>4, Prior, Tools DEF Calling
  <2>2. CASE ~Called("create_ticket")
    <3>1. t = "create_ticket"
      BY <1>1, <2>2, KnownAfter, Tools DEF Answered, Sound
    <3>2. route.ticket
      BY <3>1, Prior
    <3>3. ~Called("refund_decision") /\ route.refund
      BY <3>2 DEF Calling, TurnInv, RouteInv
    <3>4. Held("refund_apply") \/ ReviewBlocksRefund
      BY <3>1, <3>3, BeforeIs, Prepared, Requirements DEF Calling
    <3>5. Held("refund_apply")
      BY <3>1, <3>4, Prepared DEF Calling
    <3>6. ~NeedsManualReview
      BY <3>1, NoReviewPending DEF Calling
    <3> QED
      BY <3>1, <3>3, <3>5, <3>6
  <2> QED
    BY <2>1, <2>2
<1>3. ~Precondition(r) /\ r.tool # "risk_check"
  BY <1>1, <1>2 DEF Precondition
<1>4. /\ results' = Append(results, r)
      /\ route'.order = route.order /\ route'.review = route.review
  BY <1>1, <1>3, RouteAfter DEF Answered, Calling
<1>5. /\ Held("refund_apply")' /\ ~Called("refund_decision")'
      /\ (Held("create_manual_review")' <=> Held("create_manual_review"))
      /\ Facts("refund_apply")' = Facts("refund_apply")
      /\ Facts("risk_check")' = Facts("risk_check")
      /\ (Failed("refund_apply")' <=> Failed("refund_apply"))
  BY <1>1, <1>2, <1>4, KnownAfter, Tools
<1> QED
  BY <1>2, <1>4, <1>5 DEF NeedsManualReview, ReviewAsked

\* The third: a decision not to act follows a review, or nothing asks for one.
LEMMA DecisionIsCleared ==
  ASSUME NEW t, NEW r, Calling(t), Answered(t, r), Called("refund_decision")'
  PROVE  \/ Called("create_manual_review")'
         \/ "review_required" \notin Facts("risk_check")' \cup Facts("refund_apply")'
<1>1. /\ r \in Result /\ (r.tool = t \/ r.tool = "ticket_decision")
      /\ ~Called(t) /\ ~Called(r.tool)
  BY AnswerHeard DEF Answered, Sound
<1>2. CASE Called("refund_decision")
  <2>1. r.tool \notin {"risk_check", "refund_apply"}
    BY <1>1, <1>2, Prior DEF Calling, TurnInv, RouteInv
  <2>2. /\ Facts("risk_check")' = Facts("risk_check")
        /\ Facts("refund_apply")' = Facts("refund_apply")
        /\ Called("create_manual_review") => Called("create_manual_review")'
    BY <2>1, KnownAfter, Tools
  <2> QED
    BY <1>2, <2>2 DEF Calling, TurnInv, PlanStepsInv
<1>3. CASE ~Called("refund_decision")
  <2>1. r.ok /\ Precondition(r)
    BY <1>1, <1>3, KnownAfter, RouteAfter DEF Answered, Calling
  <2>2. CASE r.tool = "order_lookup"
    <3>1. ~Called("order_lookup")
      BY <1>1, <2>2
    <3>2. ~Called("risk_check")
      BY <3>1, FollowsCalled DEF Calling, TurnInv, ChainInv
    <3>3. ~Called("refund_apply")
      <4> SUFFICES ASSUME NEW i \in DOMAIN results, results[i].tool = "refund_apply"
                   PROVE  FALSE
        BY DEF Called
      <4>1. PICK j \in 1 .. i - 1 : results[j].tool = "order_lookup"
        BY DEF Calling, TurnInv, RefundOnlyWhenCleared, Earlier
      <4>2. j \in DOMAIN results
        BY <4>1, DOMAIN results = 1..Len(results), Len(results) \in Nat DEF Calling
      <4> QED
        BY <3>1, <4>1, <4>2 DEF Called
    <3> QED
      BY <2>2, <3>2, <3>3, KnownAfter, Tools
  <2>3. CASE r.tool = "refund_apply"
    <3>1. t = "refund_apply"
      BY <1>1, <2>3
    <3>2. "review_required" \notin Facts("risk_check")
      BY <3>1, ApplicationIsCleared
    <3>3. "review_required" \notin r.facts
      BY <2>1, <2>3 DEF Answered, Sound, ReviewNeeded
    <3> QED
      BY <2>3, <3>2, <3>3, KnownAfter, Tools
  <2>4. CASE r.tool = "create_manual_review"
    BY <2>4, KnownAfter
  <2> QED
    BY <2>1, <2>2, <2>3, <2>4 DEF Precondition
<1> QED
  BY <1>2, <1>3

LEMMA TurnFollows ==
  ASSUME NEW t, NEW r, Calling(t), Answered(t, r)
  PROVE  TurnInv'
<1>1. request' = request
  BY DEF Answered
<1>2. PlanStepsInv'
  BY <1>1, OpenedIsAsked, TicketIsLast, DecisionIsCleared DEF PlanStepsInv
<1>3. OneResultEach'
  BY AnswerHeard, HeardOnce DEF Calling, TurnInv
<1> QED
  BY <1>2, <1>3, RouteFollows, FactsFollow, ChainFollows, ClearedFollows, NothingFollows
     DEF TurnInv

-----------------------------------------------------------------------------
(* The steps of a turn.                                                    *)

LEMMA NothingKnown ==
  ASSUME results = << >>
  PROVE  \A t : ~Called(t) /\ ~Failed(t) /\ ~Held(t) /\ Facts(t) = {}
<1>1. DOMAIN results = {}
  BY DOMAIN << >> = 1..0
<1> QED
  BY <1>1 DEF Called, Failed, Held, Facts

LEMMA TurnBegins ==
  ASSUME BeginTurn, TypeOK
  PROVE  /\ request' \in Request \cup Unrouted /\ route' \in RouteState
         /\ TurnInv'
<1>1. PICK q \in Request \cup Unrouted : request' = q /\ route' = Route(q)
  BY DEF BeginTurn
<1>2. results' = << >> /\ DOMAIN results' = {}
  BY DOMAIN << >> = 1..0 DEF BeginTurn, TypeOK
<1>3. \A t : ~Called(t)' /\ ~Failed(t)' /\ \A a : Follows(a, t)'
  BY <1>2 DEF Called, Failed, Follows
<1>4. RouteInv'
  BY <1>1, <1>3, RouteIsCoherent DEF RouteInv
<1>5. OneResultEach' /\ FactsInv' /\ RefundOnlyWhenCleared' /\ NothingAfterDecision'
  BY <1>2 DEF OneResultEach, FactsInv, RefundOnlyWhenCleared, NothingAfterDecision
<1>6. ChainInv' /\ PlanStepsInv'
  BY <1>3 DEF ChainInv, PlanStepsInv
<1> QED
  BY <1>1, <1>4, <1>5, <1>6, RouteType DEF TurnInv

LEMMA Replanned ==
  ASSUME NEW ts \in [Tool -> TaskState], tasks' = Refreshed(ts),
         UNCHANGED <<request, route, results>>,
         \A t \in Tool : /\ ts[t] = "completed" <=> Held(t)
                         /\ ts[t] # "failed"
  PROVE  /\ tasks' \in [Tool -> TaskState]
         /\ \A t \in Tool : Planned(t)' /\ tasks'[t] # "running"
<1>1. ASSUME NEW t \in Tool
      PROVE  tasks'[t] = IF ts[t] = "completed" THEN "completed"
                         ELSE IF ~Required(t)
                              THEN (IF ts[t] = "absent" THEN "absent" ELSE "skipped")
                         ELSE IF ReviewBlocksRefund /\ t \in {"refund_apply", "create_ticket"}
                              THEN "waiting"
                         ELSE "pending"
  BY DEF Refreshed
<1>2. ASSUME NEW t \in Tool PROVE Planned(t)' /\ tasks'[t] # "running"
  BY <1>1, SameKnowledge, SameRequirements DEF Planned
<1>3. tasks' \in [Tool -> TaskState]
  BY <1>1 DEF Refreshed, TaskState
<1> QED
  BY <1>2, <1>3

LEMMA StoppedType ==
  ASSUME NEW ts \in [Tool -> TaskState]
  PROVE  Stopped(ts) \in [Tool -> TaskState]
BY DEF Stopped, TaskState

LEMMA BeginKeeps ==
  ASSUME TypeOK, StageInv, BeginTurn
  PROVE  TypeOK' /\ StageInv'
<1>1. /\ pc = "idle" /\ pc' = "plan"
      /\ UNCHANGED <<tasks, results, answer, steps, stopped>>
  BY DEF BeginTurn
<1>2. TypeOK'
  BY <1>1, TurnBegins DEF TypeOK, NoTask
<1>3. StageInv'
  BY <1>1, TurnBegins DEF StageInv
<1> QED
  BY <1>2, <1>3

LEMMA SkipKeeps ==
  ASSUME TypeOK, StageInv, SkipAgents
  PROVE  TypeOK' /\ StageInv'
<1>1. /\ pc = "plan" /\ pc' = "done"
      /\ UNCHANGED <<request, route, tasks, results, answer, steps, stopped>>
  BY DEF SkipAgents
<1>2. TypeOK'
  BY <1>1 DEF TypeOK, NoTask
<1>3. results = << >>
  BY <1>1 DEF TypeOK
<1>4. Promises'
  BY <1>1, <1>3, NothingKnown, SameKnowledge DEF Promises
<1>5. TurnInv'
  BY <1>1, SameTurn DEF StageInv
<1> QED
  BY <1>1, <1>2, <1>4, <1>5 DEF StageInv

LEMMA PlanKeeps ==
  ASSUME TypeOK, StageInv, MakePlan
  PROVE  TypeOK' /\ StageInv'
<1>1. /\ pc = "plan" /\ UNCHANGED <<request, route, results, answer, steps>>
      /\ results = << >> /\ tasks = NoTask /\ stopped = None
  BY DEF MakePlan, TypeOK
<1>2. TurnInv'
  BY <1>1, SameTurn DEF StageInv
<1>3. CASE pc' = "pick" /\ tasks' = Refreshed(tasks) /\ UNCHANGED stopped
  <2>1. /\ tasks \in [Tool -> TaskState]
        /\ \A t \in Tool : tasks[t] = "absent" /\ ~Held(t)
    BY <1>1, NothingKnown DEF TypeOK, NoTask
  <2>2. /\ tasks' \in [Tool -> TaskState]
        /\ \A t \in Tool : Planned(t)' /\ tasks'[t] # "running"
    BY <1>1, <1>3, <2>1, Replanned
  <2>3. DOMAIN results' = {}
    BY <1>1, DOMAIN << >> = 1..0
  <2>4. PlanInv'
    BY <1>1, <1>3, <2>2, <2>3 DEF PlanInv
  <2>5. TypeOK'
    BY <1>1, <1>3, <2>2 DEF TypeOK
  <2> QED
    BY <1>2, <1>3, <2>2, <2>4, <2>5 DEF StageInv
<1>4. CASE pc' = "done" /\ stopped' = "invalid_task_plan" /\ UNCHANGED tasks
  <2>1. stopped' # None /\ stopped' \in Reason
    BY <1>4, NoneAssumption DEF Reason
  <2>2. TypeOK'
    BY <1>1, <1>4, <2>1 DEF TypeOK
  <2> QED
    BY <1>2, <1>4, <2>1, <2>2 DEF StageInv
<1> QED
  BY <1>3, <1>4 DEF MakePlan

LEMMA StartKeeps ==
  ASSUME TypeOK, StageInv, StartTask
  PROVE  TypeOK' /\ StageInv'
<1>1. /\ pc = "pick" /\ pc' = "call" /\ steps' = steps + 1 /\ steps < MaxSteps
      /\ UNCHANGED <<request, route, results, answer, stopped>>
  BY DEF StartTask
<1>2. PICK t \in NextTask : tasks' = [tasks EXCEPT ![t] = "running"]
  BY DEF StartTask
<1>3. t \in Tool /\ Ready(t)
  BY DEF NextTask
<1>4. /\ tasks \in [Tool -> TaskState] /\ PlanInv
      /\ \A u \in Tool : tasks[u] # "running"
  BY <1>1 DEF TypeOK, StageInv
<1>5. /\ tasks'[t] = "running"
      /\ \A u \in Tool \ {t} : tasks'[u] = tasks[u]
  BY <1>2, <1>3, <1>4
<1>6. TypeOK'
  <2>1. steps' \in 0..MaxSteps
    BY <1>1, BudgetAssumption DEF TypeOK
  <2>2. tasks' \in [Tool -> TaskState]
    BY <1>2, <1>4 DEF TaskState
  <2> QED
    BY <1>1, <2>1, <2>2 DEF TypeOK
<1>7. TurnInv'
  BY <1>1, SameTurn DEF StageInv
<1>8. ASSUME NEW u \in Tool PROVE Planned(u)'
  <2>1. Planned(u)
    BY <1>4 DEF PlanInv
  <2>2. CASE u = t
    BY <1>1, <1>3, <1>5, <2>1, <2>2, SameKnowledge, SameRequirements DEF Planned, Ready
  <2>3. CASE u # t
    BY <1>1, <1>5, <2>1, <2>3, SameKnowledge, SameRequirements DEF Planned
  <2> QED
    BY <2>2, <2>3
<1>9. PlanInv'
  BY <1>1, <1>4, <1>8 DEF PlanInv, Excused, ReviewNeeded
<1>10. IsRunning(t)'
  BY <1>4, <1>5 DEF IsRunning
<1>11. ASSUME NEW u \in DependsOn(t)' PROVE tasks'[u] = "completed"
  <2>1. u \in Before(t) /\ u \in Tool /\ u # t
    BY <1>3, Tools, BeforeIs DEF DependsOn
  <2>2. Required(u)' /\ tasks'[u] \notin {"waiting", "skipped"}
    BY DEF DependsOn
  <2>3. u \in DependsOn(t)
    BY <1>1, <1>5, <2>1, <2>2, SameRequirements DEF DependsOn
  <2> QED
    BY <1>3, <1>5, <2>1, <2>3 DEF Ready
<1>12. CallInv'
  BY <1>3, <1>10, <1>11 DEF CallInv
<1> QED
  BY <1>1, <1>6, <1>7, <1>9, <1>12 DEF StageInv

LEMMA StopKeeps ==
  ASSUME TypeOK, StageInv, StopPicking
  PROVE  TypeOK' /\ StageInv'
<1>1. /\ pc = "pick" /\ pc' = "check" /\ tasks' = Stopped(tasks)
      /\ UNCHANGED <<request, route, results, answer, steps>>
  BY DEF StopPicking
<1>2. /\ TurnInv /\ PlanInv /\ results \in Seq(Result)
      /\ \A t \in Tool : tasks[t] # "running"
  BY <1>1 DEF StageInv, TypeOK
<1> DEFINE left == \E tool \in Tool : tasks[tool] = "pending"
<1>3. /\ stopped' \in Reason \cup {None}
      /\ stopped' = None => ~left
  <2>1. stopped = None
    BY <1>2 DEF PlanInv
  <2>2. /\ "agent_loop_guard_reached" \in Reason /\ "task_dependencies_unresolved" \in Reason
        /\ None \notin Reason
    BY NoneAssumption DEF Reason
  <2> QED
    BY <2>1, <2>2 DEF StopPicking, Because
<1>4. TypeOK'
  <2>1. tasks' \in [Tool -> TaskState]
    BY <1>1, StoppedType DEF TypeOK
  <2> QED
    BY <1>1, <1>3, <2>1 DEF TypeOK
<1>5. TurnInv'
  BY <1>1, <1>2, SameTurn
<1>6. ASSUME ~left PROVE Promises
  <2>1. ASSUME NEW t \in Tool, Required(t)
        PROVE  Held(t) \/ (t \in {"refund_apply", "create_ticket"} /\ ReviewBlocksRefund)
    BY <1>2, <1>6, <2>1 DEF PlanInv, Planned
  <2>2. "pending_manual_review" \in Facts("refund_apply") => Held("refund_apply")
    BY <1>2, WaitingIsHeld
  <2>3. ~NeedsManualReview
    <3>1. NeedsManualReview => Held("create_manual_review")
      BY <1>2, <2>1, Requirements, Tools
    <3> QED
      BY <3>1 DEF NeedsManualReview
  <2>4. \A u \in Tool : ~Called(u) => Facts(u) = {} /\ ~Held(u)
    BY DEF Called, Facts, Held
  <2>5. /\ Called("risk_check") => Called("order_lookup")
        /\ Called("refund_apply") => Called("order_lookup")
    <3>1. Called("risk_check") => Called("order_lookup")
      BY <1>2, FollowsCalled DEF TurnInv, ChainInv
    <3>2. ASSUME NEW i \in DOMAIN results, results[i].tool = "refund_apply"
          PROVE  Called("order_lookup")
      <4>1. PICK j \in 1 .. i - 1 : results[j].tool = "order_lookup"
        BY <1>2, <3>2 DEF TurnInv, RefundOnlyWhenCleared, Earlier
      <4>2. j \in DOMAIN results
        BY <1>2, <4>1, DOMAIN results = 1..Len(results), Len(results) \in Nat
      <4> QED
        BY <4>1, <4>2 DEF Called
    <3> QED
      BY <3>1, <3>2 DEF Called
  <2>6. (\/ "review_required" \in Facts("refund_apply") \cup Facts("risk_check")
         \/ "pending_manual_review" \in Facts("refund_apply")) => Held("create_manual_review")
    <3>1. "review_required" \in Facts("refund_apply") => Failed("refund_apply")
      BY <1>2 DEF Facts, Failed, TurnInv, FactsInv, ReviewNeeded
    <3>2. Called("order_lookup") => route.order
      BY <1>2 DEF TurnInv, ChainInv
    <3> QED
      BY <2>3, <2>4, <2>5, <3>1, <3>2, Tools DEF NeedsManualReview, ReviewAsked
  <2>7. ASSUME RequiresRefund(request)
        PROVE  Held("create_ticket") <=> Held("refund_apply") /\ ~Called("refund_decision")
    <3>1. Held("create_ticket") => Held("refund_apply") /\ ~Called("refund_decision")
      BY <1>2, <2>4, <2>7, Tools DEF TurnInv, PlanStepsInv
    <3>2. ASSUME Held("refund_apply"), ~Called("refund_decision")
          PROVE  Held("create_ticket")
      <4>1. route.ticket
        BY <1>2, <2>7, <3>2 DEF TurnInv, RouteInv
      <4>2. ~ReviewBlocksRefund
        BY <3>2 DEF ReviewBlocksRefund
      <4> QED
        BY <1>2, <2>1, <4>1, <4>2, Requirements, Tools
    <3> QED
      BY <3>1, <3>2
  <2> QED
    BY <2>6, <2>7 DEF Promises
<1>7. Promises => Promises'
  BY <1>1, SameKnowledge DEF Promises
<1> QED
  BY <1>1, <1>3, <1>4, <1>5, <1>6, <1>7 DEF StageInv

LEMMA CallingIs ==
  ASSUME TypeOK, StageInv, pc = "call"
  PROVE  \E t \in Tool : Calling(t)
BY DEF TypeOK, StageInv, CallInv, Calling

LEMMA DispatchIs ==
  ASSUME NEW t, Calling(t), Dispatch
  PROVE  \E r \in Result : Answered(t, r) /\ answer' = r
<1>1. OwnerTool = t
  BY OwnerAgrees DEF Calling
<1>2. t # None
  BY NoneAssumption DEF Calling
<1>3. PICK r \in Outcomes(t) : Receive(r)
  BY <1>1, <1>2 DEF Dispatch
<1>4. Sound(t, r)
  BY OutcomesAreSound, RunningIs DEF Calling
<1>5. request' = request
  BY DEF Dispatch
<1> QED
  BY <1>3, <1>4, <1>5 DEF Answered, Sound, Receive

\* What the orchestrator blocks is what no rule excuses.
LEMMA BlocksIs ==
  ASSUME NEW t, NEW r, Calling(t), Answered(t, r)
  PROVE  /\ stopped' \in Reason \cup {None}
         /\ stopped' \notin {"tool_permission_denied", "invalid_tool_chain",
                             "invalid_task_plan", "task_dependencies_unresolved",
                             "agent_loop_guard_reached", "no_progress"}
         /\ Excused(r) => stopped' = None
<1>1. Running = t /\ r \in Result /\ stopped' = Blocks(r)
      /\ (r.tool = t \/ r.tool = "ticket_decision")
  BY RunningIs DEF Calling, Answered, Sound, Receive
<1>2. Blocks(r) \in {None, "order_lookup_failed", "policy_search_failed", "risk_check_failed",
                     "refund_apply_failed"}
  BY <1>1 DEF Blocks
<1>3. Excused(r) => Blocks(r) = None
  BY <1>1 DEF Blocks, Excused, ReviewNeeded
<1> QED
  BY <1>1, <1>2, <1>3, NoneAssumption DEF Reason

LEMMA DispatchKeeps ==
  ASSUME TypeOK, StageInv, Dispatch
  PROVE  TypeOK' /\ StageInv'
<1>1. pc = "call" /\ pc' = "observe" /\ UNCHANGED <<request, tasks, steps>>
  BY DEF Dispatch
<1>2. PICK t \in Tool : Calling(t)
  BY <1>1, CallingIs
<1>3. PICK r \in Result : Answered(t, r) /\ answer' = r
  BY <1>2, DispatchIs
<1>4. /\ results' \in Seq(Result) /\ route' \in RouteState
      /\ route'.order = route.order
  BY <1>2, <1>3, AnswerHeard, HeardResults, RouteAfter DEF Calling, Answered
<1>5. TypeOK'
  BY <1>1, <1>3, <1>4, <1>2, BlocksIs DEF TypeOK
<1>6. TurnInv'
  BY <1>2, <1>3, TurnFollows
<1>7. IsRunning(t)'
  BY <1>1, <1>2 DEF Calling, IsRunning
<1>8. \/ r.tool = t
      \/ t = "create_ticket" /\ r.tool = "ticket_decision" /\ ~r.ok
  BY <1>3 DEF Answered, Sound
<1>9. r.tool = t => Called(t)' /\ (Held(t)' <=> r.ok)
  BY <1>2, <1>3, AnswerHeard, KnownAfter, Tools
<1>10. ASSUME NEW u \in Tool \ {t}
       PROVE  /\ tasks'[u] \in {"absent", "pending", "completed", "skipped", "waiting"}
              /\ tasks'[u] = "completed" <=> Held(u)'
  <2>1. Planned(u) /\ tasks[u] # "running"
    BY <1>2 DEF Calling, PlanInv, IsRunning
  <2>2. Held(u)' <=> Held(u)
    BY <1>2, <1>3, <1>8, KnownAfter, Tools
  <2> QED
    BY <1>1, <2>1, <2>2 DEF Planned
<1>11. Excused(r) => stopped' = None
  BY <1>2, <1>3, BlocksIs
<1>12. ASSUME Excused(r), NEW i \in DOMAIN results' PROVE Excused(results'[i])
  <2>1. Excused(Decided)
    BY DEF Excused, Decided, Yields
  <2>2. \A j \in DOMAIN results : Excused(results[j])
    BY <1>2 DEF Calling, PlanInv
  <2>3. \/ i \in DOMAIN results /\ results'[i] = results[i]
        \/ results'[i] = r \/ results'[i] = Decided
    BY <1>2, <1>3, AnswerHeard, HeardAt DEF Calling
  <2> QED
    BY <1>12, <2>1, <2>2, <2>3
<1>13. route'.order => Called("order_lookup")'
  <2>1. CASE t = "order_lookup"
    BY <1>8, <1>9, <2>1
  <2>2. CASE t # "order_lookup"
    BY <1>2, <1>3, <1>4, <2>2, Prior, KnownAfter, Tools
  <2> QED
    BY <2>1, <2>2
<1>14. ObserveInv'
  BY <1>3, <1>7, <1>8, <1>9, <1>10, <1>11, <1>12, <1>13
     DEF ObserveInv, Excused, ReviewNeeded
<1> QED
  BY <1>1, <1>5, <1>6, <1>14 DEF StageInv

LEMMA SameChain ==
  ASSUME UNCHANGED <<request, route, results>>
  PROVE  /\ \A t : (Called(t)' <=> Called(t)) /\ (Held(t)' <=> Held(t))
         /\ Promises' <=> Promises
BY SameKnowledge DEF Promises

LEMMA RaiseKeeps ==
  ASSUME TypeOK, StageInv, AgentRaises
  PROVE  TypeOK' /\ StageInv'
<1>1. /\ pc = "call" /\ pc' = "check" /\ stopped' = "agent_execution_failed"
      /\ tasks' = Stopped([tasks EXCEPT ![Running] = "failed"])
      /\ UNCHANGED <<request, route, results, answer, steps>>
  BY DEF AgentRaises
<1>2. stopped' \in Reason /\ stopped' # None
  BY <1>1, NoneAssumption DEF Reason
<1>3. [tasks EXCEPT ![Running] = "failed"] \in [Tool -> TaskState]
  BY DEF TypeOK, TaskState
<1>4. TypeOK'
  BY <1>1, <1>2, <1>3, StoppedType DEF TypeOK
<1>5. TurnInv'
  BY <1>1, SameTurn DEF StageInv
<1> QED
  BY <1>1, <1>2, <1>4, <1>5 DEF StageInv

LEMMA ObservedIs ==
  ASSUME TypeOK, StageInv, pc = "observe"
  PROVE  \E t \in Tool :
           /\ Running = t /\ tasks[t] = "running" /\ answer \in Result /\ answer # None
           /\ Judged = IF answer.tool # t THEN "failed"
                       ELSE IF answer.ok THEN "completed"
                       ELSE IF t = "refund_apply" /\ "review_required" \in answer.facts
                            THEN "waiting" ELSE "failed"
           /\ answer.tool = t => Called(t) /\ (Held(t) <=> answer.ok)
           /\ \A u \in Tool \ {t} :
                /\ tasks[u] \in {"absent", "pending", "completed", "skipped", "waiting"}
                /\ tasks[u] = "completed" <=> Held(u)
           /\ Excused(answer) => stopped = None /\ \A i \in DOMAIN results : Excused(results[i])
           /\ route.order => Called("order_lookup")
           /\ \/ answer.tool = t
              \/ t = "create_ticket" /\ answer.tool = "ticket_decision" /\ ~answer.ok
<1>1. PICK t \in Tool :
        /\ IsRunning(t)
        /\ answer \in Result
        /\ \/ answer.tool = t
           \/ t = "create_ticket" /\ answer.tool = "ticket_decision" /\ ~answer.ok
        /\ answer.tool = t => Called(t) /\ (Held(t) <=> answer.ok)
        /\ \A u \in Tool \ {t} :
             /\ tasks[u] \in {"absent", "pending", "completed", "skipped", "waiting"}
             /\ tasks[u] = "completed" <=> Held(u)
        /\ Excused(answer) => stopped = None /\ \A i \in DOMAIN results : Excused(results[i])
        /\ route.order => Called("order_lookup")
  BY DEF StageInv, ObserveInv
<1>2. Running = t /\ tasks[t] = "running" /\ answer # None
  BY <1>1, RunningIs, NoneAssumption DEF IsRunning
<1>3. Judged = IF answer.tool # t THEN "failed"
               ELSE IF answer.ok THEN "completed"
               ELSE IF t = "refund_apply" /\ "review_required" \in answer.facts
                    THEN "waiting" ELSE "failed"
  BY <1>2 DEF Judged
<1> QED
  BY <1>1, <1>2, <1>3

LEMMA ObserveKeeps ==
  ASSUME TypeOK, StageInv, Observe
  PROVE  TypeOK' /\ StageInv'
<1>1. /\ pc = "observe" /\ Judged # "failed" /\ pc' = "pick" /\ answer' = None
      /\ tasks' = Refreshed([tasks EXCEPT ![Running] = Judged])
      /\ UNCHANGED <<request, route, results, steps, stopped>>
  BY DEF Observe
<1>2. PICK t \in Tool :
        /\ Running = t /\ answer \in Result
        /\ Judged = IF answer.tool # t THEN "failed"
                    ELSE IF answer.ok THEN "completed"
                    ELSE IF t = "refund_apply" /\ "review_required" \in answer.facts
                         THEN "waiting" ELSE "failed"
        /\ answer.tool = t => (Held(t) <=> answer.ok)
        /\ \A u \in Tool \ {t} :
             /\ tasks[u] \in {"absent", "pending", "completed", "skipped", "waiting"}
             /\ tasks[u] = "completed" <=> Held(u)
        /\ Excused(answer) => stopped = None /\ \A i \in DOMAIN results : Excused(results[i])
  BY <1>1, ObservedIs
<1>3. /\ answer.tool = t /\ Excused(answer) /\ Judged \in {"completed", "waiting"}
      /\ Judged = "completed" <=> Held(t)
  BY <1>1, <1>2 DEF Excused, ReviewNeeded
<1> DEFINE ts == [tasks EXCEPT ![t] = Judged]
<1>4. /\ ts \in [Tool -> TaskState]
      /\ \A u \in Tool : (ts[u] = "completed" <=> Held(u)) /\ ts[u] # "failed"
  <2>1. tasks \in [Tool -> TaskState] /\ Judged \in TaskState
    BY <1>3 DEF TypeOK, TaskState
  <2>2. ts \in [Tool -> TaskState] /\ ts[t] = Judged /\ \A u \in Tool \ {t} : ts[u] = tasks[u]
    BY <2>1
  <2> QED
    BY <1>2, <1>3, <2>2
<1>5. tasks' = Refreshed(ts)
  BY <1>1, <1>2
<1> HIDE DEF ts
<1>6. /\ tasks' \in [Tool -> TaskState]
      /\ \A u \in Tool : Planned(u)' /\ tasks'[u] # "running"
  BY <1>1, <1>4, <1>5, Replanned
<1>7. TypeOK'
  BY <1>1, <1>6 DEF TypeOK
<1>8. PlanInv'
  BY <1>1, <1>2, <1>3, <1>6 DEF PlanInv, Excused, ReviewNeeded
<1>9. TurnInv'
  BY <1>1, SameTurn DEF StageInv
<1> QED
  BY <1>1, <1>6, <1>7, <1>8, <1>9 DEF StageInv

LEMMA FailKeeps ==
  ASSUME TypeOK, StageInv, TaskFails
  PROVE  TypeOK' /\ StageInv'
<1>1. /\ pc = "observe" /\ pc' = "check" /\ answer' = None
      /\ tasks' = Stopped([tasks EXCEPT ![Running] = "failed"])
      /\ stopped' = Because(IF answer = None THEN "no_progress" ELSE "task_failed")
      /\ UNCHANGED <<request, route, results, steps>>
  BY DEF TaskFails
<1>2. stopped' \in Reason /\ stopped' # None
  BY <1>1, NoneAssumption DEF Reason, Because, TypeOK
<1>3. [tasks EXCEPT ![Running] = "failed"] \in [Tool -> TaskState]
  BY DEF TypeOK, TaskState
<1>4. TypeOK'
  BY <1>1, <1>2, <1>3, StoppedType DEF TypeOK
<1>5. TurnInv'
  BY <1>1, SameTurn DEF StageInv
<1> QED
  BY <1>1, <1>2, <1>4, <1>5 DEF StageInv

LEMMA CheckKeeps ==
  ASSUME TypeOK, StageInv, CheckChain
  PROVE  TypeOK' /\ StageInv'
<1>1. /\ pc = "check" /\ pc' = "done"
      /\ stopped' = stopped \/ stopped' = "invalid_tool_chain"
      /\ UNCHANGED <<request, route, tasks, results, answer, steps>>
  BY DEF CheckChain
<1>2. "invalid_tool_chain" \in Reason /\ "invalid_tool_chain" # None
  BY NoneAssumption DEF Reason
<1>3. TypeOK'
  BY <1>1, <1>2 DEF TypeOK
<1>4. TurnInv'
  BY <1>1, SameTurn DEF StageInv
<1>5. stopped' = None => Promises'
  BY <1>1, <1>2, SameChain DEF StageInv
<1> QED
  BY <1>1, <1>3, <1>4, <1>5 DEF StageInv

LEMMA NoTaskYet == NoTask \in [Tool -> TaskState]
BY DEF NoTask, TaskState

LEMMA EndKeeps ==
  ASSUME TypeOK, StageInv, EndTurn
  PROVE  TypeOK' /\ StageInv'
<1>1. /\ pc' = "idle" /\ tasks' = NoTask /\ results' = << >>
      /\ answer' = None /\ steps' = 0 /\ stopped' = None
  BY DEF EndTurn
<1>2. TypeOK'
  BY <1>1, NoTaskYet, BudgetAssumption DEF TypeOK
<1> QED
  BY <1>1, <1>2 DEF StageInv

LEMMA InitIsSound == Init => TypeOK /\ StageInv
<1> SUFFICES ASSUME Init PROVE TypeOK /\ StageInv
  OBVIOUS
<1>1. TypeOK
  BY NoTaskYet, BudgetAssumption DEF TypeOK, Init
<1> QED
  BY <1>1 DEF StageInv, Init

LEMMA UnchangedKeeps ==
  ASSUME TypeOK, StageInv, UNCHANGED vars
  PROVE  TypeOK' /\ StageInv'
<1>1. UNCHANGED <<request, route, results>> /\ UNCHANGED vars
  BY DEF vars
<1>2. TypeOK'
  BY DEF TypeOK, vars
<1>3. pc # "idle" => TurnInv'
  BY <1>1, SameTurn DEF StageInv
<1>4. \A t \in Tool : /\ Planned(t)' <=> Planned(t)
                      /\ IsRunning(t)' <=> IsRunning(t)
                      /\ DependsOn(t)' = DependsOn(t)
  <2>1. /\ \A t \in Tool : (Required(t)' <=> Required(t)) /\ (Held(t)' <=> Held(t))
        /\ ReviewBlocksRefund' <=> ReviewBlocksRefund
    BY <1>1, SameKnowledge, SameRequirements
  <2>2. tasks' = tasks
    BY DEF vars
  <2>3. \A t \in Tool : Planned(t)' <=> Planned(t)
    BY <2>1, <2>2 DEF Planned
  <2>4. \A t \in Tool : IsRunning(t)' <=> IsRunning(t)
    BY <2>2 DEF IsRunning
  <2>5. ASSUME NEW t \in Tool PROVE DependsOn(t)' = DependsOn(t)
    <3>1. Before(t) \subseteq Tool
      BY Tools, BeforeIs
    <3> QED
      BY <2>1, <2>2, <3>1 DEF DependsOn
  <2> QED
    BY <2>3, <2>4, <2>5
<1>5. PlanInv' <=> PlanInv
  BY <1>1, <1>4 DEF PlanInv, vars, Excused, ReviewNeeded
<1>6. CallInv' <=> CallInv
  BY <1>1, <1>4 DEF CallInv, vars
<1>7. ObserveInv' <=> ObserveInv
  BY <1>1, <1>4, SameChain DEF ObserveInv, vars, Excused, ReviewNeeded
<1>8. Promises' <=> Promises
  BY <1>1, SameChain
<1>9. StageInv'
  BY <1>3, <1>5, <1>6, <1>7, <1>8 DEF StageInv, vars
<1> QED
  BY <1>2, <1>9

LEMMA StepKeeps == TypeOK /\ StageInv /\ [Next]_vars => TypeOK' /\ StageInv'
BY BeginKeeps, SkipKeeps, PlanKeeps, StartKeeps, StopKeeps, DispatchKeeps, RaiseKeeps,
   ObserveKeeps, FailKeeps, CheckKeeps, EndKeeps, UnchangedKeeps DEF Next

LEMMA StageInvariant == Spec => [](TypeOK /\ StageInv)
BY InitIsSound, StepKeeps, PTL DEF Spec

-----------------------------------------------------------------------------
(* What holds of every turn.                                               *)

\* The turn's variables stay in their types, and a turn that has not started
\* to call tools has no results, no tasks and nothing to stop it.
THEOREM TypeCorrect == Spec => []TypeOK
BY StageInvariant, PTL

\* run_turn gives refund_apply to no request that was not cleared for it: the
\* order found without a refund, the policy found, the risk found low, no review.
THEOREM RefundsAreCleared == Spec => []RefundOnlyWhenCleared
<1>1. TypeOK /\ StageInv => RefundOnlyWhenCleared
  <2>1. CASE pc = "idle"
    BY <2>1, DOMAIN << >> = 1..0 DEF TypeOK, RefundOnlyWhenCleared
  <2> QED
    BY <2>1 DEF StageInv, TurnInv
<1> QED
  BY <1>1, StageInvariant, PTL

\* A turn that ends without being blocked has opened the review that its refund,
\* risk or refusal asked for, and has a ticket exactly when the refund goes ahead.
THEOREM PromisesAreKept == Spec => []PromisesKept
<1>1. TypeOK /\ StageInv => PromisesKept
  BY DEF StageInv, Promises, PromisesKept
<1> QED
  BY <1>1, StageInvariant, PTL

\* After handle_agent_result has decided not to apply again, the turn creates
\* nothing more but the review of an application found late.
THEOREM NothingAfterDeciding == Spec => []NothingAfterDecision
<1>1. TypeOK /\ StageInv => NothingAfterDecision
  <2>1. CASE pc = "idle"
    BY <2>1, DOMAIN << >> = 1..0 DEF TypeOK, NothingAfterDecision
  <2> QED
    BY <2>1 DEF StageInv, TurnInv
<1> QED
  BY <1>1, StageInvariant, PTL

-----------------------------------------------------------------------------
(* The budget suffices, and the chain of tools is the one that was planned. *)

LEMMA SevenTools == IsFiniteSet(Tool) /\ Cardinality(Tool) = 7
<1> DEFINE A == {"order_lookup", "policy_search"}
           B == A \cup {"risk_check"}
           C == B \cup {"create_manual_review"}
           D == C \cup {"refund_apply"}
           E == D \cup {"create_ticket"}
<1>1. Tool = E \cup {"transfer_to_human"}
  BY Tools
<1>2. IsFiniteSet(A) /\ Cardinality(A) = 2
  <2>1. A = {"order_lookup"} \cup {"policy_search"}
    OBVIOUS
  <2>2. IsFiniteSet({"order_lookup"}) /\ Cardinality({"order_lookup"}) = 1
    BY FS_Singleton
  <2> QED
    BY <2>1, <2>2, FS_AddElement
<1>3. IsFiniteSet(B) /\ Cardinality(B) = 3
  BY <1>2, FS_AddElement
<1>4. IsFiniteSet(C) /\ Cardinality(C) = 4
  <2>1. "create_manual_review" \notin B
    OBVIOUS
  <2> QED
    BY <1>3, <2>1, FS_AddElement
<1>5. IsFiniteSet(D) /\ Cardinality(D) = 5
  <2>1. "refund_apply" \notin C
    OBVIOUS
  <2> QED
    BY <1>4, <2>1, FS_AddElement
<1>6. IsFiniteSet(E) /\ Cardinality(E) = 6
  <2>1. "create_ticket" \notin D
    OBVIOUS
  <2> QED
    BY <1>5, <2>1, FS_AddElement
<1>7. "transfer_to_human" \notin E
  OBVIOUS
<1> QED
  BY <1>1, <1>6, <1>7, FS_AddElement

LEMMA CalledCount ==
  /\ Cardinality(CalledTools) \in Nat
  /\ (\E t \in Tool : ~Called(t)) => Cardinality(CalledTools) <= 6
<1>1. IsFiniteSet(CalledTools) /\ CalledTools \subseteq Tool
  BY SevenTools, FS_Subset DEF CalledTools
<1>2. Cardinality(CalledTools) \in Nat
  BY <1>1, FS_CardinalityType
<1>3. ASSUME NEW t \in Tool, ~Called(t) PROVE Cardinality(CalledTools) <= 6
  <2>1. t \notin CalledTools /\ CalledTools \cup {t} \subseteq Tool
    BY <1>1, <1>3 DEF CalledTools
  <2>2. Cardinality(CalledTools \cup {t}) = Cardinality(CalledTools) + 1
    BY <1>1, <2>1, FS_AddElement
  <2>3. Cardinality(CalledTools \cup {t}) <= 7
    BY <2>1, SevenTools, FS_Subset
  <2> QED
    BY <1>2, <2>2, <2>3
<1> QED
  BY <1>2, <1>3

LEMMA OneMoreCalled ==
  ASSUME NEW t, NEW r, Calling(t), Answered(t, r), r.tool \in Tool
  PROVE  Cardinality(CalledTools)' = Cardinality(CalledTools) + 1
<1>1. IsFiniteSet(CalledTools)
  BY SevenTools, FS_Subset DEF CalledTools
<1>2. CalledTools' = CalledTools \cup {r.tool} /\ r.tool \notin CalledTools
  BY Tools, KnownAfter, AnswerHeard DEF CalledTools
<1> QED
  BY <1>1, <1>2, FS_AddElement

\* What is left to do was not called: some tool was not, at least.
LEMMA SomeUncalled ==
  ASSUME results \in Seq(Result), TurnInv, PlanInv, NEW t \in Tool, tasks[t] = "pending"
  PROVE  \E u \in Tool : ~Called(u)
<1>1. /\ ~Held(t) /\ Required(t)
      /\ ~(ReviewBlocksRefund /\ t \in {"refund_apply", "create_ticket"})
  BY DEF PlanInv, Planned
<1> SUFFICES ASSUME \A u \in Tool : Called(u) PROVE FALSE
  OBVIOUS
<1>2. Failed(t)
  BY <1>1, HeldIs DEF TurnInv
<1>3. t = "refund_apply"
  BY <1>2, FailuresAreRefusals
<1>4. ReviewAsked
  BY <1>2, <1>3, FailuresAreRefusals DEF ReviewAsked
<1>5. route.refund
  BY <1>1, <1>3, Requirements
<1>6. ~Held("create_manual_review")
  BY <1>1, <1>3, <1>4, <1>5 DEF ReviewBlocksRefund
<1>7. Failed("create_manual_review")
  BY <1>6, HeldIs, Tools DEF TurnInv
<1> QED
  BY <1>7, FailuresAreRefusals

\* The first task left is ready: what it depends on is completed.
LEMMA SomeReady ==
  ASSUME TurnInv, PlanInv, \A u \in Tool : tasks[u] # "running",
         \E t \in Tool : tasks[t] = "pending"
  PROVE  NextTask # {}
<1>1. PICK t \in Tool : tasks[t] = "pending" /\ \A u \in Before(t) : tasks[u] # "pending"
  BY Tools, BeforeIs
<1>2. Ready(t)
  <2>1. ASSUME NEW u \in DependsOn(t) PROVE tasks[u] = "completed"
    <3>1. /\ u \in Tool /\ Required(u)
          /\ tasks[u] # "pending" /\ tasks[u] \notin {"waiting", "skipped"}
      BY <1>1, Tools, BeforeIs DEF DependsOn
    <3> QED
      BY <3>1 DEF PlanInv, Planned
  <2> QED
    BY <1>1, <2>1 DEF Ready
<1>3. \A u \in Before(t) : ~Ready(u)
  BY <1>1 DEF Ready
<1> QED
  BY <1>1, <1>2, <1>3 DEF NextTask

\* The place of a tool that was called once.
LEMMA FirstIs ==
  ASSUME results \in Seq(Result), OneResultEach, NEW t \in Tool,
         NEW i \in DOMAIN results, results[i].tool = t
  PROVE  First(t) = i
<1>1. DOMAIN results = 1..Len(results) /\ Len(results) \in Nat
  OBVIOUS
<1>2. \A j \in 1 .. i - 1 : j \in DOMAIN results /\ j # i
  BY <1>1
<1>3. \A j \in 1 .. i - 1 : results[j].tool # t
  BY <1>2 DEF OneResultEach
<1>4. \A k \in DOMAIN results : results[k].tool = t => k = i
  BY DEF OneResultEach
<1> QED
  BY <1>3, <1>4 DEF First

LEMMA FollowsInOrder ==
  ASSUME results \in Seq(Result), OneResultEach, NEW a \in Tool, NEW b \in Tool,
         Follows(a, b), Called(b)
  PROVE  InOrder(a, b)
<1>1. PICK j \in DOMAIN results : results[j].tool = b
  BY DEF Called
<1>2. PICK i \in 1 .. j - 1 : results[i].tool = a
  BY <1>1 DEF Follows
<1>3. i \in DOMAIN results /\ i < j
  BY <1>1, <1>2, DOMAIN results = 1..Len(results), Len(results) \in Nat
<1>4. First(a) = i /\ First(b) = j
  BY <1>1, <1>2, <1>3, FirstIs
<1> QED
  BY <1>2, <1>3, <1>4 DEF InOrder, Called

LEMMA ChainHolds ==
  ASSUME results \in Seq(Result), TurnInv, route.order => Called("order_lookup")
  PROVE  ChainIsValid
<1>1. OneResultEach /\ ChainInv
  BY DEF TurnInv
<1>2. Called("order_lookup") => route.order
  BY <1>1 DEF ChainInv
<1>3. \A t : Follows(t, "refund_apply") /\ Called("refund_apply") => Called(t)
  BY FollowsCalled
<1>4. /\ Follows("order_lookup", "refund_apply") /\ Follows("policy_search", "refund_apply")
      /\ Follows("risk_check", "refund_apply")
  BY DEF TurnInv, RefundOnlyWhenCleared, Earlier, Follows
<1>5. Called("policy_search") /\ Called("order_lookup") => InOrder("order_lookup", "policy_search")
  BY <1>1, <1>2, FollowsInOrder, Tools DEF ChainInv
<1>6. Called("risk_check") => InOrder("order_lookup", "risk_check")
  BY <1>1, FollowsInOrder, Tools DEF ChainInv
<1>7. Called("refund_apply") => InOrder("risk_check", "refund_apply")
  BY <1>1, <1>4, FollowsInOrder, Tools
<1>8. Called("create_manual_review") /\ Called("risk_check") =>
        InOrder("risk_check", "create_manual_review")
  BY <1>1, FollowsInOrder, Tools DEF ChainInv
<1> QED
  BY <1>1, <1>3, <1>4, <1>5, <1>6, <1>7, <1>8 DEF ChainIsValid, ChainInv

LEMMA SameCount ==
  ASSUME UNCHANGED <<request, route, results>>
  PROVE  CalledTools' = CalledTools
BY SameKnowledge DEF CalledTools

\* What OwnersFollowThePlan is about.
NeverReason == {"invalid_task_plan", "task_dependencies_unresolved",
             "agent_loop_guard_reached", "tool_permission_denied", "no_progress"}

LEMMA OtherReasons ==
  ASSUME NEW s, s \in Reason \cup {None}
  PROVE  /\ s = None => s \notin NeverReason \cup {"invalid_tool_chain"}
         /\ s \in {"agent_execution_failed", "task_failed"} =>
              s \notin NeverReason \cup {"invalid_tool_chain"}
BY NoneAssumption DEF NeverReason, Reason

LEMMA BudgetStep ==
  ASSUME MaxSteps >= 7, TypeOK, StageInv, BudgetInv, [Next]_vars
  PROVE  BudgetInv'
<1>0. StageInv' /\ TypeOK'
  BY StepKeeps
<1>1. CASE BeginTurn
  <2>1. pc' = "plan" /\ stopped' = None
    BY <1>1 DEF BeginTurn, TypeOK
  <2> QED
    BY <1>0, <2>1, OtherReasons DEF BudgetInv, OwnersFollowThePlan, NeverReason
<1>2. CASE SkipAgents
  <2>1. pc' = "done" /\ stopped' = None
    BY <1>2 DEF SkipAgents, TypeOK
  <2> QED
    BY <1>0, <2>1, OtherReasons DEF BudgetInv, OwnersFollowThePlan, NeverReason
<1>3. CASE MakePlan
  <2>1. PlanIsValid(route)
    BY <1>3 DEF MakePlan, PlanIsValid, StageInv, TurnInv, RouteInv
  <2>2. /\ pc' = "pick" /\ stopped' = None /\ steps' = 0
        /\ UNCHANGED <<request, route, results>>
    BY <1>3, <2>1 DEF MakePlan, TypeOK
  <2>3. steps' <= Cardinality(CalledTools)'
    BY <2>2, SameCount, CalledCount
  <2> QED
    BY <1>0, <2>2, <2>3, OtherReasons DEF BudgetInv, OwnersFollowThePlan, NeverReason
<1>4. CASE StartTask
  <2>1. /\ pc = "pick" /\ pc' = "call" /\ steps' = steps + 1 /\ stopped' = None
        /\ UNCHANGED <<request, route, results>>
    BY <1>4 DEF StartTask
  <2>2. steps' <= Cardinality(CalledTools)' + 1
    BY <2>1, SameCount, CalledCount DEF BudgetInv, TypeOK
  <2> QED
    BY <1>0, <2>1, <2>2, OtherReasons DEF BudgetInv, OwnersFollowThePlan, NeverReason
<1>5. CASE StopPicking
  <2>1. /\ pc = "pick" /\ pc' = "check" /\ tasks' = Stopped(tasks)
        /\ stopped # None \/ steps = MaxSteps \/ NextTask = {}
        /\ UNCHANGED <<request, route, results>>
    BY <1>5 DEF StopPicking
  <2>2. /\ results \in Seq(Result) /\ TurnInv /\ PlanInv /\ stopped = None
        /\ \A t \in Tool : tasks[t] # "running"
    BY <2>1 DEF TypeOK, StageInv, PlanInv
  <2>3. ASSUME NEW t \in Tool, tasks[t] = "pending" PROVE FALSE
    <3>1. steps <= 6
      BY <2>1, <2>2, <2>3, SomeUncalled, CalledCount DEF BudgetInv, TypeOK
    <3>2. NextTask # {}
      BY <2>2, <2>3, SomeReady
    <3>3. steps # MaxSteps
      BY <3>1 DEF TypeOK
    <3> QED
      BY <2>1, <2>2, <3>2, <3>3
  <2>4. stopped' = None
    BY <1>5, <2>2, <2>3 DEF StopPicking
  <2>5. route'.order => Called("order_lookup")'
    <3>1. Planned("order_lookup") /\ tasks["order_lookup"] \notin {"pending", "running"}
      BY <2>2, <2>3, Tools DEF PlanInv
    <3>2. route.order => Held("order_lookup")
      BY <2>2, <3>1, Requirements DEF Planned
    <3>3. Held("order_lookup") => Called("order_lookup")
      BY DEF Held, Called
    <3> QED
      BY <2>1, <3>2, <3>3, SameChain
  <2> QED
    BY <1>0, <2>1, <2>4, <2>5, OtherReasons
       DEF BudgetInv, OwnersFollowThePlan, NeverReason
<1>6. CASE Dispatch
  <2>1. pc = "call" /\ pc' = "observe" /\ UNCHANGED <<request, tasks, steps>>
    BY <1>6 DEF Dispatch
  <2>2. PICK t \in Tool : Calling(t)
    BY <2>1, CallingIs
  <2>3. PICK r \in Result : Answered(t, r) /\ answer' = r
    BY <1>6, <2>2, DispatchIs
  <2>4. stopped' \notin NeverReason \cup {"invalid_tool_chain"}
    BY <2>2, <2>3, BlocksIs DEF NeverReason
  <2>5. answer'.tool \in Tool => steps' <= Cardinality(CalledTools)'
    BY <2>1, <2>2, <2>3, OneMoreCalled, CalledCount DEF BudgetInv, TypeOK
  <2> QED
    BY <2>1, <2>4, <2>5 DEF BudgetInv, OwnersFollowThePlan, NeverReason
<1>7. CASE AgentRaises
  <2>1. /\ pc = "call" /\ pc' = "check" /\ stopped' = "agent_execution_failed"
        /\ tasks' = Stopped([tasks EXCEPT ![Running] = "failed"])
        /\ UNCHANGED <<request, route, results>>
    BY <1>7 DEF AgentRaises
  <2>2. PICK t \in Tool : Calling(t)
    BY <2>1, CallingIs
  <2>3. Running = t
    BY <2>2, RunningIs DEF Calling
  <2>4. tasks'[t] = "failed"
    BY <2>1, <2>2, <2>3 DEF Stopped, TypeOK
  <2>5. route.order => Called("order_lookup") \/ t = "order_lookup"
    BY <2>2, Prior, Tools
  <2>6. route'.order => Called("order_lookup")' \/ tasks'["order_lookup"] = "failed"
    BY <2>1, <2>4, <2>5, SameChain
  <2> QED
    BY <1>0, <2>1, <2>6, OtherReasons
       DEF BudgetInv, OwnersFollowThePlan, NeverReason, TypeOK
<1>8. CASE Observe
  <2>1. /\ pc = "observe" /\ pc' = "pick" /\ Judged # "failed"
        /\ UNCHANGED <<request, route, results, steps, stopped>>
    BY <1>8 DEF Observe
  <2>2. answer.tool \in Tool /\ Excused(answer)
    BY <2>1, ObservedIs DEF Excused, ReviewNeeded
  <2>3. stopped' = None
    BY <2>1, <2>2, ObservedIs
  <2>4. steps' <= Cardinality(CalledTools)'
    BY <2>1, <2>2, SameCount DEF BudgetInv
  <2> QED
    BY <1>0, <2>1, <2>3, <2>4, OtherReasons
       DEF BudgetInv, OwnersFollowThePlan, NeverReason
<1>9. CASE TaskFails
  <2>1. /\ pc = "observe" /\ pc' = "check"
        /\ stopped' = Because(IF answer = None THEN "no_progress" ELSE "task_failed")
        /\ UNCHANGED <<request, route, results>>
    BY <1>9 DEF TaskFails
  <2>2. answer # None /\ (route.order => Called("order_lookup"))
    BY <2>1, ObservedIs
  <2>3. stopped' = stopped \/ stopped' = "task_failed"
    BY <2>1, <2>2 DEF Because
  <2>4. stopped \notin NeverReason \cup {"invalid_tool_chain"}
    BY <2>1 DEF BudgetInv, OwnersFollowThePlan, NeverReason
  <2>5. stopped' \notin NeverReason \cup {"invalid_tool_chain"}
    BY <2>3, <2>4 DEF NeverReason
  <2>6. route'.order => Called("order_lookup")'
    BY <2>1, <2>2, SameChain
  <2> QED
    BY <2>1, <2>5, <2>6 DEF BudgetInv, OwnersFollowThePlan, NeverReason
<1>10. CASE CheckChain
  <2>1. /\ pc = "check" /\ pc' = "done"
        /\ stopped' = IF ChainIsValid THEN stopped ELSE "invalid_tool_chain"
        /\ UNCHANGED <<request, route, tasks, results>>
    BY <1>10 DEF CheckChain
  <2>2. stopped \notin NeverReason \cup {"invalid_tool_chain"}
    BY <2>1 DEF BudgetInv, OwnersFollowThePlan, NeverReason
  <2>3. CASE route.order => Called("order_lookup")
    <3>1. ChainIsValid
      BY <2>1, <2>3, ChainHolds DEF TypeOK, StageInv
    <3> QED
      BY <2>1, <2>2, <3>1 DEF BudgetInv, OwnersFollowThePlan, NeverReason
  <2>4. CASE route.order /\ ~Called("order_lookup")
    <3>1. tasks["order_lookup"] = "failed"
      BY <2>1, <2>4 DEF BudgetInv
    <3>2. \E tool \in Tool : tasks'[tool] = "failed" /\ ~Called(tool)'
      BY <2>1, <2>4, <3>1, SameChain, Tools
    <3>3. stopped' \notin NeverReason
      BY <2>1, <2>2 DEF NeverReason
    <3> QED
      BY <2>1, <3>2, <3>3 DEF BudgetInv, OwnersFollowThePlan, NeverReason
  <2> QED
    BY <2>3, <2>4
<1>11. CASE EndTurn
  <2>1. pc' = "idle" /\ stopped' = None
    BY <1>11 DEF EndTurn
  <2> QED
    BY <1>0, <2>1, OtherReasons DEF BudgetInv, OwnersFollowThePlan, NeverReason
<1>12. CASE UNCHANGED vars
  <2>1. UNCHANGED <<request, route, results>> /\ UNCHANGED <<pc, tasks, answer, steps, stopped>>
    BY <1>12 DEF vars
  <2>2. OwnersFollowThePlan'
    BY <2>1, SameChain DEF BudgetInv, OwnersFollowThePlan
  <2> QED
    BY <2>1, <2>2, SameChain, SameCount DEF BudgetInv
<1> QED
  BY <1>1, <1>2, <1>3, <1>4, <1>5, <1>6, <1>7, <1>8, <1>9, <1>10, <1>11, <1>12 DEF Next

\* With a budget of seven tasks or more, and the default is twelve, planner and
\* owners agree: no owner calls another tool than its task's, no plan is
\* impossible or stuck, the budget suffices, and the chain of tools is valid.
THEOREM PlanIsFollowed ==
  ASSUME MaxSteps >= 7
  PROVE  Spec => []OwnersFollowThePlan
<1>1. Init => BudgetInv
  <2> SUFFICES ASSUME Init PROVE BudgetInv
    OBVIOUS
  <2>1. pc = "idle" /\ stopped = None
    BY DEF Init
  <2> QED
    BY <2>1, OtherReasons DEF BudgetInv, OwnersFollowThePlan, NeverReason
<1>2. TypeOK /\ StageInv /\ BudgetInv /\ [Next]_vars => BudgetInv'
  BY BudgetStep
<1>3. BudgetInv => OwnersFollowThePlan
  BY DEF BudgetInv
<1> QED
  BY <1>1, <1>2, <1>3, StageInvariant, PTL DEF Spec
=============================================================================
