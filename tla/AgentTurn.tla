------------------------------ MODULE AgentTurn ------------------------------
(***************************************************************************)
(* One turn of a conversation: the harness plans tasks from the route,     *)
(* gives one task at a time to the agent that owns it, looks at the result *)
(* and plans again (agent/harness, orchestrator, agents, state).           *)
(*                                                                         *)
(* The plan and the agents decide separately.  The harness picks a task    *)
(* and its owner; the owner then picks its tool from the shared state, not *)
(* from the task.  What the tools find is left open: other conversations,  *)
(* operators and workers change orders, refunds and reviews between two    *)
(* calls of a turn.                                                        *)
(***************************************************************************)
EXTENDS Routing, SequencesExt

CONSTANTS
  None,      \* what is not there
  MaxSteps   \* the task budget of a turn

ASSUME BudgetAssumption == MaxSteps \in Nat \ {0}

VARIABLES
  pc,        \* where the turn is
  request,   \* what the turn was given
  route,     \* the route, as results have changed it
  tasks,     \* per tool: the state of its task
  results,   \* the tool results so far
  answer,    \* the result of the running task's agent, if it called a tool
  steps,     \* tasks started
  stopped    \* why the turn was blocked

vars == <<pc, request, route, tasks, results, answer, steps, stopped>>

\* TASKS: the order in which tasks are listed and may depend on each other.
TaskOrder == <<"order_lookup", "policy_search", "risk_check", "create_manual_review",
               "refund_apply", "create_ticket", "transfer_to_human">>
Tool == ToSet(TaskOrder)
Owner(tool) == CASE tool = "policy_search" -> "customer_agent"
                 [] tool = "risk_check" -> "risk_agent"
                 [] OTHER -> "after_sales_agent"

Reason ==
  {"invalid_task_plan", "task_dependencies_unresolved", "agent_loop_guard_reached",
   "tool_permission_denied", "order_lookup_failed", "policy_search_failed",
   "risk_check_failed", "refund_apply_failed", "agent_execution_failed", "no_progress",
   "task_failed", "invalid_tool_chain"}

\* A task is "absent", "pending", "running", "completed", "failed", "skipped",
\* "waiting" (blocked by a review) or "stopped" (blocked by the end of the turn).

\* Results carry the facts that are read from them later.
Fact == RefundFact \cup {"signed", "in_warranty", "recent_update", "to_ship", "replay",
                        "open", "refund_review", "review_required", "pending_manual_review"}
Result ==
  [tool : Tool \cup {"ticket_decision", "refund_decision"}, ok : BOOLEAN, facts : SUBSET Fact]
Yields(tool, facts) == [tool |-> tool, ok |-> TRUE, facts |-> facts]
Fails(tool, facts) == [tool |-> tool, ok |-> FALSE, facts |-> facts]

ASSUME NoneAssumption == None \notin Tool \cup Reason /\ None \notin Result

-----------------------------------------------------------------------------
(* AgentState: what the turn knows.                                        *)

\* A field of the state holds the last result of its tool if that succeeded.
Held(tool) ==
  \E i \in DOMAIN results :
    /\ results[i].tool = tool /\ results[i].ok
    /\ \A j \in i + 1 .. Len(results) : results[j].tool # tool

Facts(tool) == UNION {results[i].facts : i \in {n \in DOMAIN results : results[n].tool = tool}}
Failed(tool) == \E i \in DOMAIN results : results[i].tool = tool /\ ~results[i].ok

ReviewAsked ==
  \/ route.review
  \/ "review_required" \in Facts("risk_check")
  \/ Failed("refund_apply") /\ "review_required" \in Facts("refund_apply")

\* Mutant: only the risk and the route ask for a review.
NeedsReviewAsked ==
  ~Held("create_manual_review") /\ route.order /\ ReviewAsked

NeedsManualReview ==
  /\ ~Held("create_manual_review") /\ route.order
  /\ ReviewAsked \/ "pending_manual_review" \in Facts("refund_apply")

\* The orchestrator's reading, which plans.
ReviewBlocksRefund ==
  /\ Held("create_manual_review") /\ ~Held("refund_apply") /\ route.refund
  /\ ReviewAsked

\* The agent's reading, which acts.
ReviewBlocksAgent ==
  /\ Held("create_manual_review") /\ ~Held("refund_apply") /\ route.refund
  /\ ReviewAsked \/ "pending_manual_review" \in Facts("refund_apply")

-----------------------------------------------------------------------------
(* The plan.                                                               *)

Required(tool) ==
  CASE tool = "order_lookup" -> route.order
    [] tool = "policy_search" -> route.policy
    [] tool = "risk_check" -> route.risk
    [] tool = "create_manual_review" ->
         route.order /\ (route.review \/ NeedsManualReview \/ Held("create_manual_review"))
    [] tool = "refund_apply" -> route.refund
    [] tool = "create_ticket" -> route.ticket
    [] OTHER -> route.handoff

\* The plan is rebuilt from what the state says now; what has ended stays.
Refreshed(ts) ==
  [tool \in Tool |->
    IF ts[tool] \in {"completed", "failed"} THEN ts[tool]
    ELSE IF ~Required(tool) THEN (IF ts[tool] = "absent" THEN "absent" ELSE "skipped")
    ELSE IF ReviewBlocksRefund /\ tool \in {"refund_apply", "create_ticket"} THEN "waiting"
    ELSE "pending"]

Before(tool) == {TaskOrder[i] : i \in {n \in DOMAIN TaskOrder :
                   \E m \in n + 1 .. Len(TaskOrder) : TaskOrder[m] = tool}}
\* Mutant: a task that waits for a review holds up what comes after it.
DependsOnAll(tool) == {t \in Before(tool) : Required(t)}
DependsOn(tool) == {t \in Before(tool) : Required(t) /\ tasks[t] \notin {"waiting", "skipped"}}

Ready(tool) == tasks[tool] = "pending" /\ \A t \in DependsOn(tool) : tasks[t] = "completed"
NextTask == {tool \in Tool : Ready(tool) /\ \A t \in Before(tool) : ~Ready(t)}

\* stop: whatever has not ended is given up; the first reason stays.
Stopped(ts) == [tool \in Tool |-> IF ts[tool] \in {"pending", "running"} THEN "stopped" ELSE ts[tool]]
Because(reason) == IF stopped = None THEN reason ELSE stopped

BeginTurn ==
  /\ pc = "idle"
  /\ \E q \in Request \cup Unrouted : request' = q /\ route' = Route(q)
  /\ pc' = "plan"
  /\ UNCHANGED <<tasks, results, answer, steps, stopped>>

SkipAgents ==
  /\ pc = "plan" /\ ShouldSkipAgents(route)
  /\ pc' = "done"
  /\ UNCHANGED <<request, route, tasks, results, answer, steps, stopped>>

MakePlan ==
  /\ pc = "plan" /\ ~ShouldSkipAgents(route)
  /\ IF PlanIsValid(route)
     THEN pc' = "pick" /\ tasks' = Refreshed(tasks) /\ UNCHANGED stopped
     ELSE pc' = "done" /\ stopped' = "invalid_task_plan" /\ UNCHANGED tasks
  /\ UNCHANGED <<request, route, results, answer, steps>>

StartTask ==
  /\ pc = "pick" /\ stopped = None /\ steps < MaxSteps
  /\ \E tool \in NextTask : tasks' = [tasks EXCEPT ![tool] = "running"]
  /\ steps' = steps + 1
  /\ pc' = "call"
  /\ UNCHANGED <<request, route, results, answer, stopped>>

\* Nothing to start: all settled, nothing ready, budget spent or blocked.
StopPicking ==
  /\ pc = "pick"
  /\ stopped # None \/ steps = MaxSteps \/ NextTask = {}
  /\ LET left == \E tool \in Tool : tasks[tool] = "pending" IN
     stopped' = IF ~left THEN stopped
                ELSE Because(IF steps = MaxSteps THEN "agent_loop_guard_reached"
                             ELSE "task_dependencies_unresolved")
  /\ tasks' = Stopped(tasks)
  /\ pc' = "check"
  /\ UNCHANGED <<request, route, results, answer, steps>>

-----------------------------------------------------------------------------
(* The agents.                                                             *)

Running == CHOOSE tool \in Tool : tasks[tool] = "running"

\* AfterSalesAgent.run: the first thing the shared state asks for.
AfterSalesTool ==
  IF route.order /\ ~Held("order_lookup") THEN "order_lookup"
  ELSE IF route.risk /\ ~Held("risk_check") THEN None
  ELSE IF NeedsManualReview THEN "create_manual_review"
  ELSE IF ~ReviewBlocksAgent /\ route.refund /\ ~Held("refund_apply") THEN "refund_apply"
  ELSE IF ~ReviewBlocksAgent /\ route.ticket /\ ~Held("create_ticket") THEN "create_ticket"
  ELSE IF route.handoff /\ ~Held("transfer_to_human") THEN "transfer_to_human"
  ELSE None

OwnerTool ==
  CASE Owner(Running) = "customer_agent" -> IF route.policy THEN "policy_search" ELSE None
    [] Owner(Running) = "risk_agent" -> IF route.risk /\ route.order THEN "risk_check" ELSE None
    [] OTHER -> AfterSalesTool

\* What a tool may answer.  A refund that was there already is a replay.
Replays(tool) == {Yields(tool, {"replay"}), Yields(tool, {"replay", "pending_manual_review"})}
ReviewReplays == {Yields("create_manual_review", facts) :
                    facts \in {{"replay", "refund_review"}, {"replay", "refund_review", "open"},
                               {"replay", "refund_exists"}}}
Answers(tool) ==
  {Fails(tool, {})} \cup
  CASE tool = "order_lookup" -> {Yields(tool, facts) : facts \in SUBSET OrderFact(route)}
    [] tool = "policy_search" -> {Yields(tool, {})}
    [] tool = "risk_check" -> {Yields(tool, {}), Yields(tool, {"review_required"})}
    [] tool = "create_manual_review" ->
         {Yields(tool, {"open"})} \cup (IF route.refund THEN ReviewReplays ELSE {})
    [] tool = "refund_apply" ->
         {Yields(tool, {}), Yields(tool, {"pending_manual_review"}), Fails(tool, {"review_required"})}
         \cup Replays(tool)
    [] OTHER -> {Yields(tool, {})}

\* task_tool_scope denies what the task did not ask for; the ticket's rules are
\* asked before its tool is.
Outcomes(tool) ==
  IF tool # Running THEN {Fails(tool, {})}
  ELSE IF tool = "create_ticket" /\ ~CanCreateTicket(route, Facts("order_lookup"))
       THEN {Fails("ticket_decision", {})}
  ELSE Answers(tool)

\* Mutant: what the order says of earlier refunds is not looked at.
PreconditionOfReplay(r) ==
  r.tool \in {"refund_apply", "create_manual_review"} /\ "replay" \in r.facts

\* handle_agent_result.
Precondition(r) ==
  \/ r.tool = "order_lookup" /\ route.refund /\ r.facts \cap RefundFact # {}
  \/ r.tool = "refund_apply" /\ "replay" \in r.facts
  \/ r.tool = "create_manual_review" /\ "replay" \in r.facts
     /\ r.facts \cap {"refund_exists", "refund_review"} # {}

Promoted(r) ==
  [route EXCEPT !.review = @ \/ (r.tool = "risk_check" /\ "review_required" \in r.facts)]

Blocks(r) ==
  IF r.ok THEN None
  ELSE IF r.tool \notin {Running, "ticket_decision"} THEN "tool_permission_denied"
  ELSE
  CASE r.tool = "order_lookup" -> "order_lookup_failed"
    [] r.tool = "policy_search" -> "policy_search_failed"
    [] r.tool = "risk_check" -> "risk_check_failed"
    [] r.tool = "refund_apply" /\ "review_required" \notin r.facts -> "refund_apply_failed"
    [] OTHER -> None

Receive(r) ==
  /\ answer' = r
  /\ IF r.ok /\ Precondition(r)
     THEN /\ results' = results \o <<r, Yields("refund_decision", {})>>
          /\ route' = WithoutWrites(route)
     ELSE /\ results' = Append(results, r)
          /\ route' = IF r.ok THEN Promoted(r) ELSE route
  /\ stopped' = Blocks(r)

Dispatch ==
  /\ pc = "call"
  /\ IF OwnerTool = None
     THEN answer' = None /\ UNCHANGED <<results, route, stopped>>
     ELSE \E r \in Outcomes(OwnerTool) : Receive(r)
  /\ pc' = "observe"
  /\ UNCHANGED <<request, tasks, steps>>

\* An exception that no tool result reports.
AgentRaises ==
  /\ pc = "call"
  /\ tasks' = Stopped([tasks EXCEPT ![Running] = "failed"])
  /\ stopped' = "agent_execution_failed"
  /\ pc' = "check"
  /\ UNCHANGED <<request, route, results, answer, steps>>

-----------------------------------------------------------------------------
(* What the harness makes of the result.                                   *)

\* A refund that was refused for review waits for it; the refund agent's other
\* failures, and an owner that called nothing, end the turn.
Judged ==
  IF answer = None \/ answer.tool # Running THEN "failed"
  ELSE IF answer.ok THEN "completed"
  ELSE IF Running = "refund_apply" /\ "review_required" \in answer.facts THEN "waiting"
  ELSE "failed"

Observe ==
  /\ pc = "observe" /\ Judged # "failed"
  /\ tasks' = Refreshed([tasks EXCEPT ![Running] = Judged])
  /\ answer' = None
  /\ pc' = "pick"
  /\ UNCHANGED <<request, route, results, steps, stopped>>

TaskFails ==
  /\ pc = "observe" /\ Judged = "failed"
  /\ tasks' = Stopped([tasks EXCEPT ![Running] = "failed"])
  /\ stopped' = Because(IF answer = None THEN "no_progress" ELSE "task_failed")
  /\ answer' = None
  /\ pc' = "check"
  /\ UNCHANGED <<request, route, results, steps>>

-----------------------------------------------------------------------------
(* The end of the turn.                                                    *)

Called(tool) == \E i \in DOMAIN results : results[i].tool = tool
First(tool) == CHOOSE i \in DOMAIN results :
                 results[i].tool = tool /\ \A j \in 1 .. i - 1 : results[j].tool # tool
InOrder(tool, later) == Called(tool) /\ (Called(later) => First(tool) < First(later))

\* validate_tool_chain; where it looks for the place of a tool that was not
\* called it raises, which ends the turn as an invalid chain would.
ChainIsValid ==
  /\ route.order => Called("order_lookup")
  /\ Called("policy_search") /\ Called("order_lookup") => InOrder("order_lookup", "policy_search")
  /\ Called("create_ticket") =>
       Called("order_lookup") /\ (route.policy => Called("policy_search")) /\ ~Called("ticket_decision")
  /\ Called("risk_check") => InOrder("order_lookup", "risk_check")
  /\ Called("refund_apply") =>
       /\ Called("order_lookup") /\ (route.policy => Called("policy_search"))
       /\ InOrder("risk_check", "refund_apply")
  /\ Called("create_manual_review") /\ Called("risk_check") =>
       InOrder("risk_check", "create_manual_review")
  /\ Failed("order_lookup") =>
       \A tool \in {"policy_search", "ticket_decision", "create_ticket"} : ~Called(tool)
  /\ Failed("policy_search") => ~Called("create_ticket")

CheckChain ==
  /\ pc = "check"
  /\ stopped' = IF ChainIsValid THEN stopped ELSE "invalid_tool_chain"
  /\ pc' = "done"
  /\ UNCHANGED <<request, route, tasks, results, answer, steps>>

NoTask == [tool \in Tool |-> "absent"]

EndTurn ==
  /\ pc = "done"
  /\ pc' = "idle"
  /\ request' = None /\ route' = None /\ tasks' = NoTask /\ results' = <<>>
  /\ answer' = None /\ steps' = 0 /\ stopped' = None

Init ==
  /\ pc = "idle"
  /\ request = None /\ route = None /\ tasks = NoTask /\ results = <<>>
  /\ answer = None /\ steps = 0 /\ stopped = None

Next == \/ BeginTurn \/ SkipAgents \/ MakePlan \/ StartTask \/ StopPicking
        \/ Dispatch \/ AgentRaises \/ Observe \/ TaskFails \/ CheckChain \/ EndTurn

Spec == Init /\ [][Next]_vars

-----------------------------------------------------------------------------
(* Properties.                                                             *)

\* Planner, owners and checks agree: the route never asks for an impossible
\* plan, no owner calls another tool than its task's or none at all, no task
\* waits for one that cannot complete, the budget suffices, and the chain that
\* was executed passes its validation, unless an agent raised before its tool
\* had answered.
OwnersFollowThePlan ==
  /\ stopped \notin {"invalid_task_plan", "task_dependencies_unresolved",
                     "agent_loop_guard_reached", "tool_permission_denied", "no_progress"}
  /\ stopped = "invalid_tool_chain" => \E tool \in Tool : tasks[tool] = "failed" /\ ~Called(tool)

Earlier(i, tool, facts) ==
  \E j \in 1 .. i - 1 : results[j].tool = tool /\ results[j].ok /\ results[j].facts \cap facts = {}

\* A refund is applied for, once, only after the order was found paid and free
\* of refunds, the policy was found and the risk was found low, by a request
\* that does not ask to go round the review, and never after a review was
\* opened for it.
RefundOnlyWhenCleared ==
  \A i \in DOMAIN results : results[i].tool = "refund_apply" =>
    /\ request.intent = "return_refund" /\ Executes(request)
    /\ request.signals \cap {"bypass", "handoff"} = {}
    /\ Earlier(i, "order_lookup", RefundFact)
    /\ Earlier(i, "policy_search", {})
    /\ Earlier(i, "risk_check", {"review_required"})
    /\ \A j \in 1 .. i - 1 : results[j].tool \notin {"refund_apply", "create_manual_review"}

\* A turn that was not blocked leaves no promise open: a refund that waits for
\* a review, a refusal or a risk that asks for one has its review by then; a
\* refund that goes ahead has its ticket; one that does not, or turns out to
\* exist already, has none.
PromisesKept ==
  (pc = "done" /\ stopped = None) =>
    /\ (\/ "review_required" \in Facts("refund_apply") \cup Facts("risk_check")
        \/ "pending_manual_review" \in Facts("refund_apply")) => Held("create_manual_review")
    /\ request # None /\ RequiresRefund(request) =>
         (Held("create_ticket") <=> Held("refund_apply") /\ ~Called("refund_decision"))

\* A turn that has found an application for the refund creates nothing more,
\* no ticket, no handover and no second application; but it does open a review
\* when refund_apply itself found the application late and that one waits for a
\* review (need_refund_request is cleared, needs_manual_review still holds).
NothingAfterDecision ==
  \A i, j \in DOMAIN results :
    /\ i < j /\ results[i].tool = "refund_decision"
    /\ results[j].tool \in {"refund_apply", "create_manual_review", "create_ticket", "transfer_to_human"}
    => results[j].tool = "create_manual_review" /\ "pending_manual_review" \in Facts("refund_apply")
=============================================================================
