----------------------------- MODULE DurableRun -----------------------------
(* A durable run is one turn of a conversation as a graph of six nodes with  *)
(* a checkpoint after each (src/app/agent/entry/durable_runtime.py).  What a *)
(* process had not checkpointed when it died, or when the reader of the      *)
(* stream left, is done again from the start of the node, with the effects   *)
(* of the first attempt in the database: the pending task, the handoff       *)
(* ticket, the refund, its review, the persisted turn.  The nodes are those  *)
(* of src/app/agent/entry/workflow.py; the router and the model may answer   *)
(* an attempt differently from the one before, and operators, the worker and *)
(* the customer may have gone on with what it wrote.                         *)
EXTENDS Naturals, Sequences

CONSTANTS Conversation,
          MaxRuns,    \* bound: turns that are asked for
          MaxStops,   \* bound: crashes and readers that leave
          Window,     \* turns of a history that a run reads at most
          None

ASSUME RunsAssumption == MaxRuns \in Nat /\ MaxStops \in Nat /\ Window \in Nat

Run == 1..MaxRuns
Node == <<"load_context", "route", "orchestrate_agents", "build_model_context",
          "generate_reply", "persist_result">>
After(node) ==
  LET i == CHOOSE n \in DOMAIN Node : Node[n] = node
  IN IF i = Len(Node) THEN "end" ELSE Node[i + 1]

VARIABLES conv,      \* conv[r]: the conversation in run_owners, None without a row
          saved,     \* saved[r]: the last checkpoint, None without one
          exec,      \* the attempt in progress under the two locks, or None
          history,   \* history[c]: the turns persisted
          pending,   \* pending[c]: the request that waits for its slots, or None
          effects,   \* effects[q]: the refund, reviews and tickets of request q
          astray,    \* requests that are answered and still pending
          dropped,   \* requests the user took back while they were pending
          stops      \* crashes and departures so far

vars == <<conv, saved, exec, history, pending, effects, astray, dropped, stops>>

Verdict == {"clarify", "refund", "handoff", "none"}
Message == {"request", "slots", "cancel"}

\* What a checkpoint holds of the state of the graph.
WorkflowState ==
  [next : {Node[i] : i \in DOMAIN Node} \cup {"end"}, message : Message, seen : SUBSET Nat,
   task : Run \cup {None}, cancelled : BOOLEAN, verdict : Verdict \cup {None},
   reply : Nat \cup {None}]
\* An attempt at a node: its tools may be between two calls.
Execution ==
  [run : Run, at : {"start", "applied", "reviewed", "done"}, out : WorkflowState \cup {None}]

ASSUME NoneAssumption ==
  None \notin Conversation /\ None \notin Nat /\ None \notin Verdict
    /\ None \notin WorkflowState /\ None \notin Execution

\* A request is named after the run whose message made it.
Start(message) ==
  [next |-> "load_context", message |-> message, seen |-> {}, task |-> None,
   cancelled |-> FALSE, verdict |-> None, reply |-> None]

\* A refund waits for its review, moves on without one, or is over: rejected,
\* withdrawn or failed, and not active any more.
Refund == {"none", "waiting", "moving", "over"}
\* Of the reviews that were opened some are closed, and the last one may name the
\* refund.  A request is about an order of its own.
NoEffects ==
  [refund |-> "none", review |-> 0, closed |-> 0, related |-> FALSE,
   handoff |-> {}, tickets |-> 0]

Init ==
  /\ conv = [r \in Run |-> None]
  /\ saved = [r \in Run |-> None]
  /\ exec = None
  /\ history = [c \in Conversation |-> <<>>]
  /\ pending = [c \in Conversation |-> None]
  /\ effects = [q \in Run |-> NoEffects]
  /\ astray = {}
  /\ dropped = {}
  /\ stops = 0

-----------------------------------------------------------------------------
(* create: the row of the owner is committed before the first checkpoint.    *)

Unfinished(r) == saved[r] # None /\ saved[r].next # "end"

\* Mutant: an owner's row without a checkpoint counts as an unfinished run.
BlockedByRow(c) == \E r \in Run : conv[r] = c /\ (saved[r] = None \/ Unfinished(r))

Blocked(c) == \E r \in Run : conv[r] = c /\ Unfinished(r)

Create(r, c) ==
  /\ exec = None
  /\ conv[r] = None /\ \A s \in Run : s < r => conv[s] # None
  /\ ~Blocked(c)
  /\ conv' = [conv EXCEPT ![r] = c]
  /\ \/ /\ \E m \in Message : saved' = [saved EXCEPT ![r] = Start(m)]
        /\ UNCHANGED stops
     \/ /\ stops < MaxStops /\ stops' = stops + 1
        /\ UNCHANGED saved
  /\ UNCHANGED <<exec, history, pending, effects, astray, dropped>>

\* events: the first reading and every resume go on from the checkpoint.
Resume(r) ==
  /\ exec = None
  /\ Unfinished(r)
  /\ exec' = [run |-> r, at |-> "start", out |-> None]
  /\ UNCHANGED <<conv, saved, history, pending, effects, astray, dropped, stops>>

-----------------------------------------------------------------------------
(* The nodes.  An attempt leaves its update in exec.out; the checkpoint makes *)
(* it the state of the run.                                                  *)

AtNode(node) == exec # None /\ exec.at # "done" /\ saved[exec.run].next = node
Now == saved[exec.run]
Here == conv[exec.run]
Carried(r) == IF saved[r].task # None THEN saved[r].task ELSE r
Request == Carried(exec.run)

Leaves(update) == exec' = [exec EXCEPT !.at = "done", !.out = update]

\* pending_message_kind: a message is measured against the pending task.
Kind(task) ==
  CASE task = None -> "new"
    [] task # None /\ Now.message = "request" -> "replace"
    [] OTHER -> Now.message

\* get_pending_task: a task that is not recent any more is as good as none.
Recent == {pending[Here], None}

\* load_context reads whole turns from the end: no more than its limit of messages
\* holds, up to one that is too old, and as many as its limit of characters holds.
LastTurns(n) == {(k + 1)..n : k \in {m \in 0..n : n - m <= Window}}

LoadContext ==
  /\ AtNode("load_context")
  /\ \E task \in Recent, turns \in LastTurns(Len(history[Here])) :
       LET kind == Kind(task)
           taken == kind \in {"cancel", "replace"} IN
       /\ Leaves([Now EXCEPT !.seen = turns,
                             !.task = IF kind = "slots" THEN task ELSE None,
                             !.cancelled = kind = "cancel"])
       /\ pending' = [pending EXCEPT ![Here] = IF taken THEN None ELSE task]
       /\ dropped' = IF taken THEN dropped \cup {task} ELSE dropped
  /\ UNCHANGED <<conv, saved, history, effects, astray, stops>>

PendingAfter(verdict) ==
  CASE verdict = "clarify" -> Request
    [] verdict # "clarify" /\ Now.task # None -> None
    [] OTHER -> pending[Here]

RouteMessage ==
  /\ AtNode("route")
  /\ \E v \in IF Now.cancelled THEN {"none"} ELSE Verdict :
       /\ Leaves([Now EXCEPT !.verdict = v])
       /\ pending' = [pending EXCEPT ![Here] = PendingAfter(v)]
  /\ UNCHANGED <<conv, saved, history, effects, astray, dropped, stops>>

\* transfer_to_human names the ticket after the trace of the run.
HandOff(e, r) ==
  IF r \in e.handoff THEN e ELSE [e EXCEPT !.handoff = @ \cup {r}, !.tickets = @ + 1]

\* create_manual_review, with the order locked: it replays the review that is
\* pending, and there is nothing to review about a refund that moves.
ReviewPends(e) == e.closed < e.review
\* Mutant: only the refund is looked at.
ReviewRegardless(e) == e.refund # "moving"
ReviewAnew(e) == ~ReviewPends(e) /\ e.refund # "moving"
OpenReview(e) ==
  [e EXCEPT !.review = @ + 1, !.related = e.refund = "waiting" \/ exec.at = "applied"]

\* The tools of the turn, in the order the agent calls them: the refund, its
\* review, the handoff.  Any call may fail and end the turn's work.
\* Tickets of create_ticket and reviews of other kinds have no key and are written
\* again by every attempt; they are not counted here.
EndTools ==
  /\ Leaves(Now)
  /\ UNCHANGED effects

\* refund_apply: an order has one refund in its life (RefundApply).
ApplyRefund ==
  /\ Now.verdict = "refund" /\ exec.at = "start"
  /\ effects[Request].refund = "none"
  /\ \E status \in {"waiting", "moving"} : effects' = [effects EXCEPT ![Request].refund = status]
  /\ exec' = [exec EXCEPT !.at = "applied"]

\* The route, the risk or a refund that waits sends the turn to review, with or
\* without a refund of its own.  A turn that starts with a waiting refund finds it
\* on the order and writes nothing; nor does one whose review is a replay or not
\* required write anything after it.
RequestReview ==
  /\ Now.verdict = "refund" /\ exec.at \in {"start", "applied"}
  /\ LET e == effects[Request] IN
     /\ exec.at = "start" => e.refund # "waiting"
     /\ IF ReviewAnew(e)
        THEN /\ effects' = [effects EXCEPT ![Request] = OpenReview(e)]
             /\ exec' = [exec EXCEPT !.at = "reviewed"]
        ELSE EndTools

TransferToHuman ==
  /\ \/ Now.verdict = "handoff"
     \/ Now.verdict = "refund" /\ exec.at \in {"applied", "reviewed"}
  /\ effects' = [effects EXCEPT ![Request] = HandOff(@, exec.run)]
  /\ Leaves(Now)

Orchestrate ==
  /\ AtNode("orchestrate_agents")
  /\ EndTools \/ ApplyRefund \/ RequestReview \/ TransferToHuman
  /\ UNCHANGED <<conv, saved, history, pending, astray, dropped, stops>>

BuildModelContext ==
  /\ AtNode("build_model_context")
  /\ Leaves(Now)
  /\ UNCHANGED <<conv, saved, history, pending, effects, astray, dropped, stops>>

\* No two attempts find the same words: the reply is the number of stops
\* before it.
GenerateReply ==
  /\ AtNode("generate_reply")
  /\ Leaves([Now EXCEPT !.reply = stops])
  /\ UNCHANGED <<conv, saved, history, pending, effects, astray, dropped, stops>>

\* append_turn: the claim of the turn's id and both messages are one commit.  It
\* refuses a turn that was claimed with another reply; the reply comes from the
\* checkpoint, and HistoryIsTheTurns says that this never happens.
Turn == [run |-> exec.run, reply |-> Now.reply]
Claimed(c, r) == \E i \in DOMAIN history[c] : history[c][i].run = r
\* Mutant: the turn is appended without a claim, as outside durable runs.
AppendAnew(c) == Append(history[c], Turn)
AppendTurn(c) == IF Claimed(c, exec.run) THEN history[c] ELSE Append(history[c], Turn)

PersistResult ==
  /\ AtNode("persist_result")
  /\ history' = [history EXCEPT ![Here] = AppendTurn(Here)]
  /\ Leaves(Now)
  /\ UNCHANGED <<conv, saved, pending, effects, astray, dropped, stops>>

\* Of an ended run only the turn is read again.
Ended(out) == [out EXCEPT !.message = "request", !.task = None, !.cancelled = FALSE,
                          !.verdict = None]

\* Of what the tools wrote nobody reads more, when the request does not wait for a
\* later run, than how much of it there is.
Counted(e) == [e EXCEPT !.refund = "none", !.related = FALSE, !.closed = e.review]

\* The checkpoint is on disk before the next node starts (durability="sync").
Checkpoint ==
  /\ exec # None /\ exec.at = "done"
  /\ LET next == After(exec.out.next)
         out == [exec.out EXCEPT !.next = next]
     IN /\ saved' = [saved EXCEPT ![exec.run] = IF next = "end" THEN Ended(out) ELSE out]
        /\ exec' = IF next = "end" THEN None ELSE [exec EXCEPT !.at = "start", !.out = None]
        /\ astray' = IF out.verdict \notin {None, "clarify"} /\ pending[Here] = exec.run
                     THEN astray \cup {exec.run} ELSE astray
        /\ effects' = IF next = "build_model_context" /\ pending[Here] # Request
                      THEN [effects EXCEPT ![Request] = Counted(@)] ELSE effects
  /\ UNCHANGED <<conv, history, pending, dropped, stops>>

\* The process dies, a node raises, or the reader of the stream leaves.
Stop ==
  /\ exec # None
  /\ stops < MaxStops
  /\ exec' = None
  /\ stops' = stops + 1
  /\ UNCHANGED <<conv, saved, history, pending, effects, astray, dropped>>

-----------------------------------------------------------------------------
(* What others do meanwhile with what the tools wrote.  It matters until the *)
(* node has its checkpoint: no later node reads it.                          *)

InTools(q) == \E r \in Run :
  Unfinished(r) /\ saved[r].next = "orchestrate_agents" /\ Carried(r) = q
OnlyEffects == UNCHANGED <<conv, saved, exec, history, pending, astray, dropped, stops>>

\* resolve_review: a review that names a refund is decided while that waits; one
\* that names none is decided on the active refund, or, when there is none, the
\* approval creates the order's one refund.
Decidable(e) ==
  /\ ReviewPends(e)
  /\ e.refund = "waiting" \/ (~e.related /\ e.refund # "moving")

Approve(q) ==
  /\ InTools(q) /\ Decidable(effects[q]) /\ effects[q].refund # "over"
  /\ effects' = [effects EXCEPT ![q].refund = "moving", ![q].closed = @ + 1]
  /\ OnlyEffects

Reject(q) ==
  /\ InTools(q) /\ Decidable(effects[q])
  /\ effects' = [effects EXCEPT ![q].refund = IF @ = "waiting" THEN "over" ELSE @,
                                ![q].closed = @ + 1]
  /\ OnlyEffects

\* cancel_refund withdraws the pending review with the refund.
Withdraw(q) ==
  /\ InTools(q) /\ effects[q].refund \in {"waiting", "moving"}
  /\ effects' = [effects EXCEPT ![q].refund = "over", ![q].closed = effects[q].review]
  /\ OnlyEffects

\* The channel refuses the refund.
RefundFails(q) ==
  /\ InTools(q) /\ effects[q].refund = "moving"
  /\ effects' = [effects EXCEPT ![q].refund = "over"]
  /\ OnlyEffects

Elsewhere(q) == Approve(q) \/ Reject(q) \/ Withdraw(q) \/ RefundFails(q)

-----------------------------------------------------------------------------
(* The specification.                                                        *)

Attempt == LoadContext \/ RouteMessage \/ Orchestrate \/ BuildModelContext
             \/ GenerateReply \/ PersistResult

Next ==
  \/ \E r \in Run, c \in Conversation : Create(r, c)
  \/ \E r \in Run : Resume(r)
  \/ \E q \in Run : Elsewhere(q)
  \/ Attempt \/ Checkpoint \/ Stop

\* A stream that is read goes on; the initiator, whom the 409 sends back to
\* the unfinished run, resumes it.
Spec ==
  /\ Init /\ [][Next]_vars
  /\ WF_vars(Attempt \/ Checkpoint)
  /\ \A r \in Run : WF_vars(Resume(r))

-----------------------------------------------------------------------------
(* Properties.                                                             *)

\* The history of a conversation is its finished runs, each once, in the order
\* of their creation, with the reply their checkpoint holds.  What each has read is
\* an unbroken piece of the history that ends with the turn just before its own, a
\* piece no longer than the window and perhaps empty: never its own turn, never a
\* gap, however often persist_result or load_context was executed again
\* (memory.py:63-120, durable_runtime.py:77-96).
HistoryIsTheTurns ==
  \A c \in Conversation : LET h == history[c] IN
    /\ \A i, j \in DOMAIN h : i < j => h[i].run < h[j].run
    /\ \A i \in DOMAIN h : LET s == saved[h[i].run] IN
         h[i].reply = s.reply /\ s.seen \in LastTurns(i - 1)
    /\ \A r \in Run : conv[r] = c /\ saved[r] # None /\ saved[r].next = "end" => Claimed(c, r)

\* What a request leaves behind, however often its nodes are executed again and its
\* answers come in later turns (workflow.py:154-159, 233-251,
\* tools/human_review.py:61-91, 137-160): one handoff ticket; one pending review;
\* a further review only when an attempt was stopped after it had opened the one
\* before and that one was decided or withdrawn until the resume; and nothing at all
\* when the user took the request back while it was pending.  Except the astray:
\* when a route node has asked for a slot, and is executed again and sees no need
\* to, the task of the first attempt stays pending while its request is carried out.
RepeatsAreExplained ==
  \A q \in Run \ astray :
    LET e == effects[q] IN
    /\ e.tickets <= 1
    /\ e.review <= e.closed + 1
    /\ e.review <= stops + 1
    /\ q \in dropped => e = NoEffects

\* A conversation that refuses new turns accepts them again: no crash leaves a
\* run that blocks it and cannot be resumed (durable_runtime.py:82-96).
ConversationReopens == \A c \in Conversation : Blocked(c) ~> ~Blocked(c)
=============================================================================
