----------------------------- MODULE ToolRuntime -----------------------------
(***************************************************************************)
(* The tool executor (tools/executor, registry, middleware): permission,   *)
(* then attempts, each in a daemon thread of its own that needs one of a    *)
(* bounded number of slots.  A caller that has waited long enough goes on   *)
(* without its thread, which keeps running, keeps its slot and may still    *)
(* take effect.  The slot of a thread that cannot be started is not freed. *)
(***************************************************************************)
EXTENDS Naturals, FiniteSets

CONSTANTS
  None,         \* what is not there
  Call,         \* calls of execute_agent_tool, each with its own caller
  Reading, Writing, \* calls of READ_ONLY and of SIDE_EFFECT tools
  OutOfScope,   \* calls the agent or the active task may not make
  WorkerLimit,  \* TOOL_TIMEOUT_WORKER_LIMIT
  MaxAttempts   \* of a READ_ONLY tool

ASSUME CallAssumption == /\ Call = Reading \cup Writing
                         /\ Reading \cap Writing = {}
                         /\ OutOfScope \subseteq Call
ASSUME LimitAssumption == WorkerLimit \in Nat \ {0} /\ MaxAttempts \in Nat \ {0}

Attempt == 1 .. MaxAttempts

\* An outcome of an attempt: a ToolResult, or an exception by its class.
Error == {"transient", "execution"}
Outcome == {"result"} \cup Error
Answer == Outcome \cup {"timeout", "denied"}

ASSUME NoneAssumption == None \notin Answer

VARIABLES
  slots,      \* free places of the BoundedSemaphore
  pc,         \* per call: where its caller is
  attempt,    \* per call: the attempt it is in
  answer,     \* per call: what it returned
  thread,     \* per call and attempt: the worker thread
  outcomes,   \* per call and attempt: the queue of size one
  effects     \* history: how often the callback of a call took effect

vars == <<slots, pc, attempt, answer, thread, outcomes, effects>>

Step == {"idle", "attempt", "starting", "waiting", "backoff", "done"}
\* A thread: no slot yet, not started, before and after the effect of its callback,
\* before the release of its slot, ended; or its slot was taken and it never ran.
Stage == {"none", "ready", "running", "acted", "ending", "ended", "lost"}

TypeOK ==
  /\ slots \in 0 .. WorkerLimit
  /\ pc \in [Call -> Step]
  /\ attempt \in [Call -> Attempt]
  /\ answer \in [Call -> Answer \cup {None}]
  /\ thread \in [Call -> [Attempt -> Stage]]
  /\ outcomes \in [Call -> [Attempt -> Outcome \cup {None}]]
  /\ effects \in [Call -> Nat]

-----------------------------------------------------------------------------
(* The caller.                                                             *)

Goto(c, step) == pc' = [pc EXCEPT ![c] = step]
KeepThreads == UNCHANGED <<slots, thread, outcomes, effects>>

Return(c, value) ==
  /\ Goto(c, "done")
  /\ answer' = [answer EXCEPT ![c] = value]

\* _permission_middleware: what the agent and the active task may not call
\* never reaches a thread.
BeginCall(c) ==
  /\ pc[c] = "idle"
  /\ IF c \in OutOfScope THEN Return(c, "denied")
                         ELSE Goto(c, "attempt") /\ UNCHANGED answer
  /\ KeepThreads /\ UNCHANGED attempt

\* Mutant: the class of the tool is not asked.
AnyRetryable(c, error) == error \in {"timeout", "transient"}

\* The policies of the registry: a timeout or a transient error is tried again,
\* for READ_ONLY tools.
Retryable(c, error) == c \in Reading /\ error \in {"timeout", "transient"}

\* The except clause of _execute_callback.
Fail(c, error) ==
  IF Retryable(c, error) /\ attempt[c] < MaxAttempts
  THEN Goto(c, "backoff") /\ UNCHANGED <<attempt, answer>>
  ELSE Return(c, error) /\ UNCHANGED attempt

BackoffEnds(c) ==
  /\ pc[c] = "backoff"
  /\ attempt' = [attempt EXCEPT ![c] = @ + 1]
  /\ Goto(c, "attempt")
  /\ KeepThreads /\ UNCHANGED answer

SetThread(c, stage) == thread' = [thread EXCEPT ![c][attempt[c]] = stage]

Acquire(c) ==
  /\ slots > 0
  /\ slots' = slots - 1
  /\ SetThread(c, "ready")
  /\ Goto(c, "starting")
  /\ UNCHANGED <<attempt, answer, outcomes, effects>>

\* Mutant: the caller waits for a slot.
AcquireBlocking(c) == pc[c] = "attempt" /\ Acquire(c)

\* acquire(blocking=False).
AcquireSlot(c) ==
  /\ pc[c] = "attempt"
  /\ \/ Acquire(c)
     \/ slots = 0 /\ Fail(c, "transient") /\ KeepThreads

\* worker.start(): when the process can have no more threads it raises a
\* RuntimeError, and invoke, which alone releases the slot, will not run.
Start(c) ==
  /\ pc[c] = "starting"
  /\ \/ SetThread(c, "running") /\ Goto(c, "waiting") /\ UNCHANGED <<attempt, answer>>
     \/ SetThread(c, "lost") /\ Fail(c, "execution")
  /\ UNCHANGED <<slots, outcomes, effects>>

\* Mutant: the caller takes whatever one of its attempts has put.
TakeAny(c) ==
  /\ pc[c] = "waiting"
  /\ \E a \in Attempt :
       /\ outcomes[c][a] # None
       /\ IF outcomes[c][a] = "result" THEN Return(c, "result") /\ UNCHANGED attempt
                                       ELSE Fail(c, outcomes[c][a])
       /\ outcomes' = [outcomes EXCEPT ![c][a] = None]
  /\ UNCHANGED <<slots, thread, effects>>

\* The thread's outcome arrives in time.
TakeOutcome(c) ==
  LET outcome == outcomes[c][attempt[c]]
  IN  /\ pc[c] = "waiting"
      /\ outcome # None
      /\ IF outcome = "result" THEN Return(c, outcome) /\ UNCHANGED attempt
                               ELSE Fail(c, outcome)
      /\ outcomes' = [outcomes EXCEPT ![c][attempt[c]] = None]
      /\ UNCHANGED <<slots, thread, effects>>

\* Mutant: the caller gives the slot of the thread it leaves back.
TimeoutReleases(c) ==
  /\ pc[c] = "waiting"
  /\ slots' = IF slots < WorkerLimit THEN slots + 1 ELSE slots
  /\ Fail(c, "timeout")
  /\ UNCHANGED <<thread, outcomes, effects>>

\* The wait ends first.  The thread goes on.
TimeOut(c) ==
  /\ pc[c] = "waiting"
  /\ Fail(c, "timeout")
  /\ KeepThreads

CallerStep(c) ==
  \/ BackoffEnds(c) \/ AcquireSlot(c) \/ Start(c) \/ TakeOutcome(c) \/ TimeOut(c)

-----------------------------------------------------------------------------
(* The thread of an attempt (invoke).                                      *)

KeepCallers == UNCHANGED <<pc, attempt, answer>>

\* A tool with side effects commits them.
TakeEffect(c, a) ==
  /\ c \in Writing
  /\ thread[c][a] = "running"
  /\ thread' = [thread EXCEPT ![c][a] = "acted"]
  /\ effects' = [effects EXCEPT ![c] = @ + 1]
  /\ KeepCallers /\ UNCHANGED <<slots, outcomes>>

\* It returns, or raises, with or without having taken effect.
PutOutcome(c, a) ==
  /\ thread[c][a] \in {"running", "acted"}
  /\ \E v \in Outcome : outcomes' = [outcomes EXCEPT ![c][a] = v]
  /\ thread' = [thread EXCEPT ![c][a] = "ending"]
  /\ KeepCallers /\ UNCHANGED <<slots, effects>>

\* The finally clause: only after the outcome is there.
ReleaseSlot(c, a) ==
  /\ thread[c][a] = "ending"
  /\ slots' = slots + 1
  /\ thread' = [thread EXCEPT ![c][a] = "ended"]
  /\ KeepCallers /\ UNCHANGED <<outcomes, effects>>

ThreadStep(c, a) == TakeEffect(c, a) \/ PutOutcome(c, a) \/ ReleaseSlot(c, a)

-----------------------------------------------------------------------------
(* The specification.                                                      *)

Init ==
  /\ slots = WorkerLimit
  /\ pc = [c \in Call |-> "idle"]
  /\ attempt = [c \in Call |-> 1]
  /\ answer = [c \in Call |-> None]
  /\ thread = [c \in Call |-> [a \in Attempt |-> "none"]]
  /\ outcomes = [c \in Call |-> [a \in Attempt |-> None]]
  /\ effects = [c \in Call |-> 0]

Next == \E c \in Call :
  \/ BeginCall(c) \/ CallerStep(c)
  \/ \E a \in Attempt : ThreadStep(c, a)

Spec == Init /\ [][Next]_vars

\* A caller's waits are timed, so its steps come.  Nothing is asked of a
\* tool: it may hang for ever.
FairSpec == Spec /\ \A c \in Call : WF_vars(CallerStep(c))

-----------------------------------------------------------------------------
(* Properties.                                                             *)

Holding == {ca \in Call \X Attempt : thread[ca[1]][ca[2]] \notin {"none", "ended"}}

\* Every slot is free or held by one attempt: by its live thread, which may
\* outlive its caller by any time, or by its caller on the way to worker.start().
\* A slot is lost for good by nothing but a start that raises: that attempt is
\* its call's last, has no effect and no outcome, and is answered as an execution
\* error, so no capacity disappears without a failed call to tell of it
\* (_run_with_timeout, _execute_callback).
SlotsAccounted ==
  /\ slots + Cardinality(Holding) = WorkerLimit
  /\ \A c \in Call, a \in Attempt :
       /\ thread[c][a] = "ready" => pc[c] = "starting" /\ a = attempt[c]
       /\ thread[c][a] = "lost" =>
            /\ answer[c] = "execution" /\ a = attempt[c] /\ outcomes[c][a] = None
            /\ c \in Writing => effects[c] = 0

\* A call of a tool with side effects takes effect at most once, whether it is
\* answered, times out, or fails half way, and a refused call never does
\* (_execute_callback, _permission_middleware).
SideEffectOnce == \A c \in Call :
  /\ c \in Writing => effects[c] <= 1
  /\ answer[c] = "denied" => effects[c] = 0

\* What a call is told is how its last attempt ended: a late outcome of an
\* attempt that was given up is not taken for that of the one which replaced it,
\* and a result or an error that is not a timeout says that this attempt
\* will not take effect any more.
AnswerOfLastAttempt == \A c \in Call :
  LET stage == thread[c][attempt[c]] IN
  /\ answer[c] = "result" => stage \in {"ending", "ended"}
  /\ answer[c] = "execution" => stage \in {"ending", "ended", "lost"}

\* Every call is answered, although no tool ever needs to come back and
\* abandoned threads may hold every slot.
EveryCallAnswered == \A c \in Call : pc[c] = "attempt" ~> pc[c] = "done"
=============================================================================
