-------------------------- MODULE DurableRun_proofs --------------------------
(* Proofs about durable runs, for any number of conversations, runs and      *)
(* stops.  HistoryIsTheTurns speaks of what a conversation's history shows,  *)
(* and is not inductive: the order of the turns needs that only the newest   *)
(* run of a conversation is unfinished, and what a run has read ends where   *)
(* the history does only until its own turn is there (RunInv).               *)
(* RepeatsAreExplained needs to know who may still write for a request, the  *)
(* one unfinished run that carries it, or, while it is pending, a run to     *)
(* come, and that an attempt which is still to open a review has a stop for  *)
(* each one that was opened before it (RequestInv).                          *)
EXTENDS DurableRun, TLAPS

\* A row of the history; what the tools wrote for a request.
TurnRow == [run : Run, reply : Nat \cup {None}]
Effects == [refund : Refund, review : Nat, closed : Nat, related : BOOLEAN,
            handoff : SUBSET Run, tickets : Nat]

\* The values of the variables.
TypeOK ==
  /\ conv \in [Run -> Conversation \cup {None}]
  /\ saved \in [Run -> WorkflowState \cup {None}]
  /\ exec \in Execution \cup {None}
  /\ history \in [Conversation -> Seq(TurnRow)]
  /\ pending \in [Conversation -> Run \cup {None}]
  /\ effects \in [Run -> Effects]
  /\ astray \subseteq Run
  /\ dropped \subseteq Run
  /\ stops \in Nat

-----------------------------------------------------------------------------
(* The runs of a conversation.                                             *)

Together(r, s) == conv[r] = conv[s]

\* Rows are created one after the other, and a checkpoint after its row.
RowsInOrder ==
  /\ \A r, s \in Run : s < r /\ conv[r] # None => conv[s] # None
  /\ \A r \in Run : saved[r] # None => conv[r] # None

\* create: a conversation has one unfinished run, and it is the newest.
UnfinishedIsNewest ==
  \A r, s \in Run : Unfinished(r) /\ Together(r, s) /\ r # s => s < r /\ ~Unfinished(s)

\* The attempt in progress works on its run's checkpoint, and an update that waits
\* for its checkpoint differs from it in what its node computes.
AttemptIsOfRun ==
  exec # None =>
    /\ Unfinished(exec.run)
    /\ exec.at = "done" =>
         LET now == saved[exec.run]  out == exec.out IN
         /\ out # None
         /\ out.next = now.next
         /\ now.next # "generate_reply" => out.reply = now.reply
         /\ now.next # "load_context" => out.seen = now.seen
         /\ now.next = "load_context" => out.seen \in LastTurns(Len(history[conv[exec.run]]))
         /\ now.next = "persist_result" => Claimed(conv[exec.run], exec.run)

\* What a run has read and not yet answered ends where the history does.
SeenIsLast ==
  \A r \in Run :
    Unfinished(r) /\ saved[r].next # "load_context" /\ ~Claimed(conv[r], r) =>
      saved[r].seen \in LastTurns(Len(history[conv[r]]))

\* A turn in the history is of a run of the conversation that came to its last node.
TurnsAreRuns ==
  \A c \in Conversation : \A i \in DOMAIN history[c] :
    LET r == history[c][i].run IN
    /\ conv[r] = c
    /\ saved[r] # None
    /\ saved[r].next \in {"persist_result", "end"}

RunInv ==
  /\ RowsInOrder
  /\ UnfinishedIsNewest
  /\ AttemptIsOfRun
  /\ SeenIsLast
  /\ TurnsAreRuns
  /\ HistoryIsTheTurns

-----------------------------------------------------------------------------
(* What becomes of a request.                                              *)

Untouched(q) == effects[q] = NoEffects
Decided(r) == saved[r].verdict \notin {None, "clarify"}

\* A request has one pending review at most; a run that has no checkpoint has
\* written nothing.
OnceEach ==
  \A q \in Run : LET e == effects[q] IN
    /\ e.review <= e.closed + 1
    /\ e.handoff = {} => e.tickets = 0
    /\ saved[q] = None => Untouched(q)

\* A run that may still open a review before its tools have their checkpoint has a
\* stop for each review that was opened; no run opens two without one.
MayReview(r) ==
  /\ Unfinished(r) /\ saved[r].next = "orchestrate_agents"
  /\ ~(exec # None /\ exec.run = r /\ exec.at \in {"reviewed", "done"})
ReviewsOfStops ==
  /\ \A q \in Run \ astray : effects[q].review <= stops + 1
  /\ \A r \in Run : MayReview(r) /\ Carried(r) \notin astray =>
       effects[Carried(r)].review <= stops

\* A task that a run has taken up is an older run's request.
TasksAreOlder ==
  \A r \in Run : Unfinished(r) /\ saved[r].task # None =>
    LET q == saved[r].task IN
    /\ Together(q, r) /\ q # r /\ saved[q] # None
    /\ saved[r].next # "load_context"
    /\ q \notin astray => q \notin dropped

\* Nothing is done yet for a request that waits for its slots.
PendingIsFresh ==
  \A c \in Conversation : pending[c] # None =>
    LET q == pending[c] IN
    /\ conv[q] = c /\ saved[q] # None /\ saved[q].next # "load_context"
    /\ q \notin astray => Untouched(q) /\ q \notin dropped

\* The verdict is the route node's.
RoutedOnce ==
  \A r \in Run : Unfinished(r) /\ saved[r].next \in {"load_context", "route"} =>
    saved[r].verdict = None

\* The run that carries a request is the only one that names tickets for it, and
\* once it has decided, the request waits for nobody else.
CarriedIsOurs ==
  \A r \in Run : Unfinished(r) /\ Carried(r) \notin astray =>
    LET q == Carried(r) IN
    /\ effects[q].handoff \subseteq {r}
    /\ saved[r].next \in {"load_context", "route"} => Untouched(q)
    /\ Decided(r) => pending[conv[r]] # q

\* What an attempt leaves to its checkpoint, as far as the request goes.
LoadedIsPending ==
  exec # None /\ exec.at = "done" =>
    LET r == exec.run  now == saved[r]  out == exec.out IN
    /\ now.next = "load_context" /\ out.task # None =>
         out.task = pending[conv[r]] /\ out.task # r
    /\ now.next = "load_context" => out.verdict = now.verdict
    /\ now.next # "load_context" => out.task = now.task
    /\ now.next \notin {"load_context", "route"} => out.verdict = now.verdict
    /\ now.next = "route" =>
         /\ out.verdict # None
         /\ now.task # None /\ out.verdict # "clarify" => pending[conv[r]] = None

\* What the user took back, nobody carries.
DroppedIsUntouched ==
  \A q \in dropped :
    /\ saved[q] # None /\ ~Unfinished(q)
    /\ q \notin astray => Untouched(q)

\* One handoff ticket at most, as the property has it.
TicketsOnce == \A q \in Run \ astray : effects[q].tickets <= 1

RequestInv ==
  /\ OnceEach
  /\ ReviewsOfStops
  /\ TasksAreOlder
  /\ PendingIsFresh
  /\ RoutedOnce
  /\ CarriedIsOurs
  /\ LoadedIsPending
  /\ DroppedIsUntouched
  /\ TicketsOnce

-----------------------------------------------------------------------------
(* The nodes.                                                              *)

Names == {"load_context", "route", "orchestrate_agents", "build_model_context",
          "generate_reply", "persist_result"}

LEMMA NodeNames == {Node[i] : i \in DOMAIN Node} = Names
BY DEF Node, Names

LEMMA AfterNode ==
  /\ After("load_context") = "route"
  /\ After("route") = "orchestrate_agents"
  /\ After("orchestrate_agents") = "build_model_context"
  /\ After("build_model_context") = "generate_reply"
  /\ After("generate_reply") = "persist_result"
  /\ After("persist_result") = "end"
<1>1. DOMAIN Node = 1..6 /\ Len(Node) = 6
  BY DEF Node
<1>2. /\ Node[1] = "load_context" /\ Node[2] = "route" /\ Node[3] = "orchestrate_agents"
      /\ Node[4] = "build_model_context" /\ Node[5] = "generate_reply"
      /\ Node[6] = "persist_result"
  BY DEF Node
<1>3. \A n \in 1..6 : n = 1 \/ n = 2 \/ n = 3 \/ n = 4 \/ n = 5 \/ n = 6
  OBVIOUS
<1>4. \A n \in 1..6 : (CHOOSE k \in 1..6 : Node[k] = Node[n]) = n
  BY <1>2, <1>3
<1> QED
  BY <1>1, <1>2, <1>4 DEF After

-----------------------------------------------------------------------------
(* Types.                                                                  *)

LEMMA StateFields ==
  \A s \in WorkflowState :
    /\ s.next \in Names \cup {"end"} /\ s.message \in Message /\ s.seen \in SUBSET Nat
    /\ s.task \in Run \cup {None} /\ s.cancelled \in BOOLEAN
    /\ s.verdict \in Verdict \cup {None} /\ s.reply \in Nat \cup {None}
    /\ s # None
BY NodeNames, NoneAssumption DEF WorkflowState

LEMMA LastTurnsType == \A n \in Nat : LastTurns(n) \subseteq SUBSET Nat
<1> SUFFICES ASSUME NEW n \in Nat, NEW k \in 0..n PROVE (k + 1)..n \subseteq Nat
  BY DEF LastTurns
<1> QED
  OBVIOUS

LEMMA StateUpdates ==
  ASSUME NEW s \in WorkflowState
  PROVE  /\ \A n \in Names \cup {"end"} : [s EXCEPT !.next = n] \in WorkflowState
         /\ \A v \in Verdict : [s EXCEPT !.verdict = v] \in WorkflowState
         /\ \A n \in Nat : [s EXCEPT !.reply = n] \in WorkflowState
         /\ \A n \in SUBSET Nat, t \in Run \cup {None}, b \in BOOLEAN :
              [s EXCEPT !.seen = n, !.task = t, !.cancelled = b] \in WorkflowState
         /\ Ended(s) \in WorkflowState
<1> USE NodeNames DEF WorkflowState
<1>1. \A n \in Names \cup {"end"} : [s EXCEPT !.next = n] \in WorkflowState
  OBVIOUS
<1>2. \A v \in Verdict : [s EXCEPT !.verdict = v] \in WorkflowState
  OBVIOUS
<1>3. \A n \in Nat : [s EXCEPT !.reply = n] \in WorkflowState
  OBVIOUS
<1>4. \A n \in SUBSET Nat, t \in Run \cup {None}, b \in BOOLEAN :
        [s EXCEPT !.seen = n, !.task = t, !.cancelled = b] \in WorkflowState
  OBVIOUS
<1>5. Ended(s) \in WorkflowState
  BY DEF Ended, Message
<1> QED
  BY <1>1, <1>2, <1>3, <1>4, <1>5

LEMMA StartType == \A m \in Message : Start(m) \in WorkflowState
BY NodeNames DEF Start, WorkflowState, Names

LEMMA ExecutionFields ==
  \A e \in Execution :
    /\ e.run \in Run /\ e.at \in {"start", "applied", "reviewed", "done"}
    /\ e.out \in WorkflowState \cup {None}
    /\ e # None
BY NoneAssumption DEF Execution

LEMMA LeavesUpdate ==
  ASSUME exec \in Execution, NEW u \in WorkflowState, Leaves(u)
  PROVE  /\ exec' \in Execution /\ exec'.run = exec.run
         /\ exec'.at = "done" /\ exec'.out = u
BY DEF Execution, Leaves

LEMMA Working ==
  ASSUME TypeOK, RunInv, exec # None
  PROVE  /\ exec \in Execution /\ exec.run \in Run
         /\ saved[exec.run] \in WorkflowState /\ saved[exec.run].next \in Names
         /\ conv[exec.run] \in Conversation
         /\ exec.at = "done" => exec.out \in WorkflowState
<1>1. exec \in Execution /\ exec.run \in Run
  BY ExecutionFields DEF TypeOK
<1>2. Unfinished(exec.run)
  BY DEF RunInv, AttemptIsOfRun
<1>3. saved[exec.run] \in WorkflowState
  BY <1>1, <1>2 DEF TypeOK, Unfinished
<1>4. saved[exec.run].next \in Names
  BY <1>2, <1>3, StateFields DEF Unfinished
<1>5. conv[exec.run] \in Conversation
  BY <1>1, <1>2 DEF TypeOK, Unfinished, RunInv, RowsInOrder
<1>6. exec.at = "done" => exec.out \in WorkflowState
  BY <1>1, ExecutionFields DEF RunInv, AttemptIsOfRun
<1> QED
  BY <1>1, <1>3, <1>4, <1>5, <1>6

\* What an attempt at a node leaves to its checkpoint, as far as the history goes.
LeftBy(now, out) ==
  /\ out.next = now.next
  /\ now.next # "generate_reply" => out.reply = now.reply
  /\ now.next # "load_context" => out.seen = now.seen
  /\ now.next = "load_context" => out.seen \in LastTurns(Len(history[conv[exec.run]]))

LEMMA AttemptStep ==
  ASSUME TypeOK, RunInv, Attempt
  PROVE  /\ exec # None /\ exec.at # "done" /\ exec' \in Execution
         /\ exec'.run = exec.run
         /\ exec'.at = "done" =>
              exec'.out \in WorkflowState /\ LeftBy(saved[exec.run], exec'.out)
         /\ UNCHANGED <<conv, saved, astray, stops>>
         /\ \/ saved[exec.run].next # "persist_result" /\ history' = history
            \/ /\ saved[exec.run].next = "persist_result"
               /\ exec'.at = "done"
               /\ history' = [history EXCEPT ![conv[exec.run]] = AppendTurn(conv[exec.run])]
<1> DEFINE now == saved[exec.run]
           c == conv[exec.run]
<1>1. exec # None /\ exec.at # "done"
  BY DEF Attempt, LoadContext, RouteMessage, Orchestrate, BuildModelContext,
     GenerateReply,
         PersistResult, AtNode
<1>2. exec \in Execution /\ now \in WorkflowState /\ c \in Conversation /\ exec.run \in Run
  BY <1>1, Working
<1>3. UNCHANGED <<conv, saved, astray, stops>>
  BY DEF Attempt, LoadContext, RouteMessage, Orchestrate, BuildModelContext,
     GenerateReply,
         PersistResult
<1>4. Len(history[c]) \in Nat /\ pending[c] \in Run \cup {None} /\ stops \in Nat
  BY <1>2 DEF TypeOK
<1>5. CASE LoadContext
  <2>1. PICK task \in Recent, turns \in LastTurns(Len(history[c])) :
          Leaves([now EXCEPT !.seen = turns,
                             !.task = IF Kind(task) = "slots" THEN task ELSE None,
                             !.cancelled = Kind(task) = "cancel"])
    BY <1>5 DEF LoadContext, Now, Here
  <2> DEFINE t == IF Kind(task) = "slots" THEN task ELSE None
             b == Kind(task) = "cancel"
             u == [now EXCEPT !.seen = turns, !.task = t, !.cancelled = b]
  <2>2. t \in Run \cup {None} /\ b \in BOOLEAN /\ turns \in SUBSET Nat
    BY <1>4, <2>1, LastTurnsType DEF Recent, Here
  <2>3. u \in WorkflowState
    BY <1>2, <1>4, <2>2, StateUpdates
  <2>4. u.next = now.next /\ u.reply = now.reply /\ u.seen = turns
    BY <1>2 DEF WorkflowState
  <2>5. now.next = "load_context" /\ history' = history
    BY <1>5 DEF LoadContext, AtNode
  <2> QED
    BY <1>1, <1>2, <1>3, <2>1, <2>3, <2>4, <2>5, LeavesUpdate DEF LeftBy
<1>6. CASE RouteMessage
  <2>1. PICK v \in Verdict : Leaves([now EXCEPT !.verdict = v])
    BY <1>6 DEF RouteMessage, Now, Verdict
  <2> DEFINE u == [now EXCEPT !.verdict = v]
  <2>2. u \in WorkflowState
    BY <1>2, StateUpdates
  <2>3. u.next = now.next /\ u.reply = now.reply /\ u.seen = now.seen
    BY <1>2 DEF WorkflowState
  <2>4. now.next = "route" /\ history' = history
    BY <1>6 DEF RouteMessage, AtNode
  <2> QED
    BY <1>1, <1>2, <1>3, <2>1, <2>2, <2>3, <2>4, LeavesUpdate DEF LeftBy
<1>7. CASE Orchestrate
  <2>1. now.next = "orchestrate_agents" /\ history' = history
    BY <1>7 DEF Orchestrate, AtNode
  <2>2. \/ Leaves(now)
        \/ \E at \in {"applied", "reviewed"} : exec' = [exec EXCEPT !.at = at]
    BY <1>7
       DEF Orchestrate, EndTools, ApplyRefund, RequestReview, TransferToHuman, Now
  <2>3. CASE \E at \in {"applied", "reviewed"} : exec' = [exec EXCEPT !.at = at]
    BY <1>1, <1>2, <1>3, <2>1, <2>3 DEF Execution
  <2> QED
    BY <1>1, <1>2, <1>3, <2>1, <2>2, <2>3, LeavesUpdate DEF LeftBy
<1>8. CASE BuildModelContext
  BY <1>1, <1>2, <1>3, <1>8, LeavesUpdate DEF BuildModelContext, AtNode, Now, LeftBy
<1>9. CASE GenerateReply
  <2> DEFINE u == [now EXCEPT !.reply = stops]
  <2>1. u \in WorkflowState
    BY <1>2, <1>4, StateUpdates
  <2>2. u.next = now.next /\ u.seen = now.seen
    BY <1>2 DEF WorkflowState
  <2>3. now.next = "generate_reply" /\ history' = history /\ Leaves(u)
    BY <1>9 DEF GenerateReply, AtNode, Now
  <2> QED
    BY <1>1, <1>2, <1>3, <2>1, <2>2, <2>3, LeavesUpdate DEF LeftBy
<1>10. CASE PersistResult
  BY <1>1, <1>2, <1>3, <1>10, LeavesUpdate DEF PersistResult, AtNode, Now, Here, LeftBy
<1> QED
  BY <1>5, <1>6, <1>7, <1>8, <1>9, <1>10 DEF Attempt

\* What the operators, the worker, the customer and a checkpoint leave of what the
\* tools wrote.
Keeps(e, f) ==
  /\ f.review = e.review /\ f.handoff = e.handoff /\ f.tickets = e.tickets
  /\ e.review <= e.closed + 1 => f.review <= f.closed + 1
  /\ e = NoEffects => f = NoEffects

LEMMA CountedKeeps ==
  ASSUME NEW e \in Effects
  PROVE  Counted(e) \in Effects /\ Keeps(e, Counted(e))
<1>1. e.review \in Nat
  BY DEF Effects
<1>2. Counted(e) \in Effects
  BY <1>1 DEF Counted, Effects, Refund
<1>3. /\ Counted(e).review = e.review /\ Counted(e).handoff = e.handoff
      /\ Counted(e).tickets = e.tickets /\ Counted(e).closed = e.review
  BY DEF Counted, Effects
<1>4. e = NoEffects => Counted(e) = NoEffects
  <2> SUFFICES ASSUME e = NoEffects PROVE Counted(e) = NoEffects
    OBVIOUS
  <2>1. e.refund = "none" /\ e.related = FALSE /\ e.closed = e.review
    BY DEF NoEffects
  <2>2. Counted(e) = e
    BY <2>1 DEF Counted, Effects
  <2> QED
    BY <2>2
<1> QED
  BY <1>1, <1>2, <1>3, <1>4 DEF Keeps

LEMMA NothingKeeps == ASSUME NEW e \in Effects PROVE Keeps(e, e)
BY DEF Keeps

LEMMA ElsewhereStep ==
  ASSUME TypeOK, NEW q \in Run, Elsewhere(q)
  PROVE  /\ OnlyEffects
         /\ effects' \in [Run -> Effects]
         /\ \A p \in Run : Keeps(effects[p], effects'[p])
<1>1. PICK e \in Effects : e = effects[q]
  BY DEF TypeOK
<1>2. e.review \in Nat /\ e.closed \in Nat /\ e.refund \in Refund
  BY DEF Effects
<1>3. OnlyEffects
  BY DEF Elsewhere, Approve, Reject, Withdraw, RefundFails
<1> DEFINE Becomes(refund, closed) ==
             [e EXCEPT !.refund = refund, !.closed = closed]
<1>4. \E refund \in Refund, closed \in {e.closed, e.closed + 1, e.review} :
        /\ effects' = [effects EXCEPT ![q] = Becomes(refund, closed)]
        /\ e # NoEffects
        /\ e.review <= e.closed + 1 => e.review <= closed + 1
  <2>1. CASE Approve(q)
    <3>1. /\ e.closed < e.review
          /\ effects' = [effects EXCEPT ![q] = Becomes("moving", e.closed + 1)]
      BY <1>1, <2>1 DEF Approve, Decidable, ReviewPends
    <3> QED
      BY <1>2, <3>1 DEF NoEffects, Refund
  <2>2. CASE Reject(q)
    <3>1. e.closed < e.review
      <4>1. Decidable(e)
        BY <1>1, <2>2 DEF Reject
      <4> QED
        BY <4>1 DEF Decidable, ReviewPends
    <3>2. e # NoEffects /\ (e.review <= e.closed + 1 => e.review <= e.closed + 1 + 1)
      <4>1. e.review # 0 /\ (e.review <= e.closed + 1 => e.review <= e.closed + 1 + 1)
        BY <1>2, <3>1
      <4> QED
        BY <4>1 DEF NoEffects
    <3>3. CASE e.refund = "waiting"
      <4>1. effects' = [effects EXCEPT ![q] = Becomes("over", e.closed + 1)]
        BY <1>1, <2>2, <3>3 DEF Reject, TypeOK, Effects
      <4> QED
        BY <3>2, <4>1 DEF Refund
    <3>4. CASE e.refund # "waiting"
      <4>1. effects' = [effects EXCEPT ![q] = Becomes(e.refund, e.closed + 1)]
        BY <1>1, <2>2, <3>4 DEF Reject, TypeOK, Effects
      <4> QED
        BY <1>2, <3>2, <4>1
    <3> QED
      BY <3>3, <3>4
  <2>3. CASE Withdraw(q)
    <3>1. /\ e.refund # "none"
          /\ effects' = [effects EXCEPT ![q] = Becomes("over", e.review)]
      BY <1>1, <2>3 DEF Withdraw
    <3> QED
      BY <1>2, <3>1 DEF NoEffects, Refund
  <2>4. CASE RefundFails(q)
    <3>1. /\ e.refund # "none"
          /\ effects' = [effects EXCEPT ![q] = Becomes("over", e.closed)]
      BY <1>1, <2>4 DEF RefundFails, Effects
    <3> QED
      BY <1>2, <3>1 DEF NoEffects, Refund
  <2> QED
    BY <2>1, <2>2, <2>3, <2>4 DEF Elsewhere
<1>5. PICK refund \in Refund, closed \in {e.closed, e.closed + 1, e.review} :
        /\ effects' = [effects EXCEPT ![q] = Becomes(refund, closed)]
        /\ e # NoEffects
        /\ e.review <= e.closed + 1 => e.review <= closed + 1
  BY <1>4
<1>6. Becomes(refund, closed) \in Effects /\ Keeps(e, Becomes(refund, closed))
  <2>1. closed \in Nat
    BY <1>2, <1>5
  <2>2. /\ Becomes(refund, closed).review = e.review
        /\ Becomes(refund, closed).handoff = e.handoff
        /\ Becomes(refund, closed).tickets = e.tickets
        /\ Becomes(refund, closed).closed = closed
    BY DEF Effects
  <2>3. Becomes(refund, closed) \in Effects
    BY <1>5, <2>1 DEF Effects
  <2> HIDE DEF Becomes
  <2> QED
    BY <1>5, <2>2, <2>3 DEF Keeps
<1> HIDE DEF Becomes
<1>7. \A p \in Run : effects'[p] = IF p = q THEN Becomes(refund, closed) ELSE effects[p]
  BY <1>5 DEF TypeOK
<1>8. effects' \in [Run -> Effects]
  BY <1>5, <1>6 DEF TypeOK
<1>9. \A p \in Run : Keeps(effects[p], effects'[p])
  BY <1>1, <1>6, <1>7, NothingKeeps DEF TypeOK
<1> QED
  BY <1>3, <1>8, <1>9

\* What a checkpoint makes of an attempt.
LEMMA CheckpointStep ==
  ASSUME TypeOK, RunInv, Checkpoint
  PROVE  /\ exec # None /\ exec.at = "done"
         /\ \E row \in WorkflowState :
              /\ saved' = [saved EXCEPT ![exec.run] = row]
              /\ row.next = After(saved[exec.run].next)
              /\ row.next = "end" <=> saved[exec.run].next = "persist_result"
              /\ row.seen = exec.out.seen /\ row.reply = exec.out.reply
              /\ row.next # "end" =>
                   row.task = exec.out.task /\ row.verdict = exec.out.verdict
         /\ IF saved[exec.run].next = "persist_result" THEN exec' = None
            ELSE exec' \in Execution /\ exec'.run = exec.run /\ exec'.at = "start"
         /\ UNCHANGED <<conv, history, pending, dropped, stops>>
         /\ effects' \in [Run -> Effects]
         /\ \A q \in Run : Keeps(effects[q], effects'[q])
         /\ astray \subseteq astray' /\ astray' \subseteq Run
         /\ exec.out.verdict \notin {None, "clarify"} /\ pending[conv[exec.run]] = exec.run =>
              exec.run \in astray'
<1> DEFINE r == exec.run
           next == After(exec.out.next)
           out == [exec.out EXCEPT !.next = next]
           row == IF next = "end" THEN Ended(out) ELSE out
<1>1. exec # None /\ exec.at = "done"
  BY DEF Checkpoint
<1>2. /\ exec \in Execution /\ r \in Run /\ exec.out \in WorkflowState
      /\ saved[r].next \in Names /\ exec.out.next = saved[r].next
  BY <1>1, Working DEF RunInv, AttemptIsOfRun
<1>3. next \in Names \cup {"end"} /\ (next = "end" <=> saved[r].next = "persist_result")
  BY <1>2, AfterNode DEF Names
<1>4. out \in WorkflowState /\ row \in WorkflowState
  BY <1>2, <1>3, StateUpdates
<1>5. /\ out.next = next /\ out.seen = exec.out.seen /\ out.reply = exec.out.reply
      /\ out.task = exec.out.task /\ out.verdict = exec.out.verdict
  BY <1>2 DEF WorkflowState
<1>6. /\ row.next = next /\ row.seen = out.seen /\ row.reply = out.reply
      /\ next # "end" => row.task = out.task /\ row.verdict = out.verdict
  BY <1>4 DEF Ended, WorkflowState
<1>7. saved' = [saved EXCEPT ![r] = row]
  BY DEF Checkpoint
<1>8. IF next = "end" THEN exec' = None
      ELSE exec' \in Execution /\ exec'.run = r /\ exec'.at = "start"
  <2>1. [exec EXCEPT !.at = "start", !.out = None] \in Execution
    BY <1>2 DEF Execution
  <2>2. exec' = IF next = "end" THEN None ELSE [exec EXCEPT !.at = "start", !.out = None]
    BY DEF Checkpoint
  <2> QED
    BY <1>2, <2>1, <2>2 DEF Execution
<1>9. UNCHANGED <<conv, history, pending, dropped, stops>>
  BY DEF Checkpoint
<1>14. effects' \in [Run -> Effects] /\ \A q \in Run : Keeps(effects[q], effects'[q])
  <2>1. \/ effects' = effects
        \/ effects' = [effects EXCEPT ![Request] = Counted(effects[Request])]
    BY DEF Checkpoint
  <2>2. Request \in Run
    BY <1>1, <1>2, Working, StateFields DEF Request, Carried
  <2>3. /\ Counted(effects[Request]) \in Effects
        /\ Keeps(effects[Request], Counted(effects[Request]))
    BY <2>2, CountedKeeps DEF TypeOK
  <2> QED
    BY <2>1, <2>2, <2>3, NothingKeeps DEF TypeOK
<1>10. astray' = IF out.verdict \notin {None, "clarify"} /\ pending[conv[r]] = r
                 THEN astray \cup {r} ELSE astray
  BY DEF Checkpoint, Here
<1>11. /\ astray \subseteq astray' /\ astray' \subseteq Run
       /\ exec.out.verdict \notin {None, "clarify"} /\ pending[conv[r]] = r => r \in astray'
  BY <1>2, <1>5, <1>10 DEF TypeOK
<1> HIDE DEF next, out, row
<1>12. row.next = After(saved[r].next)
  BY <1>2, <1>6 DEF next
<1> QED
  BY <1>1, <1>3, <1>4, <1>5, <1>6, <1>7, <1>8, <1>9, <1>11, <1>12, <1>14

LEMMA HandOffType == ASSUME NEW e \in Effects, NEW r \in Run PROVE HandOff(e, r) \in Effects
<1>1. [e EXCEPT !.handoff = @ \cup {r}, !.tickets = @ + 1] \in Effects
  <2>1. e.handoff \cup {r} \in SUBSET Run /\ e.tickets + 1 \in Nat
    BY DEF Effects
  <2> QED
    BY <2>1 DEF Effects
<1> QED
  BY <1>1 DEF HandOff

LEMMA OpenReviewType ==
  ASSUME NEW e \in Effects
  PROVE  /\ OpenReview(e) \in Effects
         /\ OpenReview(e).review = e.review + 1 /\ OpenReview(e).closed = e.closed
         /\ OpenReview(e).handoff = e.handoff /\ OpenReview(e).tickets = e.tickets
<1> DEFINE related == e.refund = "waiting" \/ exec.at = "applied"
<1>1. related \in BOOLEAN
  OBVIOUS
<1>2. e.review + 1 \in Nat
  BY DEF Effects
<1>3. OpenReview(e) = [e EXCEPT !.review = e.review + 1, !.related = related]
  BY DEF OpenReview, Effects
<1> HIDE DEF related
<1>4. [e EXCEPT !.review = e.review + 1, !.related = related] \in Effects
  BY <1>1, <1>2 DEF Effects
<1> QED
  BY <1>3, <1>4 DEF Effects

LEMMA TypeInit == Init => TypeOK
BY DEF Init, TypeOK, TurnRow, Effects, Refund, NoEffects

LEMMA TypeStep == TypeOK /\ RunInv /\ [Next]_vars => TypeOK'
<1> SUFFICES ASSUME TypeOK, RunInv, [Next]_vars PROVE TypeOK'
  OBVIOUS
<1>1. ASSUME NEW r \in Run, NEW c \in Conversation, Create(r, c) PROVE TypeOK'
  BY <1>1, StartType DEF Create, TypeOK
<1>2. ASSUME NEW r \in Run, Resume(r) PROVE TypeOK'
  <2>1. [run |-> r, at |-> "start", out |-> None] \in Execution
    BY DEF Execution
  <2> QED
    BY <1>2, <2>1 DEF Resume, TypeOK
<1>3. CASE Attempt
  <2>1. /\ exec # None /\ exec' \in Execution
        /\ UNCHANGED <<conv, saved, astray, stops>>
    BY <1>3, AttemptStep
  <2>2. /\ exec.run \in Run /\ conv[exec.run] \in Conversation
        /\ saved[exec.run] \in WorkflowState
    BY <2>1, Working
  <2>3. history' \in [Conversation -> Seq(TurnRow)]
    <3>1. [run |-> exec.run, reply |-> saved[exec.run].reply] \in TurnRow
      BY <2>2, StateFields DEF TurnRow
    <3>2. AppendTurn(conv[exec.run]) \in Seq(TurnRow)
      BY <2>2, <3>1 DEF AppendTurn, Turn, Now, TypeOK
    <3> QED
      BY <1>3, <2>2, <3>2, AttemptStep DEF TypeOK
  <2>4. Request \in Run
    BY <2>2, StateFields DEF Request, Carried
  <2>5. pending' \in [Conversation -> Run \cup {None}] /\ dropped' \subseteq Run
    <3>1. CASE LoadContext
      <4>1. PICK task \in Recent :
              LET taken == Kind(task) \in {"cancel", "replace"} IN
              /\ pending' = [pending EXCEPT ![Here] = IF taken THEN None ELSE task]
              /\ dropped' = IF taken THEN dropped \cup {task} ELSE dropped
        BY <3>1 DEF LoadContext
      <4>2. task \in Run \cup {None} /\ (task = None => Kind(task) = "new")
        <5>1. task \in Run \cup {None}
          BY <2>2 DEF Recent, Here, TypeOK
        <5>2. task = None => Kind(task) = "new"
          BY DEF Kind
        <5> QED
          BY <5>1, <5>2
      <4> QED
        BY <4>1, <4>2 DEF TypeOK
    <3>2. CASE RouteMessage
      <4>1. PICK v \in Verdict : pending' = [pending EXCEPT ![Here] = PendingAfter(v)]
        BY <3>2 DEF RouteMessage, Verdict
      <4>2. PendingAfter(v) \in Run \cup {None}
        BY <2>2, <2>4 DEF PendingAfter, Here, TypeOK
      <4> QED
        BY <3>2, <4>1, <4>2 DEF RouteMessage, TypeOK
    <3>3. CASE Orchestrate \/ BuildModelContext \/ GenerateReply \/ PersistResult
      BY <3>3 DEF Orchestrate, BuildModelContext, GenerateReply, PersistResult, TypeOK
    <3> QED
      BY <1>3, <3>1, <3>2, <3>3 DEF Attempt
  <2>6. effects' \in [Run -> Effects]
    <3>1. effects[Request] \in Effects
      BY <2>4 DEF TypeOK
    <3>2. CASE Orchestrate
      <4>1. HandOff(effects[Request], exec.run) \in Effects
        BY <2>2, <3>1, HandOffType
      <4>2. /\ OpenReview(effects[Request]) \in Effects
            /\ \A status \in {"waiting", "moving"} :
                 [effects[Request] EXCEPT !.refund = status] \in Effects
        BY <3>1, OpenReviewType DEF Effects, Refund
      <4>3. \/ UNCHANGED effects
            \/ effects' = [effects EXCEPT ![Request] = HandOff(effects[Request], exec.run)]
            \/ \E status \in {"waiting", "moving"} :
                 effects' = [effects EXCEPT ![Request] =
                               [effects[Request] EXCEPT !.refund = status]]
            \/ effects' = [effects EXCEPT ![Request] = OpenReview(effects[Request])]
        BY <2>4, <3>2
           DEF Orchestrate, EndTools, ApplyRefund, RequestReview, TransferToHuman, TypeOK
      <4> QED
        BY <2>4, <4>1, <4>2, <4>3 DEF TypeOK
    <3>3. CASE LoadContext \/ RouteMessage \/ BuildModelContext \/ GenerateReply \/ PersistResult
      BY <3>3
         DEF LoadContext, RouteMessage, BuildModelContext, GenerateReply, PersistResult,
             TypeOK
    <3> QED
      BY <1>3, <3>2, <3>3 DEF Attempt
  <2> QED
    BY <2>1, <2>3, <2>5, <2>6 DEF TypeOK
<1>4. CASE Checkpoint
  <2>1. PICK row \in WorkflowState : saved' = [saved EXCEPT ![exec.run] = row]
    BY <1>4, CheckpointStep
  <2>2. saved' \in [Run -> WorkflowState \cup {None}]
    BY <2>1 DEF TypeOK
  <2>3. exec' \in Execution \cup {None}
    BY <1>4, CheckpointStep
  <2> QED
    BY <1>4, <2>2, <2>3, CheckpointStep DEF TypeOK
<1>5. CASE Stop
  BY <1>5 DEF Stop, TypeOK
<1>6. ASSUME NEW q \in Run, Elsewhere(q) PROVE TypeOK'
  BY <1>6, ElsewhereStep DEF OnlyEffects, TypeOK
<1>7. CASE UNCHANGED vars
  BY <1>7 DEF vars, TypeOK
<1> QED
  BY <1>1, <1>2, <1>3, <1>4, <1>5, <1>6, <1>7 DEF Next

-----------------------------------------------------------------------------
(* The history.                                                            *)

LEMMA TurnsOf ==
  ASSUME NEW h \in Seq(TurnRow)
  PROVE  /\ DOMAIN h = 1..Len(h) /\ Len(h) \in Nat
         /\ \A i \in DOMAIN h : h[i] \in TurnRow /\ h[i].run \in Run
<1>1. DOMAIN h = 1..Len(h) /\ Len(h) \in Nat
  OBVIOUS
<1>2. \A i \in DOMAIN h : h[i] \in TurnRow
  OBVIOUS
<1>3. \A t \in TurnRow : t.run \in Run
  BY DEF TurnRow
<1> QED
  BY <1>1, <1>2, <1>3

LEMMA RunInit == Init => RunInv
<1> SUFFICES ASSUME Init PROVE RunInv
  OBVIOUS
<1>1. /\ \A r \in Run : conv[r] = None /\ saved[r] = None
      /\ exec = None
      /\ \A c \in Conversation : history[c] = << >>
  BY DEF Init
<1> QED
  BY <1>1, NoneAssumption
     DEF RunInv, RowsInOrder, UnfinishedIsNewest, AttemptIsOfRun, SeenIsLast, TurnsAreRuns,
         HistoryIsTheTurns, Unfinished, Claimed

LEMMA CreateKeepsRuns ==
  ASSUME TypeOK, RunInv, NEW r \in Run, NEW c \in Conversation, Create(r, c)
  PROVE  RunInv'
<1> USE DEF TypeOK, RunInv
<1>1. /\ exec = None /\ conv[r] = None /\ ~Blocked(c)
      /\ \A s \in Run : s < r => conv[s] # None
      /\ conv' = [conv EXCEPT ![r] = c]
      /\ UNCHANGED <<exec, history>>
  BY DEF Create
<1>2. saved[r] = None
  BY <1>1 DEF RowsInOrder
<1>3. \/ \E m \in Message : saved' = [saved EXCEPT ![r] = Start(m)]
      \/ saved' = saved
  BY DEF Create
<1>4. /\ \A s \in Run \ {r} : saved'[s] = saved[s]
      /\ saved'[r] # None => /\ saved'[r].next = "load_context"
                             /\ saved'[r].next # "end"
  BY <1>2, <1>3 DEF Start
<1>5. \A s \in Run : conv'[s] = IF s = r THEN c ELSE conv[s]
  BY <1>1
<1>6. RowsInOrder'
  <2>1. ASSUME NEW s \in Run, NEW t \in Run, t < s, conv'[s] # None PROVE conv'[t] # None
    BY <1>1, <1>5, <2>1, NoneAssumption DEF RowsInOrder, Run
  <2>2. ASSUME NEW s \in Run, saved'[s] # None PROVE conv'[s] # None
    BY <1>4, <1>5, <2>2, NoneAssumption DEF RowsInOrder
  <2> QED
    BY <2>1, <2>2 DEF RowsInOrder
<1>7. UnfinishedIsNewest'
  <2> SUFFICES ASSUME NEW s \in Run, NEW t \in Run, Unfinished(s)', Together(s, t)', s # t
               PROVE  t < s /\ ~Unfinished(t)'
    BY DEF UnfinishedIsNewest
  <2>1. CASE s = r
    <3>1. conv[t] = c
      BY <1>5, <2>1 DEF Together
    <3>2. ~(r < t)
      BY <1>1, <3>1, NoneAssumption DEF RowsInOrder
    <3>3. ~Unfinished(t)
      BY <1>1, <3>1 DEF Blocked
    <3> QED
      BY <1>4, <2>1, <3>2, <3>3 DEF Unfinished, Run
  <2>2. CASE s # r /\ t = r
    <3>1. Unfinished(s) /\ conv[s] = c
      BY <1>4, <1>5, <2>2 DEF Unfinished, Together
    <3> QED
      BY <1>1, <3>1 DEF Blocked
  <2>3. CASE s # r /\ t # r
    BY <1>4, <1>5, <2>3 DEF UnfinishedIsNewest, Unfinished, Together
  <2> QED
    BY <2>1, <2>2, <2>3
<1>8. AttemptIsOfRun'
  BY <1>1 DEF AttemptIsOfRun
<1>9. ASSUME NEW d \in Conversation, NEW i \in DOMAIN history[d] PROVE history[d][i].run # r
  BY <1>2, <1>9 DEF TurnsAreRuns
<1>10. \A d \in Conversation, s \in Run : Claimed(d, s)' <=> Claimed(d, s)
  BY <1>1 DEF Claimed
<1>11. SeenIsLast'
  BY <1>1, <1>4, <1>5, <1>10, NoneAssumption DEF SeenIsLast, Unfinished, RowsInOrder
<1>12. \A d \in Conversation : \A i \in DOMAIN history[d] : history[d][i].run \in Run
  BY TurnsOf
<1>13. TurnsAreRuns'
  BY <1>1, <1>4, <1>5, <1>9, <1>12 DEF TurnsAreRuns
<1>14. HistoryIsTheTurns'
  BY <1>1, <1>4, <1>5, <1>9, <1>10, <1>12 DEF HistoryIsTheTurns
<1> QED
  BY <1>6, <1>7, <1>8, <1>11, <1>13, <1>14

\* An attempt that writes no turn leaves the runs as they are.
LEMMA QuietAttemptKeepsRuns ==
  ASSUME TypeOK, RunInv, Attempt, saved[exec.run].next # "persist_result"
  PROVE  RunInv'
<1>1. UNCHANGED <<conv, saved, history>>
  BY AttemptStep
<1>2. AttemptIsOfRun'
  BY <1>1, AttemptStep, StateFields
     DEF RunInv, AttemptIsOfRun, LeftBy, Unfinished
<1> QED
  BY <1>1, <1>2
     DEF RunInv, RowsInOrder, UnfinishedIsNewest, SeenIsLast, TurnsAreRuns,
         HistoryIsTheTurns, Unfinished, Together, Claimed

\* The append of a turn: its run is the newest and has seen all that is there.
LEMMA PersistKeepsRuns ==
  ASSUME TypeOK, RunInv, Attempt, saved[exec.run].next = "persist_result"
  PROVE  RunInv'
<1>0. PICK r \in Run, c \in Conversation : r = exec.run /\ c = conv[exec.run]
  BY Working, AttemptStep
<1> DEFINE h == history[c]
<1>1. /\ UNCHANGED <<conv, saved>>
      /\ history' = [history EXCEPT ![c] = AppendTurn(c)]
      /\ exec # None /\ exec'.at = "done" /\ exec'.run = r /\ exec'.out \in WorkflowState
      /\ LeftBy(saved[r], exec'.out)
  BY <1>0, AttemptStep
<1>2. r \in Run /\ c \in Conversation /\ saved[r] \in WorkflowState
      /\ saved[r].next = "persist_result"
      /\ c = conv[r] /\ h = history[c] /\ h \in Seq(TurnRow)
  BY <1>0, <1>1, Working DEF TypeOK
<1>3. Unfinished(r)
  BY <1>0, <1>1 DEF RunInv, AttemptIsOfRun
<1>4. \A d \in Conversation \ {c} : history'[d] = history[d]
  BY <1>1 DEF TypeOK
<1>5. history'[c] = AppendTurn(c)
  BY <1>1, <1>2 DEF TypeOK
<1>6. CASE Claimed(c, r)
  <2>1. history' = history
    BY <1>0, <1>1, <1>2, <1>6 DEF AppendTurn, TypeOK
  <2>2. AttemptIsOfRun'
    BY <1>0, <1>1, <1>3, <1>6, <2>1, StateFields
       DEF RunInv, AttemptIsOfRun, LeftBy, Unfinished, Claimed
  <2> QED
    BY <1>1, <2>1, <2>2
       DEF RunInv, RowsInOrder, UnfinishedIsNewest, SeenIsLast, TurnsAreRuns,
           HistoryIsTheTurns, Unfinished, Together, Claimed
<1>7. CASE ~Claimed(c, r)
  <2> DEFINE turn == [run |-> r, reply |-> saved[r].reply]
             k == Len(h) + 1
  <2>1. history'[c] = Append(h, turn) /\ turn \in TurnRow
    BY <1>0, <1>2, <1>5, <1>7, StateFields DEF AppendTurn, Turn, Now, TurnRow
  <2>2. /\ DOMAIN history'[c] = 1..k /\ DOMAIN h = 1..Len(h) /\ Len(h) \in Nat
        /\ history'[c][k].run = r /\ history'[c][k].reply = saved[r].reply
        /\ \A i \in 1..Len(h) : history'[c][i] = h[i]
    BY <1>2, <2>1
  <2> HIDE DEF turn, k
  <2>3. ASSUME NEW i \in DOMAIN history'[c], i # k
        PROVE  i \in DOMAIN history[c] /\ history'[c][i] = history[c][i]
    <3>1. i \in 1..Len(h)
      BY <2>2, <2>3 DEF k
    <3> QED
      BY <1>2, <2>2, <3>1
  <2>4. saved[r].seen \in LastTurns(Len(h))
    BY <1>2, <1>3, <1>7 DEF RunInv, SeenIsLast
  <2>5. \A i \in 1..Len(h) : h[i].run \in Run
    BY <1>2, TurnsOf
  <2>6. \A i \in 1..Len(h) : h[i].run < r
    <3> SUFFICES ASSUME NEW i \in 1..Len(h) PROVE h[i].run < r
      OBVIOUS
    <3>1. h[i].run # r
      BY <1>7, <2>2 DEF Claimed
    <3>2. conv[h[i].run] = c
      BY <1>2, <2>2 DEF RunInv, TurnsAreRuns
    <3> QED
      BY <1>2, <1>3, <2>5, <3>1, <3>2 DEF RunInv, UnfinishedIsNewest, Together
  <2>7. Claimed(c, r)'
    BY <1>2, <2>2 DEF Claimed, k
  <2>8. \A s \in Run : Claimed(c, s) => Claimed(c, s)'
    BY <1>2, <2>2 DEF Claimed, k
  <2>9. \A d \in Conversation \ {c}, s \in Run : Claimed(d, s)' <=> Claimed(d, s)
    BY <1>4 DEF Claimed
  <2> HIDE DEF h
  <2>10. AttemptIsOfRun'
    BY <1>0, <1>1, <1>3, <2>7, StateFields DEF AttemptIsOfRun, LeftBy, Unfinished
  <2>11. SeenIsLast'
    <3> SUFFICES ASSUME NEW s \in Run, Unfinished(s), saved[s].next # "load_context",
                        NEW d \in Conversation, d = conv[s], ~Claimed(d, s)'
                 PROVE  saved[s].seen \in LastTurns(Len(history'[d]))
      BY <1>1 DEF SeenIsLast, Unfinished, RunInv, RowsInOrder, TypeOK
    <3>1. s # r
      BY <1>2, <2>7
    <3>2. d # c
      BY <1>2, <1>3, <3>1 DEF RunInv, UnfinishedIsNewest, Together
    <3>3. ~Claimed(d, s)
      BY <2>9, <3>2
    <3> QED
      BY <1>4, <3>2, <3>3 DEF RunInv, SeenIsLast
  <2>12. TurnsAreRuns'
    <3> SUFFICES ASSUME NEW d \in Conversation, NEW i \in DOMAIN history'[d]
                 PROVE  LET s == history'[d][i].run IN
                        /\ conv[s] = d /\ saved[s] # None
                        /\ saved[s].next \in {"persist_result", "end"}
      BY <1>1 DEF TurnsAreRuns
    <3>1. CASE d # c
      BY <1>4, <3>1 DEF RunInv, TurnsAreRuns
    <3>2. CASE d = c /\ i = k
      BY <1>2, <1>3, <2>2, <3>2 DEF Unfinished
    <3>3. CASE d = c /\ i # k
      BY <2>3, <3>3 DEF RunInv, TurnsAreRuns
    <3> QED
      BY <3>1, <3>2, <3>3
  <2>13. HistoryIsTheTurns'
    <3>1. ASSUME NEW d \in Conversation, NEW i \in DOMAIN history'[d],
                 NEW j \in DOMAIN history'[d], i < j
          PROVE  history'[d][i].run < history'[d][j].run
      <4>1. CASE d # c
        BY <1>4, <3>1, <4>1 DEF RunInv, HistoryIsTheTurns
      <4>2. CASE d = c /\ j = k
        BY <2>2, <2>6, <3>1, <4>2 DEF k
      <4>3. CASE d = c /\ j # k
        <5>1. i # k
          BY <2>2, <3>1, <4>3 DEF k
        <5> QED
          BY <2>3, <3>1, <4>3, <5>1 DEF RunInv, HistoryIsTheTurns
      <4> QED
        BY <4>1, <4>2, <4>3
    <3>2. ASSUME NEW d \in Conversation, NEW i \in DOMAIN history'[d]
          PROVE  LET s == saved[history'[d][i].run] IN
                 history'[d][i].reply = s.reply /\ s.seen \in LastTurns(i - 1)
      <4>1. CASE d # c
        BY <1>4, <4>1 DEF RunInv, HistoryIsTheTurns
      <4>2. CASE d = c /\ i = k
        <5>1. k - 1 = Len(h)
          BY <2>2 DEF k
        <5> QED
          BY <2>2, <2>4, <4>2, <5>1
      <4>3. CASE d = c /\ i # k
        BY <2>3, <4>3 DEF RunInv, HistoryIsTheTurns
      <4> QED
        BY <4>1, <4>2, <4>3
    <3>3. ASSUME NEW d \in Conversation, NEW s \in Run, conv[s] = d, saved[s] # None,
                 saved[s].next = "end"
          PROVE  Claimed(d, s)'
      BY <2>8, <2>9, <3>3 DEF RunInv, HistoryIsTheTurns
    <3> QED
      BY <1>1, <3>1, <3>2, <3>3 DEF HistoryIsTheTurns
  <2> QED
    BY <1>1, <2>10, <2>11, <2>12, <2>13
       DEF RunInv, RowsInOrder, UnfinishedIsNewest, Unfinished, Together
<1> QED
  BY <1>6, <1>7

LEMMA CheckpointKeepsRuns ==
  ASSUME TypeOK, RunInv, Checkpoint
  PROVE  RunInv'
<1>0. PICK r \in Run, now \in WorkflowState : r = exec.run /\ now = saved[exec.run]
  BY Working, CheckpointStep
<1>1. exec # None /\ exec.at = "done" /\ UNCHANGED <<conv, history>>
  BY CheckpointStep
<1>2. PICK row \in WorkflowState :
        /\ saved' = [saved EXCEPT ![r] = row]
        /\ row.next = After(now.next)
        /\ row.next = "end" <=> now.next = "persist_result"
        /\ row.seen = exec.out.seen /\ row.reply = exec.out.reply
  BY <1>0, CheckpointStep
<1>3. /\ r \in Run /\ conv[r] \in Conversation /\ now.next \in Names
      /\ Unfinished(r) /\ LeftBy(now, exec.out)
      /\ now.next = "persist_result" => Claimed(conv[r], r)
  BY <1>0, <1>1, Working DEF RunInv, AttemptIsOfRun, LeftBy
<1>4. /\ \A s \in Run : saved'[s] = IF s = r THEN row ELSE saved[s]
      /\ row # None
  BY <1>2, <1>3, StateFields DEF TypeOK
<1>5. row.next # "load_context" /\ (row.next = "persist_result" => now.next = "generate_reply")
  BY <1>2, <1>3, AfterNode DEF Names
<1>6. \A s \in Run : Unfinished(s)' => Unfinished(s)
  BY <1>0, <1>3, <1>4 DEF Unfinished
<1>7. \A c \in Conversation, s \in Run : Claimed(c, s)' <=> Claimed(c, s)
  BY <1>1 DEF Claimed
<1>8. RowsInOrder'
  BY <1>1, <1>3, <1>4, NoneAssumption DEF RunInv, RowsInOrder
<1>9. UnfinishedIsNewest'
  BY <1>1, <1>6 DEF RunInv, UnfinishedIsNewest, Together
<1>10. AttemptIsOfRun'
  <2>1. CASE now.next = "persist_result"
    BY <1>0, <2>1, CheckpointStep DEF AttemptIsOfRun
  <2>2. CASE now.next # "persist_result"
    <3>1. exec'.run = r /\ exec'.at = "start"
      BY <1>0, <2>2, CheckpointStep
    <3>2. Unfinished(r)'
      BY <1>2, <1>3, <1>4, <2>2 DEF Unfinished
    <3> QED
      BY <3>1, <3>2 DEF AttemptIsOfRun
  <2> QED
    BY <2>1, <2>2
<1>11. SeenIsLast'
  <2> SUFFICES ASSUME NEW s \in Run, Unfinished(s)', saved'[s].next # "load_context",
                      NEW d \in Conversation, d = conv[s], ~Claimed(d, s)'
               PROVE  saved'[s].seen \in LastTurns(Len(history[d]))
    BY <1>1, <1>6 DEF SeenIsLast, RunInv, RowsInOrder, Unfinished, TypeOK
  <2>1. ~Claimed(d, s)
    BY <1>7
  <2>2. CASE s # r
    BY <1>4, <1>6, <2>1, <2>2 DEF RunInv, SeenIsLast
  <2>3. CASE s = r
    <3>1. exec.out.seen \in LastTurns(Len(history[d]))
      BY <1>0, <1>3, <2>1, <2>3 DEF RunInv, SeenIsLast, LeftBy
    <3> QED
      BY <1>2, <1>4, <2>3, <3>1
  <2> QED
    BY <2>2, <2>3
<1>12. ASSUME NEW c \in Conversation, NEW i \in DOMAIN history[c]
       PROVE  /\ history[c][i].run \in Run
              /\ conv[history[c][i].run] = c
              /\ saved[history[c][i].run] # None
              /\ saved[history[c][i].run].next \in {"persist_result", "end"}
  <2>1. history[c] \in Seq(TurnRow)
    BY DEF TypeOK
  <2> QED
    BY <2>1, TurnsOf DEF RunInv, TurnsAreRuns
<1>13. ASSUME NEW c \in Conversation, NEW i \in DOMAIN history[c], history[c][i].run = r
       PROVE  now.next = "persist_result" /\ row.seen = now.seen /\ row.reply = now.reply
  BY <1>0, <1>2, <1>3, <1>12, <1>13 DEF Unfinished, LeftBy
<1>14. TurnsAreRuns'
  BY <1>1, <1>2, <1>4, <1>12, <1>13 DEF TurnsAreRuns
<1>15. HistoryIsTheTurns'
  <2>1. ASSUME NEW c \in Conversation, NEW i \in DOMAIN history[c]
        PROVE  LET s == saved'[history[c][i].run] IN
               history[c][i].reply = s.reply /\ s.seen \in LastTurns(i - 1)
    <3>1. CASE history[c][i].run = r
      BY <1>0, <1>4, <1>13, <3>1 DEF RunInv, HistoryIsTheTurns
    <3>2. CASE history[c][i].run # r
      BY <1>4, <1>12, <3>2 DEF RunInv, HistoryIsTheTurns
    <3> QED
      BY <3>1, <3>2
  <2>2. ASSUME NEW s \in Run, NEW c \in Conversation, c = conv[s],
               saved'[s] # None, saved'[s].next = "end"
        PROVE  Claimed(c, s)'
    <3>1. Claimed(c, s)
      BY <1>2, <1>3, <1>4, <2>2 DEF RunInv, HistoryIsTheTurns
    <3> QED
      BY <1>7, <3>1
  <2> QED
    BY <1>1, <2>1, <2>2 DEF RunInv, HistoryIsTheTurns
<1> QED
  BY <1>8, <1>9, <1>10, <1>11, <1>14, <1>15 DEF RunInv

LEMMA RunStep == TypeOK /\ RunInv /\ [Next]_vars => RunInv'
<1> SUFFICES ASSUME TypeOK, RunInv, [Next]_vars PROVE RunInv'
  OBVIOUS
<1> USE DEF RunInv, RowsInOrder, UnfinishedIsNewest, AttemptIsOfRun, SeenIsLast,
            TurnsAreRuns, HistoryIsTheTurns, Unfinished, Together, Claimed
<1>1. ASSUME NEW r \in Run, Resume(r) PROVE RunInv'
  BY <1>1 DEF Resume
<1>2. CASE Stop
  BY <1>2 DEF Stop
<1>3. CASE UNCHANGED vars
  BY <1>3 DEF vars
<1>4. ASSUME NEW q \in Run, Elsewhere(q) PROVE RunInv'
  <2>1. UNCHANGED <<conv, saved, exec, history>>
    BY <1>4, ElsewhereStep DEF OnlyEffects
  <2> QED
    BY <2>1
<1> QED
  BY <1>1, <1>2, <1>3, <1>4, CreateKeepsRuns, QuietAttemptKeepsRuns, PersistKeepsRuns,
     CheckpointKeepsRuns DEF Next

\* Every turn is in the history of its conversation once, in the order of the
\* runs, with the reply of its checkpoint, and what its run has read is an unbroken
\* piece of the history that ends just before it, for any window and any number of
\* crashes, resumes and conversations (append_turn, create, load_context).
THEOREM HistoryKept == Spec => []HistoryIsTheTurns
<1>1. Init => TypeOK /\ RunInv
  BY TypeInit, RunInit
<1>2. TypeOK /\ RunInv /\ [Next]_vars => TypeOK' /\ RunInv'
  BY TypeStep, RunStep
<1>3. RunInv => HistoryIsTheTurns
  BY DEF RunInv
<1> QED
  BY <1>1, <1>2, <1>3, PTL DEF Spec

-----------------------------------------------------------------------------
(* The requests.                                                           *)

LEMMA CarriedBy ==
  ASSUME TypeOK, RunInv, RequestInv, NEW r \in Run, Unfinished(r)
  PROVE  /\ saved[r] \in WorkflowState /\ conv[r] \in Conversation
         /\ Carried(r) \in Run /\ conv[Carried(r)] = conv[r]
         /\ saved[Carried(r)] # None
         /\ Carried(r) # r => saved[Carried(r)].next = "end"
         /\ saved[r].next = "load_context" => saved[r].task = None
         /\ Carried(r) \notin astray => Carried(r) \notin dropped
         /\ \A s \in Run : Unfinished(s) /\ conv[s] = conv[r] => s = r
<1>1. saved[r] \in WorkflowState /\ conv[r] \in Conversation
  BY DEF TypeOK, Unfinished, RunInv, RowsInOrder
<1>2. \A s \in Run : s # r /\ conv[s] = conv[r] => ~Unfinished(s)
  BY DEF RunInv, UnfinishedIsNewest, Together
<1>3. CASE saved[r].task = None
  BY <1>1, <1>2, <1>3 DEF Carried, Unfinished, RequestInv, DroppedIsUntouched
<1>4. CASE saved[r].task # None
  <2>1. saved[r].task \in Run
    BY <1>1, <1>4, StateFields
  <2> QED
    BY <1>1, <1>2, <1>4, <2>1
       DEF Carried, RequestInv, TasksAreOlder, Together, Unfinished
<1> QED
  BY <1>3, <1>4

LEMMA RequestInit == Init => RequestInv
<1> SUFFICES ASSUME Init PROVE RequestInv
  OBVIOUS
<1>1. /\ \A r \in Run : saved[r] = None /\ effects[r] = NoEffects
      /\ exec = None /\ dropped = {} /\ stops = 0
      /\ \A c \in Conversation : pending[c] = None
  BY DEF Init
<1> QED
  BY <1>1
     DEF RequestInv, OnceEach, ReviewsOfStops, MayReview, TasksAreOlder, PendingIsFresh,
         RoutedOnce, CarriedIsOurs, LoadedIsPending, DroppedIsUntouched, TicketsOnce,
         Unfinished, Untouched, NoEffects

LEMMA CreateKeepsRequests ==
  ASSUME TypeOK, RunInv, RequestInv, NEW r \in Run, NEW c \in Conversation, Create(r, c)
  PROVE  RequestInv'
<1>1. /\ exec = None /\ conv[r] = None
      /\ conv' = [conv EXCEPT ![r] = c]
      /\ UNCHANGED <<exec, history, pending, effects, astray, dropped>>
  BY DEF Create
<1>2. saved[r] = None
  BY <1>1 DEF RunInv, RowsInOrder
<1>3. \/ \E m \in Message : saved' = [saved EXCEPT ![r] = Start(m)]
      \/ saved' = saved
  BY DEF Create
<1>4. /\ \A s \in Run \ {r} : saved'[s] = saved[s] /\ conv'[s] = conv[s]
      /\ saved'[r] # None => /\ saved'[r].task = None
                             /\ saved'[r].verdict = None
  BY <1>1, <1>2, <1>3 DEF Start, TypeOK
<1>5. effects[r] = NoEffects /\ r \notin dropped
  BY <1>2 DEF RequestInv, OnceEach, Untouched, DroppedIsUntouched
<1>6. \A s \in Run \ {r} : /\ Unfinished(s)' <=> Unfinished(s)
                           /\ Unfinished(s) => Carried(s)' = Carried(s) /\ Carried(s) # r
  <2> TAKE s \in Run \ {r}
  <2>1. Unfinished(s)' <=> Unfinished(s)
    BY <1>4 DEF Unfinished
  <2>2. Unfinished(s) => saved[Carried(s)] # None
    BY CarriedBy
  <2> QED
    BY <1>2, <1>4, <2>1, <2>2 DEF Carried
<1>7. OnceEach'
  BY <1>1, <1>4, <1>5 DEF RequestInv, OnceEach, Untouched, NoEffects
<1>8. TasksAreOlder'
  <2> SUFFICES ASSUME NEW s \in Run, Unfinished(s)', NEW q, q = saved'[s].task, q # None
               PROVE  /\ Together(q, s)' /\ q # s /\ saved'[q] # None
                      /\ saved'[s].next # "load_context"
                      /\ q \notin astray => q \notin dropped
    BY <1>1 DEF TasksAreOlder
  <2>1. s # r
    BY <1>4 DEF Unfinished
  <2>2. Unfinished(s) /\ saved'[s] = saved[s]
    BY <1>4, <1>6, <2>1
  <2>3. q \in Run
    BY <2>2, CarriedBy, StateFields
  <2> QED
    BY <1>2, <1>4, <2>1, <2>2, <2>3 DEF RequestInv, TasksAreOlder, Together
<1>9. PendingIsFresh'
  <2> SUFFICES ASSUME NEW d \in Conversation, NEW q \in Run, q = pending[d]
               PROVE  /\ conv'[q] = d /\ saved'[q] # None
                      /\ saved'[q].next # "load_context"
                      /\ q \notin astray => Untouched(q) /\ q \notin dropped
    BY <1>1 DEF PendingIsFresh, TypeOK, Untouched
  <2>1. q # None
    BY NoneAssumption DEF Run
  <2> QED
    BY <1>2, <1>4, <2>1 DEF RequestInv, PendingIsFresh
<1>10. RoutedOnce'
  BY <1>4, <1>6 DEF RequestInv, RoutedOnce, Unfinished
<1>11. CarriedIsOurs'
  <2> SUFFICES ASSUME NEW s \in Run, Unfinished(s)', NEW q, q = Carried(s)', q \notin astray
               PROVE  /\ effects[q].handoff \subseteq {s}
                      /\ saved'[s].next \in {"load_context", "route"} => Untouched(q)
                      /\ Decided(s)' => pending[conv'[s]] # q
    BY <1>1 DEF CarriedIsOurs, Untouched
  <2>1. CASE s = r
    BY <1>4, <1>5, <2>1 DEF Carried, Decided, Untouched, NoEffects, Unfinished
  <2>2. CASE s # r
    BY <1>4, <1>6, <2>2 DEF RequestInv, CarriedIsOurs, Decided
  <2> QED
    BY <2>1, <2>2
<1>12. LoadedIsPending' /\ TicketsOnce'
  BY <1>1 DEF RequestInv, LoadedIsPending, TicketsOnce
<1>13. DroppedIsUntouched'
  BY <1>1, <1>4, <1>5, <1>6
     DEF RequestInv, DroppedIsUntouched, Untouched, Unfinished, TypeOK
<1>14. ReviewsOfStops'
  <2>1. stops \in Nat /\ stops' \in Nat /\ stops <= stops'
    BY DEF Create, TypeOK
  <2>2. \A q \in Run : effects[q].review \in Nat
    BY DEF TypeOK, Effects
  <2>3. ASSUME NEW q \in Run \ astray PROVE effects[q].review <= stops' + 1
    BY <2>1, <2>2 DEF RequestInv, ReviewsOfStops
  <2>4. ASSUME NEW s \in Run, MayReview(s)', Carried(s)' \notin astray
        PROVE  effects[Carried(s)'].review <= stops'
    <3>1. s # r
      BY <1>3, <2>4, <1>2 DEF MayReview, Unfinished, Start, TypeOK
    <3>2. MayReview(s) /\ Carried(s)' = Carried(s) /\ Carried(s) \in Run
      BY <1>1, <1>4, <1>6, <2>4, <3>1, CarriedBy DEF MayReview
    <3>3. effects[Carried(s)].review <= stops
      BY <2>4, <3>2 DEF RequestInv, ReviewsOfStops
    <3> QED
      BY <2>1, <2>2, <3>2, <3>3
  <2> QED
    BY <1>1, <2>3, <2>4 DEF ReviewsOfStops
<1> QED
  BY <1>7, <1>8, <1>9, <1>10, <1>11, <1>12, <1>13, <1>14 DEF RequestInv

\* A node that is none of the tools' lets nobody open a review.
LEMMA ReviewsUntouched ==
  ASSUME TypeOK, RequestInv, exec # None, saved[exec.run].next # "orchestrate_agents",
         exec' # None, exec'.run = exec.run,
         UNCHANGED <<conv, saved, effects, astray, stops>>
  PROVE  ReviewsOfStops'
<1>1. \A r \in Run : MayReview(r)' => MayReview(r)
  BY DEF MayReview, Unfinished
<1> QED
  BY <1>1 DEF RequestInv, ReviewsOfStops, Carried

LEMMA LoadKeepsRequests ==
  ASSUME TypeOK, RunInv, RequestInv, LoadContext
  PROVE  RequestInv'
<1>0. PICK r \in Run, c \in Conversation : r = exec.run /\ c = conv[exec.run]
  BY Working DEF LoadContext, AtNode
<1> DEFINE now == saved[r]
<1>1. /\ exec # None /\ exec \in Execution /\ now \in WorkflowState
      /\ now.next = "load_context" /\ Unfinished(r)
      /\ UNCHANGED <<conv, saved, history, effects, astray, stops>>
  BY <1>0, Working DEF LoadContext, AtNode, RunInv, AttemptIsOfRun
<1>2. PICK task \in Recent, turns \in LastTurns(Len(history[c])) :
        LET kind == Kind(task)
            taken == kind \in {"cancel", "replace"}
        IN /\ Leaves([now EXCEPT !.seen = turns,
                                 !.task = IF kind = "slots" THEN task ELSE None,
                                 !.cancelled = kind = "cancel"])
           /\ pending' = [pending EXCEPT ![c] = IF taken THEN None ELSE task]
           /\ dropped' = IF taken THEN dropped \cup {task} ELSE dropped
  BY <1>0 DEF LoadContext, Now, Here
<1>3. task \in {pending[c], None} /\ task \in Run \cup {None}
  BY <1>0 DEF Recent, Here, TypeOK
<1>4. task = None => Kind(task) = "new"
  BY DEF Kind
<1> DEFINE t == IF Kind(task) = "slots" THEN task ELSE None
           u == [now EXCEPT !.seen = turns, !.task = t,
                            !.cancelled = Kind(task) = "cancel"]
<1>5. u \in WorkflowState /\ u.task = t /\ u.verdict = now.verdict
  <2>1. t \in Run \cup {None} /\ turns \in SUBSET Nat
    <3>1. Len(history[c]) \in Nat
      BY DEF TypeOK
    <3> QED
      BY <1>2, <1>3, <3>1, LastTurnsType
  <2>2. u \in WorkflowState
    BY <1>1, <2>1, StateUpdates
  <2> QED
    BY <1>1, <2>2 DEF WorkflowState
<1>6. exec' \in Execution /\ exec'.run = r /\ exec'.at = "done" /\ exec'.out = u
  BY <1>0, <1>1, <1>2, <1>5, LeavesUpdate
<1>7. /\ \A d \in Conversation \ {c} : pending'[d] = pending[d]
      /\ pending'[c] \in {pending[c], None}
      /\ t # None => pending'[c] = t /\ t = pending[c]
  BY <1>2, <1>3 DEF TypeOK
<1>8. dropped' = dropped \/ (task # None /\ pending'[c] = None /\ dropped' = dropped \cup {task})
  BY <1>2, <1>4 DEF TypeOK
<1>9. task # None =>
        /\ task \in Run /\ conv[task] = c /\ saved[task] # None
        /\ ~Unfinished(task) /\ task # r
        /\ task \notin astray => Untouched(task) /\ task \notin dropped
  <2> SUFFICES ASSUME task # None
               PROVE  /\ task \in Run /\ conv[task] = c /\ saved[task] # None
                      /\ ~Unfinished(task) /\ task # r
                      /\ task \notin astray => Untouched(task) /\ task \notin dropped
    OBVIOUS
  <2>1. /\ task \in Run /\ conv[task] = c /\ saved[task] # None
        /\ saved[task].next # "load_context"
        /\ task \notin astray => Untouched(task) /\ task \notin dropped
    BY <1>3 DEF RequestInv, PendingIsFresh
  <2> QED
    BY <1>0, <1>1, <2>1, CarriedBy
<1> HIDE DEF t, u
<1>10. OnceEach'
  BY <1>1, <1>6 DEF RequestInv, OnceEach, Untouched
<1>11. TasksAreOlder'
  <2> SUFFICES ASSUME NEW s \in Run, Unfinished(s), NEW q, q = saved[s].task, q # None
               PROVE  /\ Together(q, s) /\ q # s /\ saved[q] # None
                      /\ saved[s].next # "load_context"
                      /\ q \notin astray => q \notin dropped'
    BY <1>1 DEF TasksAreOlder, Unfinished, Together
  <2>1. /\ Together(q, s) /\ q # s /\ saved[q] # None
        /\ saved[s].next # "load_context"
        /\ q \notin astray => q \notin dropped
    BY DEF RequestInv, TasksAreOlder
  <2>2. s # r
    BY <1>1, <2>1
  <2>3. conv[q] # c
    BY <1>0, <1>1, <2>1, <2>2, CarriedBy DEF Together
  <2> QED
    BY <1>8, <1>9, <2>1, <2>3
<1>12. PendingIsFresh'
  <2> SUFFICES ASSUME NEW d \in Conversation, NEW q, q = pending'[d], q # None
               PROVE  /\ conv[q] = d /\ saved[q] # None /\ saved[q].next # "load_context"
                      /\ q \notin astray => Untouched(q) /\ q \notin dropped'
    BY <1>1 DEF PendingIsFresh, Untouched
  <2>1. /\ q = pending[d] /\ conv[q] = d /\ saved[q] # None
        /\ saved[q].next # "load_context"
        /\ q \notin astray => Untouched(q) /\ q \notin dropped
    BY <1>7 DEF RequestInv, PendingIsFresh
  <2> QED
    BY <1>8, <1>9, <2>1
<1>13. RoutedOnce'
  BY <1>1 DEF RequestInv, RoutedOnce, Unfinished
<1>14. CarriedIsOurs'
  <2> SUFFICES ASSUME NEW s \in Run, Unfinished(s), NEW q, q = Carried(s), q \notin astray
               PROVE  /\ effects[q].handoff \subseteq {s}
                      /\ saved[s].next \in {"load_context", "route"} => Untouched(q)
                      /\ Decided(s) => pending'[conv[s]] # q
    BY <1>1 DEF CarriedIsOurs, Untouched, Unfinished, Carried, Decided
  <2>1. conv[s] \in Conversation /\ q # None
    BY CarriedBy, NoneAssumption DEF Run
  <2> QED
    BY <1>7, <2>1 DEF RequestInv, CarriedIsOurs
<1>15. LoadedIsPending'
  BY <1>0, <1>1, <1>5, <1>6, <1>7, <1>9 DEF LoadedIsPending, t
<1>16. DroppedIsUntouched' /\ TicketsOnce'
  BY <1>1, <1>8, <1>9
     DEF RequestInv, DroppedIsUntouched, TicketsOnce, Untouched, Unfinished
<1>17. ReviewsOfStops'
  BY <1>0, <1>1, <1>6, ExecutionFields, ReviewsUntouched
<1> QED
  BY <1>10, <1>11, <1>12, <1>13, <1>14, <1>15, <1>16, <1>17 DEF RequestInv

LEMMA RouteKeepsRequests ==
  ASSUME TypeOK, RunInv, RequestInv, RouteMessage
  PROVE  RequestInv'
<1>0. PICK r \in Run, c \in Conversation : r = exec.run /\ c = conv[exec.run]
  BY Working DEF RouteMessage, AtNode
<1> DEFINE now == saved[r]
<1>1. /\ exec # None /\ exec \in Execution /\ now \in WorkflowState
      /\ now.next = "route" /\ Unfinished(r)
      /\ UNCHANGED <<conv, saved, history, effects, astray, dropped, stops>>
  BY <1>0, Working DEF RouteMessage, AtNode, RunInv, AttemptIsOfRun
<1>2. PICK v \in Verdict :
        /\ Leaves([now EXCEPT !.verdict = v])
        /\ pending' = [pending EXCEPT ![c] = PendingAfter(v)]
  BY <1>0 DEF RouteMessage, Now, Here, Verdict
<1> DEFINE u == [now EXCEPT !.verdict = v]
<1>3. u \in WorkflowState /\ u.task = now.task /\ u.verdict = v
  <2>1. u \in WorkflowState
    BY <1>1, StateUpdates
  <2> QED
    BY <1>1 DEF WorkflowState
<1>4. exec' \in Execution /\ exec'.run = r /\ exec'.at = "done" /\ exec'.out = u
  BY <1>0, <1>1, <1>2, <1>3, LeavesUpdate
<1> DEFINE q == Carried(r)
<1>5. /\ \A d \in Conversation \ {c} : pending'[d] = pending[d]
      /\ \/ pending'[c] = q /\ v = "clarify"
         \/ pending'[c] = None /\ v # "clarify" /\ now.task # None
         \/ pending'[c] = pending[c] /\ v # "clarify" /\ now.task = None
  BY <1>0, <1>2 DEF PendingAfter, Request, Now, Here, TypeOK, Carried
<1>6. /\ q \in Run /\ conv[q] = c /\ saved[q] # None
      /\ saved[q].next # "load_context"
      /\ q \notin astray => Untouched(q) /\ q \notin dropped
  BY <1>0, <1>1, CarriedBy DEF RequestInv, CarriedIsOurs
<1> HIDE DEF u, q
<1>7. OnceEach' /\ TasksAreOlder' /\ RoutedOnce' /\ DroppedIsUntouched' /\ TicketsOnce'
  BY <1>1, <1>4
     DEF RequestInv, OnceEach, TasksAreOlder, RoutedOnce, DroppedIsUntouched, TicketsOnce,
         Untouched, Unfinished, Together
<1>8. PendingIsFresh'
  BY <1>1, <1>5, <1>6 DEF RequestInv, PendingIsFresh, Untouched
<1>9. CarriedIsOurs'
  <2> SUFFICES ASSUME NEW s \in Run, Unfinished(s), NEW p, p = Carried(s), p \notin astray
               PROVE  /\ effects[p].handoff \subseteq {s}
                      /\ saved[s].next \in {"load_context", "route"} => Untouched(p)
                      /\ Decided(s) => pending'[conv[s]] # p
    BY <1>1 DEF CarriedIsOurs, Untouched, Unfinished, Carried, Decided
  <2>1. /\ effects[p].handoff \subseteq {s}
        /\ saved[s].next \in {"load_context", "route"} => Untouched(p)
        /\ Decided(s) => pending[conv[s]] # p
    BY DEF RequestInv, CarriedIsOurs
  <2>2. CASE s = r
    BY <1>1, <2>1, <2>2 DEF RequestInv, RoutedOnce, Decided
  <2>3. CASE s # r
    <3>1. conv[s] \in Conversation \ {c}
      BY <1>0, <1>1, <2>3, CarriedBy
    <3> QED
      BY <1>5, <2>1, <3>1
  <2> QED
    BY <2>2, <2>3
<1>10. LoadedIsPending'
  BY <1>0, <1>1, <1>3, <1>4, <1>5, NoneAssumption DEF LoadedIsPending
<1>11. ReviewsOfStops'
  BY <1>0, <1>1, <1>4, ExecutionFields, ReviewsUntouched
<1> QED
  BY <1>7, <1>8, <1>9, <1>10, <1>11 DEF RequestInv

\* What a tool writes is of the request its run decided on.
LEMMA EffectKeepsRequests ==
  ASSUME TypeOK, RunInv, RequestInv, NEW r \in Run, Unfinished(r), Decided(r),
         saved[r].next = "orchestrate_agents",
         NEW e \in Effects, e.handoff \subseteq effects[Carried(r)].handoff \cup {r},
         effects' = [effects EXCEPT ![Carried(r)] = e],
         UNCHANGED <<conv, saved, pending, astray, dropped>>
  PROVE  TasksAreOlder' /\ PendingIsFresh' /\ RoutedOnce' /\ CarriedIsOurs'
           /\ DroppedIsUntouched'
<1> DEFINE q == Carried(r)
<1>1. /\ saved[r] \in WorkflowState /\ conv[r] \in Conversation
      /\ q \in Run /\ conv[q] = conv[r] /\ saved[q] # None
      /\ q \notin astray => q \notin dropped
      /\ \A s \in Run : Unfinished(s) /\ conv[s] = conv[r] => s = r
  BY CarriedBy
<1>2. q \notin astray => effects[q].handoff \subseteq {r} /\ pending[conv[r]] # q
  BY DEF RequestInv, CarriedIsOurs
<1>3. \A p \in Run \ {q} : effects'[p] = effects[p]
  BY DEF TypeOK
<1>4. effects'[q] = e
  BY <1>1 DEF TypeOK
<1> HIDE DEF q
<1>5. TasksAreOlder' /\ RoutedOnce'
  BY DEF RequestInv, TasksAreOlder, RoutedOnce, Unfinished, Together
<1>6. PendingIsFresh'
  <2> SUFFICES ASSUME NEW d \in Conversation, NEW p \in Run, p = pending[d], p # None
               PROVE  /\ conv[p] = d /\ saved[p] # None /\ saved[p].next # "load_context"
                      /\ p \notin astray => effects'[p] = NoEffects /\ p \notin dropped
    BY DEF PendingIsFresh, Untouched, TypeOK
  <2>1. /\ conv[p] = d /\ saved[p] # None /\ saved[p].next # "load_context"
        /\ p \notin astray => effects[p] = NoEffects /\ p \notin dropped
    BY DEF RequestInv, PendingIsFresh, Untouched
  <2> QED
    BY <1>1, <1>2, <1>3, <2>1
<1>7. CarriedIsOurs'
  <2> SUFFICES ASSUME NEW s \in Run, Unfinished(s), NEW p, p = Carried(s), p \notin astray
               PROVE  /\ effects'[p].handoff \subseteq {s}
                      /\ saved[s].next \in {"load_context", "route"} => Untouched(p)'
                      /\ Decided(s) => pending[conv[s]] # p
    BY DEF CarriedIsOurs, Unfinished, Carried, Decided, Untouched
  <2>1. /\ effects[p].handoff \subseteq {s}
        /\ saved[s].next \in {"load_context", "route"} => Untouched(p)
        /\ Decided(s) => pending[conv[s]] # p
        /\ p \in Run /\ conv[p] = conv[s]
    BY CarriedBy DEF RequestInv, CarriedIsOurs
  <2>2. CASE p = q
    BY <1>1, <1>2, <1>4, <2>1, <2>2 DEF q
  <2>3. CASE p # q
    BY <1>3, <2>1, <2>3 DEF Untouched
  <2> QED
    BY <2>2, <2>3
<1>8. DroppedIsUntouched'
  <2> SUFFICES ASSUME NEW p \in dropped
               PROVE  /\ saved[p] # None /\ ~Unfinished(p)
                      /\ p \notin astray => effects'[p] = NoEffects
    BY DEF DroppedIsUntouched, Unfinished, Untouched
  <2> QED
    BY <1>1, <1>3 DEF RequestInv, DroppedIsUntouched, Untouched, TypeOK
<1> QED
  BY <1>5, <1>6, <1>7, <1>8

LEMMA OrchestrateKeepsRequests ==
  ASSUME TypeOK, RunInv, RequestInv, Orchestrate
  PROVE  RequestInv'
<1>0. PICK r \in Run, now \in WorkflowState : r = exec.run /\ now = saved[exec.run]
  BY Working DEF Orchestrate, AtNode
<1>1. /\ exec # None /\ exec \in Execution /\ exec.at # "done"
      /\ now.next = "orchestrate_agents" /\ Unfinished(r)
      /\ UNCHANGED <<conv, saved, history, pending, astray, dropped, stops>>
  BY <1>0, Working DEF Orchestrate, AtNode, RunInv, AttemptIsOfRun
<1>2. PICK q \in Run : q = Carried(r)
  BY <1>1, CarriedBy
<1>3. /\ Request = q /\ Now = now /\ effects[q] \in Effects
      /\ saved[q] # None
  BY <1>0, <1>1, <1>2, CarriedBy DEF Request, Now, Carried, TypeOK
<1>4. PICK e \in Effects : e = effects[q]
  BY <1>3
<1>5. /\ e.review \in Nat /\ e.closed \in Nat /\ e.tickets \in Nat /\ stops \in Nat
      /\ e.review <= e.closed + 1
      /\ e.handoff = {} => e.tickets = 0
      /\ q \notin astray => e.tickets <= 1 /\ e.handoff \subseteq {r}
      /\ q \notin astray => e.review <= stops + 1
      /\ q \notin astray /\ exec.at \in {"start", "applied"} => e.review <= stops
  <2>1. e.review \in Nat /\ e.closed \in Nat /\ e.tickets \in Nat /\ stops \in Nat
    BY DEF Effects, TypeOK
  <2>2. /\ e.review <= e.closed + 1
        /\ e.handoff = {} => e.tickets = 0
        /\ q \notin astray => e.tickets <= 1 /\ e.handoff \subseteq {r}
    BY <1>1, <1>2, <1>4 DEF RequestInv, OnceEach, TicketsOnce, CarriedIsOurs
  <2>3. /\ q \notin astray => e.review <= stops + 1
        /\ q \notin astray /\ exec.at \in {"start", "applied"} => e.review <= stops
    BY <1>0, <1>1, <1>2, <1>4 DEF RequestInv, ReviewsOfStops, MayReview
  <2> QED
    BY <2>1, <2>2, <2>3
<1>6. Leaves(now) =>
        exec' \in Execution /\ exec'.run = r /\ exec'.at = "done" /\ exec'.out = now
  BY <1>0, <1>1, LeavesUpdate
<1>7. \A at \in {"applied", "reviewed"} : exec' = [exec EXCEPT !.at = at] =>
        exec' \in Execution /\ exec'.run = r /\ exec'.at = at
  BY <1>0, <1>1 DEF Execution
\* What the call leaves of the request's effects.
<1> DEFINE Leaving(f) ==
             /\ effects' = [effects EXCEPT ![q] = f]
             /\ f # e => now.verdict \in {"handoff", "refund"}
             /\ f.review <= f.closed + 1
             /\ f.handoff \subseteq e.handoff \cup {r}
             /\ f.handoff = {} => f.tickets = 0
             /\ q \notin astray =>
                  /\ f.tickets <= 1
                  /\ f.review <= stops + 1
                  /\ exec'.at \notin {"reviewed", "done"} => f.review <= stops
             /\ exec' \in Execution /\ exec'.run = r
             /\ exec'.at = "done" => exec'.out = now
<1>8. PICK f \in Effects : Leaving(f)
  <2>1. CASE EndTools
    <3>1. effects' = [effects EXCEPT ![q] = e] /\ Leaves(now)
      BY <1>3, <1>4, <2>1 DEF EndTools, TypeOK
    <3>2. Leaving(e)
      BY <1>5, <1>6, <3>1
    <3> QED
      BY <3>2
  <2>2. CASE ApplyRefund
    <3>1. PICK status \in {"waiting", "moving"} :
            effects' = [effects EXCEPT ![q] = [e EXCEPT !.refund = status]]
      BY <1>3, <1>4, <2>2 DEF ApplyRefund
    <3> DEFINE f == [e EXCEPT !.refund = status]
    <3>2. /\ f \in Effects /\ f.review = e.review /\ f.closed = e.closed
          /\ f.handoff = e.handoff /\ f.tickets = e.tickets
      BY DEF Effects, Refund
    <3>3. /\ now.verdict = "refund" /\ exec.at = "start"
          /\ exec' \in Execution /\ exec'.run = r /\ exec'.at = "applied"
      BY <1>3, <1>7, <2>2 DEF ApplyRefund
    <3>4. effects' = [effects EXCEPT ![q] = f]
      BY <3>1
    <3> HIDE DEF f
    <3>5. Leaving(f)
      BY <1>5, <3>2, <3>3, <3>4
    <3> QED
      BY <3>2, <3>5
  <2>3. CASE RequestReview /\ ~EndTools
    <3> DEFINE f == OpenReview(e)
    <3>1. /\ now.verdict = "refund" /\ exec.at \in {"start", "applied"}
          /\ ~(e.closed < e.review)
          /\ effects' = [effects EXCEPT ![q] = f]
          /\ exec' \in Execution /\ exec'.run = r /\ exec'.at = "reviewed"
      BY <1>3, <1>4, <1>7, <2>3 DEF RequestReview, ReviewAnew, ReviewPends
    <3>2. /\ f \in Effects /\ f.review = e.review + 1 /\ f.closed = e.closed
          /\ f.handoff = e.handoff /\ f.tickets = e.tickets
      BY OpenReviewType
    <3> HIDE DEF f
    <3>3. f.review <= f.closed + 1 /\ (q \notin astray => f.review <= stops + 1)
      BY <1>5, <3>1, <3>2
    <3>4. Leaving(f)
      BY <1>5, <3>1, <3>2, <3>3
    <3> QED
      BY <3>2, <3>4
  <2>4. CASE TransferToHuman
    <3> DEFINE f == HandOff(e, r)
    <3>1. f \in Effects
      BY HandOffType
    <3>2. /\ now.verdict \in {"handoff", "refund"} /\ Leaves(now)
          /\ effects' = [effects EXCEPT ![q] = f]
      BY <1>0, <1>3, <1>4, <2>4 DEF TransferToHuman
    <3>3. CASE r \in e.handoff
      <4>1. f = e
        BY <3>3 DEF HandOff
      <4>2. Leaving(e)
        BY <1>5, <1>6, <3>2, <4>1
      <4> QED
        BY <4>2
    <3>4. CASE r \notin e.handoff
      <4>1. /\ f.review = e.review /\ f.closed = e.closed
            /\ f.handoff = e.handoff \cup {r} /\ f.tickets = e.tickets + 1
        BY <3>4 DEF HandOff, Effects
      <4>2. q \notin astray => f.tickets <= 1
        <5>1. q \notin astray => e.tickets = 0
          BY <1>5, <3>4
        <5> QED
          BY <4>1, <5>1
      <4> HIDE DEF f
      <4>3. Leaving(f)
        BY <1>5, <1>6, <3>2, <4>1, <4>2
      <4> QED
        BY <3>1, <4>3
    <3> QED
      BY <3>3, <3>4
  <2> QED
    BY <2>1, <2>2, <2>3, <2>4 DEF Orchestrate
<1>9. /\ \A p \in Run \ {q} : effects'[p] = effects[p]
      /\ effects'[q] = f
  BY <1>8 DEF TypeOK
<1>10. /\ TasksAreOlder' /\ PendingIsFresh' /\ RoutedOnce' /\ CarriedIsOurs'
       /\ DroppedIsUntouched'
  <2>1. CASE f = e
    <3>1. effects' = effects
      BY <1>4, <1>8, <2>1 DEF TypeOK
    <3> QED
      BY <1>1, <3>1
         DEF RequestInv, TasksAreOlder, PendingIsFresh, RoutedOnce, CarriedIsOurs,
             DroppedIsUntouched, Unfinished, Together, Untouched, Carried, Decided
  <2>2. CASE f # e
    <3>1. Decided(r)
      BY <1>0, <1>8, <2>2, NoneAssumption DEF Decided, Verdict
    <3> QED
      BY <1>0, <1>1, <1>2, <1>4, <1>8, <3>1, EffectKeepsRequests
  <2> QED
    BY <2>1, <2>2
<1>11. OnceEach'
  <2> SUFFICES ASSUME NEW p \in Run
               PROVE  /\ effects'[p].review <= effects'[p].closed + 1
                      /\ effects'[p].handoff = {} => effects'[p].tickets = 0
                      /\ saved[p] = None => effects'[p] = NoEffects
    BY <1>1 DEF OnceEach, Untouched
  <2> QED
    BY <1>3, <1>8, <1>9 DEF RequestInv, OnceEach, Untouched
<1>14. ReviewsOfStops'
  <2>1. ASSUME NEW p \in Run \ astray PROVE effects'[p].review <= stops + 1
    BY <1>8, <1>9 DEF RequestInv, ReviewsOfStops
  <2>2. ASSUME NEW s \in Run, MayReview(s)', NEW p, p = Carried(s), p \notin astray
        PROVE  effects'[p].review <= stops
    <3>1. CASE s = r
      <4>1. exec'.at \notin {"reviewed", "done"}
        BY <1>8, <2>2, <3>1, ExecutionFields DEF MayReview
      <4> QED
        BY <1>2, <1>8, <1>9, <2>2, <3>1, <4>1
    <3>2. CASE s # r
      <4>1. Unfinished(s) /\ MayReview(s)
        BY <1>0, <1>1, <2>2, <3>2 DEF MayReview, Unfinished
      <4>2. p \in Run \ {q}
        BY <1>1, <1>2, <2>2, <3>2, <4>1, CarriedBy
      <4>3. effects[p].review <= stops
        BY <2>2, <4>1 DEF RequestInv, ReviewsOfStops
      <4> QED
        BY <1>9, <4>2, <4>3
    <3> QED
      BY <3>1, <3>2
  <2> QED
    BY <1>1, <2>1, <2>2 DEF ReviewsOfStops, Carried
<1>12. LoadedIsPending'
  BY <1>0, <1>1, <1>8 DEF LoadedIsPending
<1>13. TicketsOnce'
  BY <1>1, <1>8, <1>9 DEF RequestInv, TicketsOnce
<1> QED
  BY <1>10, <1>11, <1>12, <1>13, <1>14 DEF RequestInv

\* The nodes that touch no request.
LEMMA OtherAttemptsKeepRequests ==
  ASSUME TypeOK, RunInv, RequestInv, BuildModelContext \/ GenerateReply \/ PersistResult
  PROVE  RequestInv'
<1>0. PICK r \in Run, now \in WorkflowState : r = exec.run /\ now = saved[exec.run]
  BY Working DEF BuildModelContext, GenerateReply, PersistResult, AtNode
<1>1. /\ exec # None /\ exec \in Execution /\ stops \in Nat
      /\ now.next \notin {"load_context", "route", "orchestrate_agents"}
      /\ UNCHANGED <<conv, saved, pending, effects, astray, dropped>>
  BY <1>0, Working DEF BuildModelContext, GenerateReply, PersistResult, AtNode, TypeOK
<1>2. Leaves(now) \/ Leaves([now EXCEPT !.reply = stops])
  BY <1>0 DEF BuildModelContext, GenerateReply, PersistResult, Now
<1>3. PICK u \in WorkflowState : Leaves(u) /\ u.task = now.task /\ u.verdict = now.verdict
  <2> DEFINE u == [now EXCEPT !.reply = stops]
  <2>1. u \in WorkflowState
    BY <1>1, StateUpdates
  <2>2. u.task = now.task /\ u.verdict = now.verdict
    BY DEF WorkflowState
  <2> HIDE DEF u
  <2> QED
    BY <1>2, <2>1, <2>2 DEF u
<1>4. exec'.run = r /\ exec'.at = "done" /\ exec'.out = u
  BY <1>0, <1>1, <1>3, LeavesUpdate
<1>5. LoadedIsPending'
  BY <1>0, <1>1, <1>3, <1>4 DEF LoadedIsPending
<1>6. exec' # None /\ UNCHANGED stops
  BY <1>0, <1>1, <1>3, LeavesUpdate, ExecutionFields
     DEF BuildModelContext, GenerateReply, PersistResult
<1>7. ReviewsOfStops'
  BY <1>0, <1>1, <1>4, <1>6, ReviewsUntouched
<1> QED
  BY <1>1, <1>4, <1>5, <1>7
     DEF RequestInv, OnceEach, TasksAreOlder, PendingIsFresh, RoutedOnce, CarriedIsOurs,
         DroppedIsUntouched, TicketsOnce, Untouched, Unfinished, Together, Carried, Decided

\* A checkpoint makes the attempt's task and verdict those of the run.
LEMMA CheckpointKeepsRequests ==
  ASSUME TypeOK, RunInv, RequestInv, Checkpoint
  PROVE  RequestInv'
<1>0. PICK r \in Run, now \in WorkflowState, out \in WorkflowState, c \in Conversation :
        r = exec.run /\ now = saved[exec.run] /\ out = exec.out /\ c = conv[exec.run]
  BY Working DEF Checkpoint
<1>1. /\ exec # None /\ exec.at = "done" /\ Unfinished(r)
      /\ UNCHANGED <<conv, history, pending, dropped, stops>>
      /\ astray \subseteq astray'
      /\ out.verdict \notin {None, "clarify"} /\ pending[c] = r => r \in astray'
      /\ IF now.next = "persist_result" THEN exec' = None
         ELSE exec' \in Execution /\ exec'.run = r /\ exec'.at = "start"
  BY <1>0, CheckpointStep DEF RunInv, AttemptIsOfRun
<1>2. PICK row \in WorkflowState :
        /\ saved' = [saved EXCEPT ![r] = row]
        /\ row.next = After(now.next)
        /\ row.next = "end" <=> now.next = "persist_result"
        /\ row.next # "end" => row.task = out.task /\ row.verdict = out.verdict
  BY <1>0, CheckpointStep
<1>3. /\ \A s \in Run : saved'[s] = IF s = r THEN row ELSE saved[s]
      /\ row # None
  BY <1>2, StateFields DEF TypeOK
<1>4. /\ row.next # "load_context"
      /\ row.next = "route" => now.next = "load_context"
  BY <1>0, <1>1, <1>2, AfterNode, Working DEF Names
<1>5. \A s \in Run : Unfinished(s)' => Unfinished(s)
  BY <1>1, <1>3 DEF Unfinished
<1>6. \A s \in Run : conv[s] = c /\ Unfinished(s) => s = r
  BY <1>0, <1>1, CarriedBy
<1>7. /\ now.next = "load_context" /\ out.task # None => out.task = pending[c] /\ out.task # r
      /\ now.next = "load_context" => out.verdict = now.verdict
      /\ now.next # "load_context" => out.task = now.task
      /\ now.next \notin {"load_context", "route"} => out.verdict = now.verdict
      /\ now.next = "route" /\ now.task # None /\ out.verdict # "clarify" => pending[c] = None
  BY <1>0, <1>1 DEF RequestInv, LoadedIsPending
<1>16. \A p \in Run :
         /\ effects'[p].review = effects[p].review
         /\ effects'[p].handoff = effects[p].handoff
         /\ effects'[p].tickets = effects[p].tickets
         /\ effects[p].review <= effects[p].closed + 1 =>
              effects'[p].review <= effects'[p].closed + 1
         /\ Untouched(p) => Untouched(p)'
  BY CheckpointStep DEF Keeps, Untouched
<1>8. OnceEach'
  <2>1. \A p \in Run : saved'[p] = None => saved[p] = None
    BY <1>3
  <2> QED
    BY <1>16, <2>1 DEF RequestInv, OnceEach
<1>9. TasksAreOlder'
  <2> SUFFICES ASSUME NEW s \in Run, Unfinished(s)', NEW q, q = saved'[s].task, q # None
               PROVE  /\ Together(q, s) /\ q # s /\ saved'[q] # None
                      /\ saved'[s].next # "load_context"
                      /\ q \notin astray => q \notin dropped
    BY <1>1 DEF TasksAreOlder, Together
  <2>1. Unfinished(s)
    BY <1>5
  <2>2. \A t \in Run : saved[t] # None => saved'[t] # None
    BY <1>3
  <2>3. CASE s # r \/ now.next # "load_context"
    <3>1. q = saved[s].task
      BY <1>0, <1>2, <1>3, <1>7, <2>3 DEF Unfinished
    <3>2. /\ Together(q, s) /\ q # s /\ saved[q] # None
          /\ saved[s].next # "load_context"
          /\ q \notin astray => q \notin dropped
      BY <2>1, <3>1 DEF RequestInv, TasksAreOlder
    <3>3. q \in Run
      BY <2>1, <3>1, CarriedBy, StateFields
    <3> QED
      BY <1>3, <1>4, <2>2, <3>2, <3>3
  <2>4. CASE s = r /\ now.next = "load_context"
    <3>1. q = pending[c] /\ q # r /\ q \in Run
      BY <1>2, <1>3, <1>7, <2>4 DEF Unfinished, TypeOK
    <3>2. conv[q] = c /\ saved[q] # None /\ (q \notin astray => q \notin dropped)
      BY <3>1 DEF RequestInv, PendingIsFresh
    <3> QED
      BY <1>0, <1>3, <1>4, <2>2, <2>4, <3>1, <3>2 DEF Together
  <2> QED
    BY <2>3, <2>4
<1>10. PendingIsFresh'
  <2> SUFFICES ASSUME NEW d \in Conversation, NEW q \in Run, q = pending[d], q # None
               PROVE  /\ conv[q] = d /\ saved'[q] # None /\ saved'[q].next # "load_context"
                      /\ q \notin astray => Untouched(q) /\ q \notin dropped
    BY <1>1, <1>16 DEF PendingIsFresh, TypeOK
  <2> QED
    BY <1>3, <1>4 DEF RequestInv, PendingIsFresh
<1>11. RoutedOnce'
  <2> SUFFICES ASSUME NEW s \in Run, Unfinished(s)',
                      saved'[s].next \in {"load_context", "route"}
               PROVE  saved'[s].verdict = None
    BY DEF RoutedOnce
  <2>1. CASE s # r
    BY <1>3, <1>5, <2>1 DEF RequestInv, RoutedOnce
  <2>2. CASE s = r
    <3>1. now.next = "load_context" /\ row.next # "end"
      BY <1>3, <1>4, <2>2
    <3> QED
      BY <1>0, <1>1, <1>2, <1>3, <1>7, <2>2, <3>1 DEF RequestInv, RoutedOnce
  <2> QED
    BY <2>1, <2>2
<1>12. CarriedIsOurs'
  <2> SUFFICES ASSUME NEW s \in Run, Unfinished(s)', NEW q, q = Carried(s)', q \notin astray'
               PROVE  /\ effects[q].handoff \subseteq {s}
                      /\ saved'[s].next \in {"load_context", "route"} => Untouched(q)
                      /\ Decided(s)' => pending[conv[s]] # q
    <3>1. \A s \in Run : Unfinished(s)' => Carried(s)' \in Run
      <4> TAKE s \in Run
      <4>1. CASE s # r
        BY <1>3, <1>5, <4>1, CarriedBy DEF Carried
      <4>2. CASE s = r
        BY <1>2, <1>3, <4>2, StateFields DEF Carried
      <4> QED
        BY <4>1, <4>2
    <3> QED
      BY <1>1, <1>16, <3>1 DEF CarriedIsOurs
  <2>1. q \notin astray
    BY <1>1
  <2>2. CASE s # r
    BY <1>3, <1>5, <2>1, <2>2 DEF RequestInv, CarriedIsOurs, Carried, Decided
  <2>3. CASE s = r
    <3>1. /\ row.next # "end" /\ q = IF out.task # None THEN out.task ELSE r
          /\ Decided(s)' <=> out.verdict \notin {None, "clarify"}
      BY <1>2, <1>3, <2>3 DEF Unfinished, Carried, Decided
    <3>2. CASE now.next = "load_context"
      <4>1. out.verdict = None
        BY <1>0, <1>1, <1>7, <3>2 DEF RequestInv, RoutedOnce
      <4>2. Untouched(q)
        <5>1. CASE out.task # None
          BY <1>7, <2>1, <3>1, <3>2, <5>1 DEF RequestInv, PendingIsFresh
        <5>2. CASE out.task = None
          <6>1. Carried(r) = r
            BY <1>0, <1>1, <3>2, CarriedBy DEF Carried
          <6> QED
            BY <1>0, <1>1, <2>1, <3>1, <3>2, <5>2, <6>1 DEF RequestInv, CarriedIsOurs
        <5> QED
          BY <5>1, <5>2
      <4> QED
        BY <3>1, <4>1, <4>2 DEF Untouched, NoEffects
    <3>3. CASE now.next # "load_context"
      <4>1. q = Carried(r)
        BY <1>0, <1>7, <3>1, <3>3 DEF Carried
      <4>2. /\ effects[q].handoff \subseteq {r}
            /\ Decided(r) => pending[c] # q
        BY <1>0, <1>1, <2>1, <4>1 DEF RequestInv, CarriedIsOurs
      <4>3. saved'[s].next \notin {"load_context", "route"}
        BY <1>3, <1>4, <2>3, <3>3
      <4>4. out.verdict \notin {None, "clarify"} => pending[c] # q
        <5>1. CASE now.next = "route"
          <6>1. CASE now.task # None
            BY <1>7, <3>1, <3>3, <5>1, <6>1, NoneAssumption
          <6>2. CASE now.task = None
            BY <1>1, <1>7, <3>1, <3>3, <6>2
          <6> QED
            BY <6>1, <6>2
        <5>2. CASE now.next # "route"
          BY <1>0, <1>7, <3>3, <4>2, <5>2 DEF Decided
        <5> QED
          BY <5>1, <5>2
      <4> QED
        BY <1>0, <2>3, <3>1, <4>2, <4>3, <4>4
    <3> QED
      BY <3>2, <3>3
  <2> QED
    BY <2>2, <2>3
<1>13. LoadedIsPending'
  BY <1>1 DEF LoadedIsPending
<1>14. DroppedIsUntouched'
  <2> SUFFICES ASSUME NEW q \in dropped
               PROVE  /\ saved'[q] # None /\ ~Unfinished(q)'
                      /\ q \notin astray => Untouched(q)
    BY <1>1, <1>16 DEF DroppedIsUntouched, TypeOK
  <2> QED
    BY <1>3, <1>5 DEF RequestInv, DroppedIsUntouched, TypeOK
<1>15. TicketsOnce'
  BY <1>1, <1>16 DEF RequestInv, TicketsOnce
<1>17. ReviewsOfStops'
  <2>1. ASSUME NEW p \in Run \ astray' PROVE effects'[p].review <= stops + 1
    BY <1>1, <1>16 DEF RequestInv, ReviewsOfStops
  <2>2. ASSUME NEW s \in Run, MayReview(s)', NEW p, p = Carried(s)', p \notin astray'
        PROVE  effects'[p].review <= stops
    <3>1. Unfinished(s) /\ p \notin astray
      BY <1>1, <1>5, <2>2 DEF MayReview
    <3>2. CASE s # r
      <4>1. MayReview(s) /\ p = Carried(s) /\ p \in Run
        BY <1>0, <1>3, <2>2, <3>1, <3>2, CarriedBy DEF MayReview, Carried
      <4> QED
        BY <1>16, <3>1, <4>1 DEF RequestInv, ReviewsOfStops
    <3>3. CASE s = r
      <4>1. now.next = "route"
        BY <1>0, <1>1, <1>2, <1>3, <2>2, <3>3, AfterNode, Working DEF MayReview, Names
      <4>2. p = Carried(r)
        BY <1>0, <1>2, <1>3, <1>7, <2>2, <3>3, <4>1, AfterNode DEF Carried
      <4>3. Untouched(p) /\ p \in Run
        BY <1>0, <1>1, <3>1, <4>1, <4>2, CarriedBy DEF RequestInv, CarriedIsOurs
      <4> QED
        BY <1>16, <4>3 DEF Untouched, NoEffects, TypeOK
    <3> QED
      BY <3>2, <3>3
  <2> QED
    BY <1>1, <2>1, <2>2 DEF ReviewsOfStops
<1> QED
  BY <1>8, <1>9, <1>10, <1>11, <1>12, <1>13, <1>14, <1>15, <1>17 DEF RequestInv

\* What operators, the worker and the customer do opens nothing.
LEMMA ElsewhereKeepsRequests ==
  ASSUME TypeOK, RunInv, RequestInv, NEW d \in Run, Elsewhere(d)
  PROVE  RequestInv'
<1>1. UNCHANGED <<conv, saved, exec, history, pending, astray, dropped, stops>>
  BY ElsewhereStep DEF OnlyEffects
<1>2. \A p \in Run :
        /\ effects'[p].review = effects[p].review
        /\ effects'[p].handoff = effects[p].handoff
        /\ effects'[p].tickets = effects[p].tickets
        /\ effects[p].review <= effects[p].closed + 1 =>
             effects'[p].review <= effects'[p].closed + 1
        /\ Untouched(p) => Untouched(p)'
  BY ElsewhereStep DEF Keeps, Untouched
<1>3. \A r \in Run : /\ Unfinished(r)' <=> Unfinished(r)
                     /\ Carried(r)' = Carried(r)
                     /\ Decided(r)' <=> Decided(r)
                     /\ MayReview(r)' <=> MayReview(r)
                     /\ Unfinished(r) => Carried(r) \in Run
  BY <1>1, CarriedBy DEF Unfinished, Carried, Decided, MayReview
<1>4. OnceEach' /\ TicketsOnce'
  BY <1>1, <1>2 DEF RequestInv, OnceEach, TicketsOnce
<1>5. ReviewsOfStops'
  BY <1>1, <1>2, <1>3 DEF RequestInv, ReviewsOfStops, MayReview
<1>6. TasksAreOlder' /\ RoutedOnce' /\ LoadedIsPending'
  BY <1>1, <1>3 DEF RequestInv, TasksAreOlder, RoutedOnce, LoadedIsPending, Together
<1>7. PendingIsFresh'
  BY <1>1, <1>2 DEF RequestInv, PendingIsFresh, TypeOK
<1>8. CarriedIsOurs'
  BY <1>1, <1>2, <1>3 DEF RequestInv, CarriedIsOurs
<1>9. DroppedIsUntouched'
  BY <1>1, <1>2, <1>3 DEF RequestInv, DroppedIsUntouched, TypeOK
<1> QED
  BY <1>4, <1>5, <1>6, <1>7, <1>8, <1>9 DEF RequestInv


LEMMA RequestStep == TypeOK /\ RunInv /\ RequestInv /\ [Next]_vars => RequestInv'
<1> SUFFICES ASSUME TypeOK, RunInv, RequestInv, [Next]_vars PROVE RequestInv'
  OBVIOUS
<1> USE DEF RequestInv, OnceEach, TasksAreOlder, PendingIsFresh, RoutedOnce,
            CarriedIsOurs, LoadedIsPending, DroppedIsUntouched, TicketsOnce, Untouched,
            Unfinished, Together, Carried, Decided
<1>1. ASSUME NEW r \in Run, Resume(r) PROVE RequestInv'
  BY <1>1 DEF Resume, ReviewsOfStops, MayReview
<1>2. CASE Stop
  <2>1. /\ exec # None /\ exec' = None /\ stops \in Nat /\ stops' = stops + 1
        /\ UNCHANGED <<conv, saved, history, pending, effects, astray, dropped>>
    BY <1>2 DEF Stop, TypeOK
  <2>2. \A q \in Run : effects[q].review \in Nat
    BY DEF TypeOK, Effects
  <2>3. ReviewsOfStops'
    <3>1. ASSUME NEW q \in Run \ astray
          PROVE  effects[q].review <= stops + 1 /\ effects[q].review <= stops + 1 + 1
      BY <2>1, <2>2 DEF ReviewsOfStops
    <3>2. \A r \in Run : MayReview(r)' => Carried(r) \in Run
      BY <2>1, CarriedBy DEF MayReview
    <3> QED
      BY <2>1, <3>1, <3>2 DEF ReviewsOfStops
  <2> QED
    BY <2>1, <2>3
<1>3. CASE UNCHANGED vars
  BY <1>3 DEF vars, ReviewsOfStops, MayReview
<1> QED
  BY <1>1, <1>2, <1>3, CreateKeepsRequests, LoadKeepsRequests, RouteKeepsRequests,
     OrchestrateKeepsRequests, OtherAttemptsKeepRequests, CheckpointKeepsRequests,
     ElsewhereKeepsRequests
     DEF Next, Attempt

\* The type invariant, which needs RunInv: the run of an attempt has a checkpoint.
THEOREM TypeCorrect == Spec => []TypeOK
<1>1. Init => TypeOK /\ RunInv
  BY TypeInit, RunInit
<1>2. TypeOK /\ RunInv /\ [Next]_vars => TypeOK' /\ RunInv'
  BY TypeStep, RunStep
<1> QED
  BY <1>1, <1>2, PTL DEF Spec

\* A request has one handoff ticket and one pending review at most, a further review
\* only for a stop that came after the one before was opened, and nothing at all once
\* the user took it back, whatever node is executed again after a crash and whatever
\* run takes the request up, unless a route node that was executed again led it astray
\* (load_context, route, orchestrate_agents, create_manual_review).
THEOREM EffectsExplained == Spec => []RepeatsAreExplained
<1>1. Init => TypeOK /\ RunInv /\ RequestInv
  BY TypeInit, RunInit, RequestInit
<1>2. TypeOK /\ RunInv /\ RequestInv /\ [Next]_vars => TypeOK' /\ RunInv' /\ RequestInv'
  BY TypeStep, RunStep, RequestStep
<1>3. RequestInv => RepeatsAreExplained
  BY DEF RequestInv, RepeatsAreExplained, DroppedIsUntouched, Untouched, OnceEach,
         ReviewsOfStops, TicketsOnce
<1> QED
  BY <1>1, <1>2, <1>3, PTL DEF Spec
=============================================================================
