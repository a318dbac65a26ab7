-------------------------- MODULE ToolRuntime_proofs --------------------------
(***************************************************************************)
(* Slots, side effects and answers of ToolRuntime, for any sets of calls,  *)
(* any number of slots and any number of attempts.                         *)
(*                                                                         *)
(* A semaphore and the attempts that hold it know nothing of each other, so *)
(* that they agree is a count (SlotInv).  The rest is the life of a call:  *)
(* which of its attempts have not begun, which cannot take effect any      *)
(* more, and that a writing call never comes to a second one (CallInv).    *)
(***************************************************************************)
EXTENDS ToolRuntime, FiniteSetTheorems, TLAPS

\* What a variable may hold; slots is bounded by the threads' count below.
CallTypeOK ==
  /\ pc \in [Call -> Step]
  /\ attempt \in [Call -> Attempt]
  /\ answer \in [Call -> Answer \cup {None}]
  /\ thread \in [Call -> [Attempt -> Stage]]
  /\ outcomes \in [Call -> [Attempt -> Outcome \cup {None}]]
  /\ effects \in [Call -> Nat]

SlotInv == /\ slots \in Nat
           /\ IsFiniteSet(Holding)
           /\ slots + Cardinality(Holding) = WorkerLimit

\* There is another attempt to come.
BackoffIsBounded == \A c \in Call : pc[c] = "backoff" => attempt[c] < MaxAttempts

AnsweredIsDone == \A c \in Call : answer[c] # None => pc[c] = "done"

\* Attempts begin one after the other.
NotBegun(c, a) == a > attempt[c] \/ (a = attempt[c] /\ pc[c] \in {"idle", "attempt"})
LaterIsUntouched == \A c \in Call, a \in Attempt :
  NotBegun(c, a) => thread[c][a] = "none"

\* What a caller may take comes from a thread that will not act any more.
OutcomeIsFinal == \A c \in Call, a \in Attempt :
  outcomes[c][a] # None => thread[c][a] \in {"ending", "ended"}

\* A slot that no thread will give back is its caller's: either the caller is about
\* to start the thread, or it could not and its call ended with that error.
CallerHolds == \A c \in Call :
  /\ pc[c] = "starting" => thread[c][attempt[c]] = "ready"
  /\ \A a \in Attempt :
       /\ thread[c][a] = "ready" => pc[c] = "starting" /\ a = attempt[c]
       /\ thread[c][a] = "lost" => answer[c] = "execution" /\ a = attempt[c]

\* A writing call has one attempt, and it has acted at most once.
WritesOnce == \A c \in Writing :
  /\ attempt[c] = 1
  /\ pc[c] # "backoff"
  /\ effects[c] <= 1
  /\ thread[c][1] \in {"none", "ready", "running", "lost"} => effects[c] = 0

\* A call that is out of scope has no thread.
DeniedIsIdle == \A c \in Call :
  /\ answer[c] = "denied" => c \in OutOfScope
  /\ c \in OutOfScope => /\ pc[c] \in {"idle", "done"}
                         /\ effects[c] = 0
                         /\ \A a \in Attempt : thread[c][a] = "none"

CallInv ==
  /\ CallTypeOK
  /\ BackoffIsBounded
  /\ AnsweredIsDone
  /\ LaterIsUntouched
  /\ OutcomeIsFinal
  /\ CallerHolds
  /\ WritesOnce
  /\ DeniedIsIdle
  /\ AnswerOfLastAttempt

-----------------------------------------------------------------------------
(* The life of a call.                                                     *)

LEMMA CallInit == Init => CallInv
BY CallAssumption, LimitAssumption, NoneAssumption
   DEF Init, CallInv, CallTypeOK, BackoffIsBounded, AnsweredIsDone, LaterIsUntouched,
       OutcomeIsFinal, CallerHolds, WritesOnce, DeniedIsIdle, AnswerOfLastAttempt,
       NotBegun, Attempt, Answer, Outcome, Error, Step, Stage

\* A write to the entry of one attempt.
LEMMA AttemptWrite ==
  ASSUME NEW S, NEW f \in [Call -> [Attempt -> S]],
         NEW c \in Call, NEW a \in Attempt, NEW v \in S
  PROVE  /\ [f EXCEPT ![c][a] = v] \in [Call -> [Attempt -> S]]
         /\ \A d \in Call, b \in Attempt :
              [f EXCEPT ![c][a] = v][d][b] = IF d = c /\ b = a THEN v ELSE f[d][b]
OBVIOUS

\* A caller that does not hold a slot of its own goes on without taking one.
LEMMA CallerMoves ==
  ASSUME CallInv, NEW c \in Call, pc[c] \notin {"starting", "done"}, thread' = thread,
         pc'[c] # "starting",
         \A d \in Call \ {c} :
           pc'[d] = pc[d] /\ attempt'[d] = attempt[d] /\ answer'[d] = answer[d]
  PROVE  CallerHolds'
<1>1. \A a \in Attempt : thread[c][a] \notin {"ready", "lost"}
  BY NoneAssumption DEF CallInv, CallerHolds, AnsweredIsDone, Answer, Outcome, Error
<1> QED
  BY <1>1 DEF CallInv, CallerHolds

\* Where a thread that runs is does not matter to what callers hold.
LEMMA ThreadMoves ==
  ASSUME CallInv, NEW c \in Call, NEW a \in Attempt, NEW stage \in {"acted", "ending", "ended"},
         thread[c][a] \in {"running", "acted", "ending"},
         thread' = [thread EXCEPT ![c][a] = stage], UNCHANGED <<pc, attempt, answer>>
  PROVE  CallerHolds'
<1>1. \A d \in Call, b \in Attempt :
        thread'[d][b] = IF d = c /\ b = a THEN stage ELSE thread[d][b]
  BY AttemptWrite DEF CallInv, CallTypeOK, Stage
<1>2. \A d \in Call : attempt[d] \in Attempt
  BY DEF CallInv, CallTypeOK
<1> QED
  BY <1>1, <1>2 DEF CallInv, CallerHolds

LEMMA CallStep == CallInv /\ [Next]_vars => CallInv'
<1> SUFFICES ASSUME CallInv, [Next]_vars PROVE CallInv'
  OBVIOUS
<1> USE CallAssumption, LimitAssumption, NoneAssumption
        DEF CallInv, CallTypeOK, Attempt, Goto, Return, KeepThreads, KeepCallers
<1>1. ASSUME NEW c \in Call, BeginCall(c) PROVE CallInv'
  <2>1. CallTypeOK'
    BY <1>1 DEF BeginCall, Answer, Outcome, Error, Step, Stage
  <2>2. BackoffIsBounded'
    BY <1>1 DEF BeginCall, BackoffIsBounded
  <2>3. AnsweredIsDone'
    BY <1>1 DEF BeginCall, AnsweredIsDone
  <2>4. LaterIsUntouched'
    BY <1>1 DEF BeginCall, LaterIsUntouched, NotBegun
  <2>5. OutcomeIsFinal'
    BY <1>1 DEF BeginCall, OutcomeIsFinal
  <2>6. WritesOnce'
    BY <1>1 DEF BeginCall, WritesOnce, LaterIsUntouched, NotBegun
  <2>7. DeniedIsIdle'
    BY <1>1 DEF BeginCall, DeniedIsIdle, AnsweredIsDone, Answer, Outcome, Error
  <2>8. AnswerOfLastAttempt'
    BY <1>1
       DEF BeginCall, AnswerOfLastAttempt, AnsweredIsDone, OutcomeIsFinal, Answer,
           Outcome, Error
  <2>9. CallerHolds'
    <3>1. pc[c] \notin {"starting", "done"} /\ pc'[c] # "starting" /\ thread' = thread
      BY <1>1 DEF BeginCall
    <3>2. \A d \in Call \ {c} :
             pc'[d] = pc[d] /\ attempt'[d] = attempt[d] /\ answer'[d] = answer[d]
      BY <1>1 DEF BeginCall
    <3> QED
      BY <3>1, <3>2, CallerMoves
  <2> QED
    BY <2>1, <2>2, <2>3, <2>4, <2>5, <2>6, <2>7, <2>8, <2>9
<1>2. ASSUME NEW c \in Call, BackoffEnds(c) PROVE CallInv'
  <2>1. CallTypeOK'
    BY <1>2 DEF BackoffEnds, BackoffIsBounded, Answer, Outcome, Error, Step, Stage
  <2>2. BackoffIsBounded'
    BY <1>2 DEF BackoffEnds, BackoffIsBounded
  <2>3. AnsweredIsDone'
    BY <1>2 DEF BackoffEnds, AnsweredIsDone
  <2>4. LaterIsUntouched'
    BY <1>2 DEF BackoffEnds, LaterIsUntouched, NotBegun
  <2>5. OutcomeIsFinal'
    BY <1>2 DEF BackoffEnds, OutcomeIsFinal
  <2>6. WritesOnce'
    BY <1>2 DEF BackoffEnds, WritesOnce, LaterIsUntouched, NotBegun
  <2>7. DeniedIsIdle'
    BY <1>2 DEF BackoffEnds, DeniedIsIdle, AnsweredIsDone, Answer, Outcome, Error
  <2>8. AnswerOfLastAttempt'
    BY <1>2
       DEF BackoffEnds, AnswerOfLastAttempt, AnsweredIsDone, OutcomeIsFinal, Answer,
           Outcome, Error
  <2>9. CallerHolds'
    <3>1. pc[c] \notin {"starting", "done"} /\ pc'[c] # "starting" /\ thread' = thread
      BY <1>2 DEF BackoffEnds
    <3>2. \A d \in Call \ {c} :
             pc'[d] = pc[d] /\ attempt'[d] = attempt[d] /\ answer'[d] = answer[d]
      BY <1>2 DEF BackoffEnds
    <3> QED
      BY <3>1, <3>2, CallerMoves
  <2> QED
    BY <2>1, <2>2, <2>3, <2>4, <2>5, <2>6, <2>7, <2>8, <2>9
<1>3. ASSUME NEW c \in Call, pc[c] = "attempt", Acquire(c) PROVE CallInv'
  <2> DEFINE a == attempt[c]
  <2>1. /\ thread' = [thread EXCEPT ![c][a] = "ready"]
        /\ a \in Attempt /\ thread[c][a] = "none"
    BY <1>3 DEF Acquire, SetThread, LaterIsUntouched, NotBegun
  <2>2. /\ thread' \in [Call -> [Attempt -> Stage]]
        /\ \A d \in Call, b \in Attempt :
             thread'[d][b] = IF d = c /\ b = a THEN "ready" ELSE thread[d][b]
    BY <2>1, AttemptWrite DEF Stage
  <2>12. /\ \A d \in Call : pc'[d] = IF d = c THEN "starting" ELSE pc[d]
         /\ attempt' = attempt /\ answer' = answer /\ a = attempt[c]
    BY <1>3 DEF Acquire
  <2> HIDE DEF a
  <2>3. CallTypeOK'
    BY <1>3, <2>1, <2>2 DEF Acquire, Answer, Outcome, Error, Step, Stage
  <2>4. BackoffIsBounded'
    BY <1>3, <2>1, <2>2 DEF Acquire, BackoffIsBounded
  <2>5. AnsweredIsDone'
    BY <1>3, <2>1, <2>2 DEF Acquire, AnsweredIsDone
  <2>6. LaterIsUntouched'
    <3> SUFFICES ASSUME NEW d \in Call, NEW b \in Attempt, NotBegun(d, b)'
                 PROVE  thread'[d][b] = "none"
      BY DEF LaterIsUntouched
    <3>1. CASE d = c
      BY <2>1, <2>2, <2>12, <3>1 DEF LaterIsUntouched, NotBegun
    <3>2. CASE d # c
      BY <2>2, <2>12, <3>2 DEF LaterIsUntouched, NotBegun
    <3> QED
      BY <3>1, <3>2
  <2>7. OutcomeIsFinal'
    BY <1>3, <2>1, <2>2 DEF Acquire, OutcomeIsFinal
  <2>8. WritesOnce'
    BY <1>3, <2>1, <2>2 DEF Acquire, WritesOnce, LaterIsUntouched, NotBegun
  <2>9. DeniedIsIdle'
    BY <1>3, <2>1, <2>2 DEF Acquire, DeniedIsIdle, AnsweredIsDone, Answer, Outcome, Error
  <2>10. AnswerOfLastAttempt'
    BY <1>3, <2>1, <2>2
       DEF Acquire, AnswerOfLastAttempt, AnsweredIsDone, OutcomeIsFinal, Answer, Outcome,
           Error
  <2>11. CallerHolds'
    <3>1. thread'[c][attempt'[c]] = "ready"
      BY <2>1, <2>2, <2>12
    <3>2. ASSUME NEW d \in Call, NEW b \in Attempt, thread'[d][b] = "ready"
          PROVE  pc'[d] = "starting" /\ b = attempt'[d]
      BY <1>3, <2>2, <2>12, <3>2 DEF CallerHolds
    <3>3. ASSUME NEW d \in Call, NEW b \in Attempt, thread'[d][b] = "lost"
          PROVE  answer'[d] = "execution" /\ b = attempt'[d]
      BY <2>2, <2>12, <3>3 DEF CallerHolds
    <3>4. ASSUME NEW d \in Call, d # c, pc'[d] = "starting"
          PROVE  thread'[d][attempt'[d]] = "ready"
      BY <2>2, <2>12, <3>4 DEF CallerHolds
    <3> QED
      BY <3>1, <3>2, <3>3, <3>4 DEF CallerHolds
  <2> QED
    BY <2>3, <2>4, <2>5, <2>6, <2>7, <2>8, <2>9, <2>10, <2>11
<1>4. ASSUME NEW c \in Call, pc[c] = "attempt", Fail(c, "transient"), KeepThreads
      PROVE  CallInv'
  <2>1. CallTypeOK'
    BY <1>4 DEF Fail, Retryable, Answer, Outcome, Error, Step, Stage
  <2>2. BackoffIsBounded'
    BY <1>4 DEF Fail, BackoffIsBounded
  <2>3. AnsweredIsDone'
    BY <1>4 DEF Fail, AnsweredIsDone
  <2>4. LaterIsUntouched'
    BY <1>4 DEF Fail, LaterIsUntouched, NotBegun
  <2>5. OutcomeIsFinal'
    BY <1>4 DEF Fail, OutcomeIsFinal
  <2>6. WritesOnce'
    BY <1>4 DEF Fail, Retryable, WritesOnce, LaterIsUntouched, NotBegun
  <2>7. DeniedIsIdle'
    BY <1>4 DEF Fail, Retryable, DeniedIsIdle, AnsweredIsDone, Answer, Outcome, Error
  <2>8. AnswerOfLastAttempt'
    BY <1>4
       DEF Fail, AnswerOfLastAttempt, AnsweredIsDone, OutcomeIsFinal, Answer, Outcome,
           Error
  <2>9. CallerHolds'
    <3>1. pc[c] \notin {"starting", "done"} /\ pc'[c] # "starting" /\ thread' = thread
      BY <1>4 DEF Fail
    <3>2. \A d \in Call \ {c} :
             pc'[d] = pc[d] /\ attempt'[d] = attempt[d] /\ answer'[d] = answer[d]
      BY <1>4 DEF Fail
    <3> QED
      BY <3>1, <3>2, CallerMoves
  <2> QED
    BY <2>1, <2>2, <2>3, <2>4, <2>5, <2>6, <2>7, <2>8, <2>9
<1>5. ASSUME NEW c \in Call, TakeOutcome(c) PROVE CallInv'
  <2> DEFINE a == attempt[c]
             outcome == outcomes[c][a]
  <2>1. outcomes' = [outcomes EXCEPT ![c][a] = None] /\ a \in Attempt /\ outcome \in Outcome
    BY <1>5 DEF TakeOutcome
  <2>2. /\ outcomes' \in [Call -> [Attempt -> Outcome \cup {None}]]
        /\ \A d \in Call, b \in Attempt :
             outcomes'[d][b] = IF d = c /\ b = a THEN None ELSE outcomes[d][b]
    BY <2>1, AttemptWrite
  <2>3. CallTypeOK'
    <3>1. pc' \in [Call -> Step]
      BY <1>5 DEF TakeOutcome, Fail, Step
    <3>2. answer' \in [Call -> Answer \cup {None}]
      BY <1>5, <2>1 DEF TakeOutcome, Fail, Answer, Outcome, Error
    <3>3. attempt' = attempt
      BY <1>5 DEF TakeOutcome, Fail
    <3> QED
      BY <1>5, <2>2, <3>1, <3>2, <3>3 DEF TakeOutcome
  <2>4. BackoffIsBounded'
    BY <1>5, <2>1, <2>2 DEF TakeOutcome, Fail, BackoffIsBounded
  <2>5. AnsweredIsDone'
    BY <1>5, <2>1, <2>2 DEF TakeOutcome, Fail, AnsweredIsDone
  <2>6. LaterIsUntouched'
    BY <1>5, <2>1, <2>2 DEF TakeOutcome, Fail, LaterIsUntouched, NotBegun
  <2>7. OutcomeIsFinal'
    BY <1>5, <2>1, <2>2 DEF TakeOutcome, Fail, OutcomeIsFinal
  <2>8. WritesOnce'
    BY <1>5, <2>1, <2>2
       DEF TakeOutcome, Fail, Retryable, WritesOnce, LaterIsUntouched, NotBegun
  <2>9. DeniedIsIdle'
    BY <1>5, <2>1, <2>2
       DEF TakeOutcome, Fail, Retryable, DeniedIsIdle, AnsweredIsDone, Answer, Outcome,
           Error
  <2>10. AnswerOfLastAttempt'
    BY <1>5, <2>1, <2>2
       DEF TakeOutcome, Fail, AnswerOfLastAttempt, AnsweredIsDone, OutcomeIsFinal,
           Answer, Outcome, Error
  <2>11. CallerHolds'
    <3>1. pc[c] \notin {"starting", "done"} /\ pc'[c] # "starting" /\ thread' = thread
      BY <1>5 DEF TakeOutcome, Fail
    <3>2. \A d \in Call \ {c} :
             pc'[d] = pc[d] /\ attempt'[d] = attempt[d] /\ answer'[d] = answer[d]
      BY <1>5 DEF TakeOutcome, Fail
    <3> QED
      BY <3>1, <3>2, CallerMoves
  <2> QED
    BY <2>3, <2>4, <2>5, <2>6, <2>7, <2>8, <2>9, <2>10, <2>11
<1>6. ASSUME NEW c \in Call, TimeOut(c) PROVE CallInv'
  <2>1. CallTypeOK'
    BY <1>6 DEF TimeOut, Fail, Retryable, Answer, Outcome, Error, Step, Stage
  <2>2. BackoffIsBounded'
    BY <1>6 DEF TimeOut, Fail, BackoffIsBounded
  <2>3. AnsweredIsDone'
    BY <1>6 DEF TimeOut, Fail, AnsweredIsDone
  <2>4. LaterIsUntouched'
    BY <1>6 DEF TimeOut, Fail, LaterIsUntouched, NotBegun
  <2>5. OutcomeIsFinal'
    BY <1>6 DEF TimeOut, Fail, OutcomeIsFinal
  <2>6. WritesOnce'
    BY <1>6 DEF TimeOut, Fail, Retryable, WritesOnce, LaterIsUntouched, NotBegun
  <2>7. DeniedIsIdle'
    BY <1>6
       DEF TimeOut, Fail, Retryable, DeniedIsIdle, AnsweredIsDone, Answer, Outcome,
           Error
  <2>8. AnswerOfLastAttempt'
    BY <1>6
       DEF TimeOut, Fail, AnswerOfLastAttempt, AnsweredIsDone, OutcomeIsFinal, Answer,
           Outcome, Error
  <2>9. CallerHolds'
    <3>1. pc[c] \notin {"starting", "done"} /\ pc'[c] # "starting" /\ thread' = thread
      BY <1>6 DEF TimeOut, Fail
    <3>2. \A d \in Call \ {c} :
             pc'[d] = pc[d] /\ attempt'[d] = attempt[d] /\ answer'[d] = answer[d]
      BY <1>6 DEF TimeOut, Fail
    <3> QED
      BY <3>1, <3>2, CallerMoves
  <2> QED
    BY <2>1, <2>2, <2>3, <2>4, <2>5, <2>6, <2>7, <2>8, <2>9
<1>7. ASSUME NEW c \in Call, NEW a \in Attempt, TakeEffect(c, a) PROVE CallInv'
  <2>1. CallTypeOK'
    BY <1>7 DEF TakeEffect, Answer, Outcome, Error, Step, Stage
  <2>2. BackoffIsBounded'
    BY <1>7 DEF TakeEffect, BackoffIsBounded
  <2>3. AnsweredIsDone'
    BY <1>7 DEF TakeEffect, AnsweredIsDone
  <2>4. LaterIsUntouched'
    BY <1>7 DEF TakeEffect, LaterIsUntouched, NotBegun
  <2>5. OutcomeIsFinal'
    BY <1>7 DEF TakeEffect, OutcomeIsFinal
  <2>6. WritesOnce'
    <3>1. \A d \in Call, b \in Attempt :
            thread'[d][b] = IF d = c /\ b = a THEN "acted" ELSE thread[d][b]
      BY <1>7, AttemptWrite DEF TakeEffect, Stage
    <3>2. a = 1 /\ effects[c] = 0
      <4>1. c \in Writing /\ thread[c][a] = "running" /\ attempt[c] = 1
        BY <1>7 DEF TakeEffect, WritesOnce
      <4>2. ~(a > 1)
        BY <4>1 DEF LaterIsUntouched, NotBegun
      <4> QED
        BY <4>1, <4>2 DEF WritesOnce
    <3>3. UNCHANGED <<pc, attempt>> /\ effects' = [effects EXCEPT ![c] = @ + 1]
      BY <1>7 DEF TakeEffect
    <3> QED
      <4>1. \A d \in Call : effects'[d] = IF d = c THEN 1 ELSE effects[d]
        BY <3>2, <3>3
      <4>2. 1 \in Attempt
        OBVIOUS
      <4> QED
        BY <3>1, <3>2, <3>3, <4>1, <4>2 DEF WritesOnce
  <2>7. DeniedIsIdle'
    BY <1>7 DEF TakeEffect, DeniedIsIdle, AnsweredIsDone, Answer, Outcome, Error
  <2>8. AnswerOfLastAttempt'
    BY <1>7
       DEF TakeEffect, AnswerOfLastAttempt, AnsweredIsDone, OutcomeIsFinal, Answer,
           Outcome, Error
  <2>9. CallerHolds'
    BY <1>7, ThreadMoves DEF TakeEffect
  <2> QED
    BY <2>1, <2>2, <2>3, <2>4, <2>5, <2>6, <2>7, <2>8, <2>9
<1>8. ASSUME NEW c \in Call, NEW a \in Attempt, PutOutcome(c, a) PROVE CallInv'
  <2>1. CallTypeOK'
    BY <1>8 DEF PutOutcome, Answer, Outcome, Error, Step, Stage
  <2>2. BackoffIsBounded'
    BY <1>8 DEF PutOutcome, BackoffIsBounded
  <2>3. AnsweredIsDone'
    BY <1>8 DEF PutOutcome, AnsweredIsDone
  <2>4. LaterIsUntouched'
    BY <1>8 DEF PutOutcome, LaterIsUntouched, NotBegun
  <2>5. OutcomeIsFinal'
    BY <1>8 DEF PutOutcome, OutcomeIsFinal
  <2>6. WritesOnce'
    BY <1>8 DEF PutOutcome, WritesOnce, LaterIsUntouched, NotBegun
  <2>7. DeniedIsIdle'
    BY <1>8 DEF PutOutcome, DeniedIsIdle, AnsweredIsDone, Answer, Outcome, Error
  <2>8. AnswerOfLastAttempt'
    BY <1>8
       DEF PutOutcome, AnswerOfLastAttempt, AnsweredIsDone, OutcomeIsFinal, Answer,
           Outcome, Error
  <2>9. CallerHolds'
    BY <1>8, ThreadMoves DEF PutOutcome
  <2> QED
    BY <2>1, <2>2, <2>3, <2>4, <2>5, <2>6, <2>7, <2>8, <2>9
<1>9. ASSUME NEW c \in Call, NEW a \in Attempt, ReleaseSlot(c, a) PROVE CallInv'
  <2>1. CallTypeOK'
    BY <1>9 DEF ReleaseSlot, Answer, Outcome, Error, Step, Stage
  <2>2. BackoffIsBounded'
    BY <1>9 DEF ReleaseSlot, BackoffIsBounded
  <2>3. AnsweredIsDone'
    BY <1>9 DEF ReleaseSlot, AnsweredIsDone
  <2>4. LaterIsUntouched'
    BY <1>9 DEF ReleaseSlot, LaterIsUntouched, NotBegun
  <2>5. OutcomeIsFinal'
    BY <1>9 DEF ReleaseSlot, OutcomeIsFinal
  <2>6. WritesOnce'
    BY <1>9 DEF ReleaseSlot, WritesOnce, LaterIsUntouched, NotBegun
  <2>7. DeniedIsIdle'
    BY <1>9 DEF ReleaseSlot, DeniedIsIdle, AnsweredIsDone, Answer, Outcome, Error
  <2>8. AnswerOfLastAttempt'
    BY <1>9
       DEF ReleaseSlot, AnswerOfLastAttempt, AnsweredIsDone, OutcomeIsFinal, Answer,
           Outcome, Error
  <2>9. CallerHolds'
    BY <1>9, ThreadMoves DEF ReleaseSlot
  <2> QED
    BY <2>1, <2>2, <2>3, <2>4, <2>5, <2>6, <2>7, <2>8, <2>9
<1>10. ASSUME NEW c \in Call, pc[c] = "starting", SetThread(c, "running"), Goto(c, "waiting"),
             UNCHANGED <<attempt, answer>>,
             UNCHANGED <<slots, outcomes, effects>>
      PROVE  CallInv'
  <2> DEFINE a == attempt[c]
  <2>1. /\ thread' = [thread EXCEPT ![c][a] = "running"]
        /\ a \in Attempt /\ thread[c][a] = "ready"
    BY <1>10 DEF SetThread, CallerHolds
  <2>2. /\ thread' \in [Call -> [Attempt -> Stage]]
        /\ \A d \in Call, b \in Attempt :
             thread'[d][b] = IF d = c /\ b = a THEN "running" ELSE thread[d][b]
    BY <2>1, AttemptWrite DEF Stage
  <2> HIDE DEF a
  <2>3. CallTypeOK'
    BY <1>10, <2>1, <2>2 DEF Answer, Outcome, Error, Step, Stage
  <2>4. BackoffIsBounded'
    BY <1>10, <2>1, <2>2 DEF BackoffIsBounded
  <2>5. AnsweredIsDone'
    BY <1>10, <2>1, <2>2 DEF AnsweredIsDone
  <2>6. LaterIsUntouched'
    BY <1>10, <2>1, <2>2 DEF LaterIsUntouched, NotBegun
  <2>7. OutcomeIsFinal'
    BY <1>10, <2>1, <2>2 DEF OutcomeIsFinal, CallerHolds
  <2>8. WritesOnce'
    BY <1>10, <2>1, <2>2 DEF WritesOnce, CallerHolds, LaterIsUntouched, NotBegun
  <2>9. DeniedIsIdle'
    BY <1>10, <2>1, <2>2
       DEF DeniedIsIdle, AnsweredIsDone, CallerHolds, Answer, Outcome, Error
  <2>10. AnswerOfLastAttempt'
    BY <1>10, <2>1, <2>2
       DEF AnswerOfLastAttempt, AnsweredIsDone, OutcomeIsFinal, CallerHolds, Answer, Outcome,
           Error
  <2>11. CallerHolds'
    BY <1>10, <2>1, <2>2
       DEF CallerHolds, AnsweredIsDone, LaterIsUntouched, NotBegun
  <2> QED
    BY <2>3, <2>4, <2>5, <2>6, <2>7, <2>8, <2>9, <2>10, <2>11
<1>11. ASSUME NEW c \in Call, pc[c] = "starting", SetThread(c, "lost"), Fail(c, "execution"),
             UNCHANGED <<slots, outcomes, effects>>
      PROVE  CallInv'
  <2> DEFINE a == attempt[c]
  <2>1. /\ thread' = [thread EXCEPT ![c][a] = "lost"]
        /\ a \in Attempt /\ thread[c][a] = "ready"
    BY <1>11 DEF SetThread, CallerHolds
  <2>2. /\ thread' \in [Call -> [Attempt -> Stage]]
        /\ \A d \in Call, b \in Attempt :
             thread'[d][b] = IF d = c /\ b = a THEN "lost" ELSE thread[d][b]
    BY <2>1, AttemptWrite DEF Stage
  <2> HIDE DEF a
  <2>3. CallTypeOK'
    <3>1. pc' \in [Call -> Step]
      BY <1>11 DEF Fail, Step
    <3>2. answer' \in [Call -> Answer \cup {None}] /\ attempt' = attempt
      BY <1>11 DEF Fail, Answer, Outcome, Error
    <3> QED
      BY <1>11, <2>2, <3>1, <3>2
  <2>4. BackoffIsBounded'
    BY <1>11, <2>1, <2>2 DEF Fail, Retryable, BackoffIsBounded
  <2>5. AnsweredIsDone'
    BY <1>11, <2>1, <2>2 DEF Fail, Retryable, AnsweredIsDone
  <2>6. LaterIsUntouched'
    BY <1>11, <2>1, <2>2 DEF Fail, Retryable, LaterIsUntouched, NotBegun
  <2>7. OutcomeIsFinal'
    BY <1>11, <2>1, <2>2 DEF Fail, Retryable, OutcomeIsFinal, CallerHolds
  <2>8. WritesOnce'
    BY <1>11, <2>1, <2>2
       DEF Fail, Retryable, WritesOnce, CallerHolds, LaterIsUntouched, NotBegun
  <2>9. DeniedIsIdle'
    BY <1>11, <2>1, <2>2
       DEF Fail, Retryable, DeniedIsIdle, AnsweredIsDone, CallerHolds, Answer, Outcome,
           Error
  <2>10. AnswerOfLastAttempt'
    BY <1>11, <2>1, <2>2
       DEF Fail, Retryable, AnswerOfLastAttempt, AnsweredIsDone, OutcomeIsFinal, CallerHolds, Answer, Outcome,
           Error
  <2>11. CallerHolds'
    BY <1>11, <2>1, <2>2
       DEF Fail, Retryable, CallerHolds, AnsweredIsDone, LaterIsUntouched, NotBegun
  <2> QED
    BY <2>3, <2>4, <2>5, <2>6, <2>7, <2>8, <2>9, <2>10, <2>11
<1>12. CASE UNCHANGED vars
  BY <1>12
     DEF vars, BackoffIsBounded, AnsweredIsDone, LaterIsUntouched, NotBegun,
         OutcomeIsFinal, CallerHolds, WritesOnce, DeniedIsIdle, AnswerOfLastAttempt
<1> QED
  BY <1>1, <1>2, <1>3, <1>4, <1>5, <1>6, <1>7, <1>8, <1>9, <1>10, <1>11,
     <1>12
     DEF Next, CallerStep, AcquireSlot, Start, ThreadStep

-----------------------------------------------------------------------------
(* The slots.                                                              *)

LEMMA SlotInit == Init => SlotInv
<1> SUFFICES ASSUME Init PROVE SlotInv
  OBVIOUS
<1>1. Holding = {}
  BY DEF Init, Holding
<1> QED
  BY <1>1, FS_EmptySet, LimitAssumption DEF Init, SlotInv

\* A caller takes a slot for its attempt, the end of a thread gives it back; no other
\* step touches slots or changes which attempts hold one.
SlotMove ==
  \/ slots' = slots /\ Holding' = Holding
  \/ /\ slots > 0 /\ slots' = slots - 1
     /\ \E ca \in Call \X Attempt : ca \notin Holding /\ Holding' = Holding \cup {ca}
  \/ /\ slots' = slots + 1
     /\ \E ca \in Holding : Holding' = Holding \ {ca}

LEMMA HoldingStep == CallInv /\ [Next]_vars => SlotMove
<1> SUFFICES ASSUME CallInv, [Next]_vars PROVE SlotMove
  OBVIOUS
<1> USE DEF SlotMove
<1>1. CASE thread' = thread /\ slots' = slots
  BY <1>1 DEF Holding
<1>2. ASSUME NEW c \in Call, pc[c] = "attempt", Acquire(c) PROVE SlotMove
  <2> DEFINE ca == <<c, attempt[c]>>
  <2>1. ca \in Call \X Attempt /\ thread[c][attempt[c]] = "none"
    BY <1>2 DEF CallInv, CallTypeOK, LaterIsUntouched, NotBegun
  <2>2. ca \notin Holding
    BY <2>1 DEF Holding
  <2>3. thread' = [thread EXCEPT ![c][attempt[c]] = "ready"]
    BY <1>2 DEF Acquire, SetThread
  <2>4. \A d \in Call, a \in Attempt :
           thread'[d][a] = IF d = c /\ a = attempt[c] THEN "ready" ELSE thread[d][a]
    BY <2>1, <2>3 DEF CallInv, CallTypeOK
  <2>5. Holding' = Holding \cup {ca}
    BY <2>1, <2>4 DEF Holding
  <2> QED
    BY <1>2, <2>1, <2>2, <2>5 DEF Acquire
<1>3. ASSUME NEW c \in Call, NEW a \in Attempt, TakeEffect(c, a) PROVE SlotMove
  <2>1. \A d \in Call, b \in Attempt :
           thread'[d][b] = IF d = c /\ b = a THEN "acted" ELSE thread[d][b]
    BY <1>3 DEF TakeEffect, CallInv, CallTypeOK
  <2>2. Holding' = Holding
    BY <1>3, <2>1 DEF Holding, TakeEffect
  <2> QED
    BY <1>3, <2>2 DEF TakeEffect
<1>4. ASSUME NEW c \in Call, NEW a \in Attempt, PutOutcome(c, a) PROVE SlotMove
  <2>1. \A d \in Call, b \in Attempt :
           thread'[d][b] = IF d = c /\ b = a THEN "ending" ELSE thread[d][b]
    BY <1>4 DEF PutOutcome, CallInv, CallTypeOK
  <2>2. Holding' = Holding
    BY <1>4, <2>1 DEF Holding, PutOutcome
  <2> QED
    BY <1>4, <2>2 DEF PutOutcome
<1>5. ASSUME NEW c \in Call, NEW a \in Attempt, ReleaseSlot(c, a) PROVE SlotMove
  <2>1. \A d \in Call, b \in Attempt :
           thread'[d][b] = IF d = c /\ b = a THEN "ended" ELSE thread[d][b]
    BY <1>5 DEF ReleaseSlot, CallInv, CallTypeOK
  <2>2. <<c, a>> \in Holding /\ Holding' = Holding \ {<<c, a>>}
    BY <1>5, <2>1 DEF Holding, ReleaseSlot
  <2> QED
    BY <1>5, <2>2 DEF ReleaseSlot
<1>6. ASSUME NEW c \in Call, Start(c) PROVE SlotMove
  <2>1. PICK stage \in {"running", "lost"} : SetThread(c, stage)
    BY <1>6 DEF Start
  <2>2. attempt[c] \in Attempt /\ thread[c][attempt[c]] = "ready"
    BY <1>6 DEF Start, CallInv, CallTypeOK, CallerHolds
  <2>3. \A d \in Call, b \in Attempt :
           thread'[d][b] = IF d = c /\ b = attempt[c] THEN stage ELSE thread[d][b]
    BY <2>1, <2>2 DEF SetThread, CallInv, CallTypeOK
  <2>4. Holding' = Holding
    BY <2>2, <2>3 DEF Holding
  <2> QED
    BY <1>6, <2>4 DEF Start
<1> QED
  <2>1. ASSUME NEW c \in Call, BeginCall(c) PROVE thread' = thread /\ slots' = slots
    BY <2>1 DEF BeginCall, KeepThreads
  <2>2. ASSUME NEW c \in Call, BackoffEnds(c) \/ TakeOutcome(c) \/ TimeOut(c)
        PROVE  thread' = thread /\ slots' = slots
    BY <2>2 DEF BackoffEnds, TakeOutcome, TimeOut, KeepThreads
  <2>3. ASSUME NEW c \in Call, AcquireSlot(c)
        PROVE  (thread' = thread /\ slots' = slots) \/ (pc[c] = "attempt" /\ Acquire(c))
    BY <2>3 DEF AcquireSlot, KeepThreads
  <2> QED
    BY <1>1, <1>2, <1>3, <1>4, <1>5, <1>6, <2>1, <2>2, <2>3
       DEF Next, CallerStep, ThreadStep, vars

LEMMA SlotStep == CallInv /\ SlotInv /\ [Next]_vars => SlotInv'
<1> SUFFICES ASSUME CallInv, SlotInv, [Next]_vars PROVE SlotInv'
  OBVIOUS
<1> USE LimitAssumption, FS_CardinalityType DEF SlotInv, SlotMove
<1>1. CASE slots' = slots /\ Holding' = Holding
  BY <1>1
<1>2. ASSUME slots > 0, slots' = slots - 1, NEW ca, ca \notin Holding,
             Holding' = Holding \cup {ca}
      PROVE  SlotInv'
  <2>1. IsFiniteSet(Holding') /\ Cardinality(Holding') = Cardinality(Holding) + 1
    BY <1>2, FS_AddElement
  <2> QED
    BY <1>2, <2>1
<1>3. ASSUME slots' = slots + 1, NEW ca \in Holding, Holding' = Holding \ {ca}
      PROVE  SlotInv'
  <2>1. IsFiniteSet(Holding') /\ Cardinality(Holding') = Cardinality(Holding) - 1
    BY <1>3, FS_RemoveElement
  <2> QED
    BY <1>3, <2>1
<1> QED
  BY <1>1, <1>2, <1>3, HoldingStep

-----------------------------------------------------------------------------
(* The theorems.                                                           *)

LEMMA CallSafety == Spec => [](CallInv /\ SlotInv)
BY CallInit, CallStep, SlotInit, SlotStep, PTL DEF Spec

\* The free slots are never negative and never more than the limit.
THEOREM TypeCorrect == Spec => []TypeOK
<1>1. CallInv /\ SlotInv => TypeOK
  BY LimitAssumption, FS_CardinalityType
     DEF CallInv, CallTypeOK, SlotInv, TypeOK
<1> QED
  BY <1>1, CallSafety, PTL

\* Every slot is free, or held by a live thread or a caller that is about to
\* start one, or was lost when a thread could not be started; each loss is the
\* answered end of a call without effect (_run_with_timeout, invoke).
THEOREM SlotsAreAccounted == Spec => []SlotsAccounted
<1>1. ASSUME CallInv, SlotInv PROVE SlotsAccounted
  <2>1. ASSUME NEW c \in Writing, NEW a \in Attempt, thread[c][a] = "lost"
        PROVE  effects[c] = 0
    <3>1. c \in Call /\ attempt[c] = 1 /\ a = 1
      BY <1>1, <2>1, CallAssumption DEF CallInv, CallerHolds, WritesOnce
    <3> QED
      BY <1>1, <2>1, <3>1 DEF CallInv, WritesOnce
  <2>2. ASSUME NEW c \in Call, NEW a \in Attempt, thread[c][a] = "lost"
        PROVE  outcomes[c][a] = None
    BY <1>1, <2>2 DEF CallInv, OutcomeIsFinal
  <2> QED
    BY <1>1, <2>1, <2>2 DEF CallInv, SlotInv, CallerHolds, SlotsAccounted
<1> QED
  BY <1>1, CallSafety, PTL

\* A call of a tool with side effects takes effect once at most, and not at all
\* if it was out of scope (_execute_callback, _permission_middleware).
THEOREM EffectsOnce == Spec => []SideEffectOnce
<1>1. CallInv => SideEffectOnce
  BY CallAssumption DEF CallInv, WritesOnce, DeniedIsIdle, SideEffectOnce
<1> QED
  BY <1>1, CallSafety, PTL

\* An answer that is a result or an execution error is the last attempt's, and
\* that attempt will not act any more.
THEOREM AnswersAreFinal == Spec => []AnswerOfLastAttempt
<1>1. CallInv => AnswerOfLastAttempt
  BY DEF CallInv
<1> QED
  BY <1>1, CallSafety, PTL
=============================================================================
