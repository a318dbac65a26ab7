---------------------------- MODULE MessageQueue ----------------------------
(***************************************************************************)
(* The database message queue: app/mq/recovery.py, app/mq/queue.py and the *)
(* delivery checks of process_refund_message.  The mq_messages table is    *)
(* the variable mq; every transaction on it is one action, as BEGIN        *)
(* IMMEDIATE (SQLite) and FOR UPDATE (MySQL) make it.  The copies of rows  *)
(* that claim_messages returned and a worker has not finished are the      *)
(* variable inflight: they live in a process's memory, so a crash loses    *)
(* them and a lease that runs out lets a second worker hold the same       *)
(* message.  Business work done by the handler is left to the modules that *)
(* extend this one; here a handler only commits its acknowledgement.       *)
(***************************************************************************)
EXTENDS Naturals, FiniteSets

CONSTANTS
  Msg,          \* the message ids (uuid4): the pool publishers draw from
  MaxAttempts,  \* MQ_MAX_ATTEMPTS
  BatchLimit    \* the limit a worker passes to claim_messages

ASSUME QueueAssumption ==
  /\ MaxAttempts \in Nat \ {0}
  /\ BatchLimit \in Nat \ {0}

VARIABLES
  mq,        \* mq_messages: message id -> row
  inflight,  \* deliveries held by workers: claimed and not yet finished
  handled    \* history: how often a handler committed for the message

queueVars == <<mq, inflight, handled>>

Status == {"absent", "pending", "processing", "failed", "dead_letter", "done"}

\* due: updated_at is at or before the cutoff the row's status is compared
\* with, the lease cutoff of a processing row, the retry cutoff of a failed one.
Row == [status: Status, attempts: Nat, due: BOOLEAN]

Delivery == [msg: Msg, attempt: Nat]

QueueTypeOK ==
  /\ mq \in [Msg -> Row]
  /\ inflight \subseteq Delivery
  /\ handled \in [Msg -> Nat]

-----------------------------------------------------------------------------
(* Rows and their selection by claim_messages.                             *)

SetStatus(m, s) == [mq EXCEPT ![m].status = s, ![m].due = FALSE]

\* The UPDATE that opens claim_messages moves these rows to dead_letter.
Exhausted(m) ==
  /\ mq[m].attempts >= MaxAttempts
  /\ \/ mq[m].status = "failed"
     \/ mq[m].status = "processing" /\ mq[m].due

\* Mutant: a row is claimed once more after its last attempt.
ClaimableOffByOne(m) ==
  /\ mq[m].attempts <= MaxAttempts
  /\ \/ mq[m].status = "pending"
     \/ mq[m].status \in {"processing", "failed"} /\ mq[m].due

\* Mutant: rows left in processing by a crashed worker are not leased again.
ClaimableWithoutLease(m) ==
  /\ mq[m].attempts < MaxAttempts
  /\ \/ mq[m].status = "pending"
     \/ mq[m].status = "failed" /\ mq[m].due

\* The WHERE clause of the SELECT that follows.
Claimable(m) ==
  /\ mq[m].attempts < MaxAttempts
  /\ \/ mq[m].status = "pending"
     \/ mq[m].status \in {"processing", "failed"} /\ mq[m].due

\* LIMIT: a batch is as large as the limit and the candidates allow.  Which
\* of the candidates it takes (ORDER BY created_at, message_id, with second
\* resolution and random ids) is left open.
Batches ==
  LET candidates == {m \in Msg : Claimable(m)}
  IN  {b \in SUBSET candidates :
         \/ b = candidates /\ Cardinality(b) <= BatchLimit
         \/ Cardinality(b) = BatchLimit}

-----------------------------------------------------------------------------
(* The operations.                                                         *)

\* publish_message: a new row, in the caller's transaction.
PublishMessage(m) ==
  /\ mq[m].status = "absent"
  /\ mq' = [mq EXCEPT ![m] = [status |-> "pending", attempts |-> 0, due |-> FALSE]]
  /\ UNCHANGED <<inflight, handled>>

\* claim_messages: dead-letter the exhausted rows, lease a batch.
ClaimMessages ==
  /\ \E b \in Batches :
       /\ mq' = [m \in Msg |->
                   IF Exhausted(m) THEN [mq[m] EXCEPT !.status = "dead_letter"]
                   ELSE IF m \in b
                        THEN [status |-> "processing", attempts |-> mq[m].attempts + 1,
                              due |-> FALSE]
                        ELSE mq[m]]
       /\ inflight' = inflight \cup
            {[msg |-> m, attempt |-> mq[m].attempts + 1] : m \in b}
  /\ UNCHANGED handled

\* Mutant: the handler runs whatever the row says of the delivery.
AlwaysAccepted(d) == TRUE

\* The checks process_refund_message makes under the message's row lock.
Accepted(d) ==
  /\ mq[d.msg].attempts = d.attempt
  /\ mq[d.msg].status # "done"

\* process_refund_message with a handler that commits: ack_message is part of
\* the same transaction and sets "done" whatever the status was.
HandleMessage(d) ==
  /\ Accepted(d)
  /\ mq' = SetStatus(d.msg, "done")
  /\ handled' = [handled EXCEPT ![d.msg] = @ + 1]
  /\ inflight' = inflight \ {d}

\* stale_delivery and message_already_done: nothing is written.
IgnoreDelivery(d) ==
  /\ ~Accepted(d)
  /\ inflight' = inflight \ {d}
  /\ UNCHANGED <<mq, handled>>

\* Mutant: fail_message does not look at the row.
FailsAnyRow(d) == TRUE

\* The early returns of fail_message.
FailureCounts(d) ==
  /\ mq[d.msg].status \notin {"done", "dead_letter"}
  /\ mq[d.msg].attempts = d.attempt

\* The handler raised, its transaction rolled back, and process_refund_tasks
\* reports the failure with the attempt it holds.
FailMessage(d) ==
  /\ mq' = IF FailureCounts(d) THEN SetStatus(d.msg, "failed") ELSE mq
  /\ inflight' = inflight \ {d}
  /\ UNCHANGED handled

\* The worker that holds the delivery dies before it commits anything.
LoseDelivery(d) ==
  /\ inflight' = inflight \ {d}
  /\ UNCHANGED <<mq, handled>>

\* The clock passes the cutoff of a leased or failed row.
TimePasses(m) ==
  /\ mq[m].status \in {"processing", "failed"}
  /\ ~mq[m].due
  /\ mq' = [mq EXCEPT ![m].due = TRUE]
  /\ UNCHANGED <<inflight, handled>>

-----------------------------------------------------------------------------
(* The queue on its own: any number of publishers and workers.             *)

QueueInit ==
  /\ mq = [m \in Msg |-> [status |-> "absent", attempts |-> 0, due |-> FALSE]]
  /\ inflight = {}
  /\ handled = [m \in Msg |-> 0]

\* A worker finishes a delivery: it never keeps one for ever.
FinishDelivery(d) == HandleMessage(d) \/ IgnoreDelivery(d) \/ FailMessage(d)

QueueNext ==
  \/ ClaimMessages
  \/ \E m \in Msg : PublishMessage(m) \/ TimePasses(m)
  \/ \E d \in inflight : FinishDelivery(d) \/ LoseDelivery(d)

QueueSpec == QueueInit /\ [][QueueNext]_queueVars

\* run_worker polls for ever with a bounded wait, process_refund_tasks goes
\* through its whole batch, and clocks advance.
QueueFairness ==
  /\ WF_queueVars(ClaimMessages)
  /\ \A m \in Msg : WF_queueVars(TimePasses(m))
  /\ \A m \in Msg, k \in 1 .. MaxAttempts :
       LET d == [msg |-> m, attempt |-> k]
       IN  WF_queueVars(d \in inflight /\ FinishDelivery(d))

FairQueueSpec == QueueSpec /\ QueueFairness

-----------------------------------------------------------------------------
(* Properties.                                                             *)

\* A message's handler commits at most once, however often leases run out,
\* workers crash and deliveries of older attempts arrive late
\* (process_refund_message's stale_delivery and already_done checks).
HandledAtMostOnce == \A m \in Msg : handled[m] <= 1

\* A message is given up only after MQ_MAX_ATTEMPTS deliveries, and it is
\* never delivered more often than that (claim_messages).
RetryBudget ==
  /\ \A m \in Msg : mq[m].attempts <= MaxAttempts
  /\ \A m \in Msg : mq[m].status = "dead_letter" => mq[m].attempts = MaxAttempts
  /\ \A d \in inflight : d.attempt \in 1 .. mq[d.msg].attempts

\* Nothing undoes an acknowledgement: a failure reported late by a worker
\* whose lease ran out does not put the message back (fail_message).
DoneIsFinal ==
  [][\A m \in Msg : mq[m].status = "done" => mq'[m] = mq[m]]_queueVars

\* Every published message is in the end acknowledged or dead-lettered,
\* however many deliveries are lost or fail.
EveryMessageSettles ==
  \A m \in Msg : mq[m].status = "pending" ~> mq[m].status \in {"done", "dead_letter"}

\* "Exhausted crashed/failed messages remain visible for explicit repair"
\* (recovery.py): a dead letter stays a dead letter until someone repairs it.
DeadLetterRetained ==
  [][\A m \in Msg : mq[m].status = "dead_letter" => mq'[m].status = "dead_letter"]_queueVars
=============================================================================
