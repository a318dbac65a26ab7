# An after-sales agent, its refund desk and its runtime, in TLA+

A verification project for the after-sales customer-support agent in `src/`. The
service answers customers with a language model, but what it *does* - refunds, reviews,
events, payments, tickets - is ordinary code shared by conversations, operators, a
background worker and a payment channel; and what a conversation may make it do is
decided by a plan of tool calls, run by an executor, inside a run that survives crashes.
That code is what is modelled here: TLC checks it on small instances, and TLAPS proves
every safety property of the runs for every size.

- [Inventory](#1-inventory)
- [Plan](#2-plan)
- [The modules and the code](#3-the-modules-and-the-code)
- [What the runs check](#4-what-the-runs-check)
- [Bounds](#5-bounds-and-why-they-are-enough)
- [Fairness](#6-fairness)
- [What is proved](#7-what-is-proved)
- [Findings](#8-findings)
- [What is only model-checked, what is not modelled](#9-what-is-only-model-checked-what-is-not-modelled)

## 1. Inventory

The implementation is `src/app` (about 17,000 lines of Python), `src/main.py` and
`src/scripts/maintenance/refund_worker.py`. `src/tests`, `src/reports`, `src/data` and
`src/web` are evidence, not program.

| Component | State it keeps | Operations | Made correct by |
|---|---|---|---|
| message queue (`app/mq`) | `mq_messages`: status, attempts, `updated_at` as lease and retry clock | `publish_message`, `claim_messages`, `ack_message`, `fail_message` | a handler commits at most once; no message is lost; attempts are limited; an acknowledgement is final |
| refund worker (`services/refund_service.py`, `scripts/maintenance/refund_worker.py`) | rows it claimed, in memory | `process_refund_tasks`, `process_refund_message`, `repair_missing_refund_events` | no refund is processed twice or without its approval; a queued refund is not forgotten |
| refund application (`tools/refund.py`, `domain/refund_policy.py`, `concurrency/refund_guard.py`) | `refund_requests`; a Redis lock with a TTL, an idempotency cache | `refund_apply`, `_persist_refund_and_event` | one refund per order; refund and event exist together; what was judged still holds when it is written |
| manual review (`tools/human_review.py`, `services/review_service.py`, `services/review_continuation.py`) | `manual_reviews` with supplements and a version | `create_manual_review`, `resolve_review`, `continue_approved_review`, `submit_review_supplement` | one pending refund review per order; a decision and its continuation commit together; a decision is about the material the operator saw |
| withdrawal (`services/refund_cancellation.py`) | none: refund, order and reviews | `cancel_refund` | never after dispatch; the order gets back what it was, never less than shipping has made of it |
| refund payment (`services/payments.py`) | refund status and receipts; the channel's own record | `submit_refund_payment`, `reconcile_refund_payment` | the channel is asked once; a recorded outcome is the channel's |
| tickets (`services/ticket_service.py`, `tools/ticket.py`) | `tickets` with assignee, status and an audit | create, transfer, claim, resolve, reassign, list | the audit explains the row; a replayed request changes nothing; a listing is complete |
| storage (`app/storage`) | SQLite or MySQL; a cache-aside copy of orders in Redis | `transaction`, `lock_record`, repositories, invalidation after commit | one commit per service call; locks held to its end; the cache never hides a commit for good |
| tool executor (`app/tools/executor.py`) | worker slots, calls that timed out and still run | `execute_tool` | every slot is free or accounted for; only what may be repeated is retried |
| harness, orchestrator (`agent/harness.py`, `agent/orchestrator.py`, `agent/agents`) | a task plan with dependencies and step budget, the results so far | build, run, replan, validate | planner and agents agree on the next tool; order, policy and risk precede refund; what was promised is opened |
| workflow, durable runs (`agent/entry`) | run owners and checkpoints in the database | create, resume, six nodes, checkpoint | one unfinished run per conversation; the history has every turn once; what a request leaves behind repeats only where a stop explains it; a conversation reopens |
| routing, memory (`agent/routing`) | recent turns, a pending task per conversation | classify, decide, merge a follow-up | a route never asks for a refund or a ticket it has no order for; a follow-up meets the task it answers |
| replies, guardrails (`agent/response`, `agent/policies`) | none | text rules | claims are backed by tool results |
| retrieval (`app/rag`) | the active index in memory, a manifest on disk | ingest, build, validate, swap, retrieve | a reader sees one complete index |
| HTTP API, authentication (`main.py`, `core/security.py`) | none | handlers | ownership and role of each call |
| observability (`app/observability`) | traces, counters | reports | written to by all, read by none of the above |

**How they interact.** A conversation (or the API) calls a tool; a tool calls a service;
a service opens one unit of work (`storage.transactions.transaction`), locks rows with
`lock_record`, writes through the repositories and commits once. A service that wants
something to happen later publishes a message *in the same transaction*. The worker
claims messages in a transaction of its own, handles each in another one, and
acknowledges inside that one. Payment is the only service that leaves its transaction
for a network call: it commits the dispatch, talks to the channel, and records the
answer in a second transaction.

**What is hard.** Six actors write the same refund row: the conversation that applies,
the worker, the operator who decides, the customer who withdraws, the caller that pays,
and repair. Messages are delivered more than once, late, after their lease ran out, or to
a worker that dies. The refund's two events (one from the application, one from an
approval) can be handled in either order. A submit can time out although the channel
accepted it. Snapshots are taken by one actor and restored by another. Around that, a
lock and a cache may expire, fail or be private to a process; a tool that timed out goes
on in its thread; a node that was not checkpointed is executed again, by a router that may
answer otherwise; the plan of a turn is rebuilt after every result, by code that does not
read the state quite as the agents do. The 40 hazards, each at its line, are listed in
`PROJECT.json` with the properties about them. One has none: a review opened without a
refund that nobody can decide after a refund of the order was queued in another way
(`review_service.py:108`), a question of what operators do next.

## 2. Plan

In the order of importance: first what moves money, then what may lock up or lose the
work of people, then the runtime around it.

| # | Module | Models | Composes | Main properties | State |
|---|---|---|---|---|---|
| 1 | `MessageQueue` | the queue and its deliveries | - | handled once, budget, every message settles | checked, proved |
| 2 | `RefundLifecycle` | application, review, worker, withdrawal, payment, channel | extends 1, and implements it | the properties of section 4 | checked, proved |
| 3 | `RefundPromise` | what a customer is promised of a refund | implemented by 2 | money moves after dispatch only, no way back from an outcome | checked, proved |
| 4 | `RefundApply` | Redis lock with its TTL, idempotency entry, cached order, unique key | one application of 2, step by step | one creator, no stale replay, every call ends | checked, proved |
| 5 | `RowLocks` | row locks of the ten transactions of the refund desk on MySQL | the services of 2, lock by lock | no cycle of waiting transactions | checked, proved |
| 6 | `HumanDesk` | tickets and their audit, supplements and versions, a paged listing | the approval of a follow-up review of 2 | audits explain rows, decisions on seen material | checked, proved |
| 7 | `ToolRuntime` | executor slots, abandoned threads, retries | - | slots accounted for, side effects once | checked, proved |
| 8 | `Routing`, `AgentTurn` | route, task plan, the three agents, the end of a turn | tools of 2, 4, 6 as answers | planner and agents agree, refund only when cleared, promises kept | checked, proved |
| 9 | `DurableRun` | runs, checkpoints, resume, pending tasks | the writing tools of a turn of 8, the reviews of 2 | history, explained repeats, reopening | checked, proved |

Two things of the first plan changed: the cached order is part of 4, where a stale one matters,
and the life of the retrieval index (build, validate, swap) is left out: it is built once at
the start (`main.py:196`) and swapped under a lock, its readers quote from it, and what they
find changes no state. That a turn finds nothing is a failed `policy_search` in `AgentTurn`.

What is left of the plan: that `RefundApply` implements the one decision `RefundLifecycle`
makes of an application, and that the tools of `DurableRun`'s node are what `AgentTurn` leaves of a
turn - two refinements between modules that are so far related by their comments only.

## 3. The modules and the code

### MessageQueue

| Variable | Code |
|---|---|
| `mq[m]` | the row of `mq_messages`: `status`, `attempts`; `due` says that `updated_at` has passed the cutoff the status is compared with |
| `inflight` | rows that `claim_messages` returned and a worker has not finished: `{msg, attempt}` |
| `handled[m]` | a history count of the commits of `m`'s handler |

| Action | Code |
|---|---|
| `PublishMessage` | `publish_message`, in the caller's transaction |
| `ClaimMessages` | `claim_messages`: the `UPDATE` to `dead_letter` (`Exhausted`), the `SELECT ... LIMIT` (`Claimable`, `Batches`), attempts + 1 |
| `HandleMessage` | `process_refund_message` when the delivery passes its checks (`Accepted`), with `ack_message` in the same transaction |
| `IgnoreDelivery` | its `stale_delivery` and `message_already_done` returns |
| `FailMessage` | `fail_message` with its early returns (`FailureCounts`) |
| `LoseDelivery` | the worker dies with the delivery in memory |
| `TimePasses` | the clock passes the lease or the retry delay |

The order within a batch (creation time at a resolution of seconds, then random ids) is left
open, so every order of delivery is explored.

### RefundLifecycle

It `EXTENDS MessageQueue` and puts the business work into `HandleMessage`. One database
transaction is one action: `BEGIN IMMEDIATE` serialises SQLite's writers, and on MySQL the
rows an action reads before writing are locked (`RowLocks` has the locks one by one).
What is outside of a transaction has a variable:

| Variable | Code |
|---|---|
| `order[o]` | payment, order and after-sales status, `last_refund_id`, shipping status |
| `refund[o]` | the one row of `refund_requests` the UNIQUE idempotency key `refund_apply:{order_id}` allows: `status`, `needs` (`eligibility.review_required`), `approved` (`review_approved`), `reason`, `before` (`order_before_refund`) |
| `review[r]` | `manual_reviews`: status, type (from `requested_action`), order, whether `related_id` is set |
| `payload[m]` | the order and the `review_required` flag of a message |
| `applying` | applications `refund_apply` has judged and not yet persisted |
| `calls`, `wire` | callers between the two transactions of `_query_or_submit`, and requests under way |
| `gateway`, `submits` | the channel's own record (external), and a history count of the submits sent |

| Actions | Code |
|---|---|
| `JudgeApplication`, `PersistApplication`, `AbandonApplication` | `refund_apply`, `_persist_refund_and_event` |
| `RepairMissingEvent` | `repair_missing_refund_events` |
| `RefundEventNoop`, `ManualReviewRequired`, `RefundProcessing` | the outcomes of `_process_refund_message` |
| `OpenRefundReview`, `OpenOtherReview` | `create_manual_review` |
| `RejectRefund`, `RejectRequest`, `ApproveRefund`, `ApproveNewRefund` | `resolve_review` |
| `ApproveCancelPaidOrder`, `ApproveCancelUnpaidOrder`, `ApproveOther` | `continue_approved_review` |
| `CancelRefund` | `cancel_refund` |
| `SubmitRefundPayment`, `ReconcileRefundPayment`, `SendRequest`, `Observe`, `CallFails`, `CallerDies` | `_query_or_submit`, `_observe` |
| `Gateway*`, `RequestLost` | the `PaymentGateway` protocol's other side (external) |
| `ShippingAdvances`, `PaymentArrives`, `PaymentReversed` | the shop that owns payment and shipping (external) |

A refusal that raises without writing is not an action. `Init` starts from imported orders
and from the refunds without an event that an older release could leave behind (the
"legacy committed intents" repair exists for). The risk verdict is a free Boolean; only
"a parcel in transit needs a review" is kept from the eligibility rules, because the other
rules do not change what happens afterwards.

What is assumed of the channel, which is not in the repository: it acts once per refund
(the idempotency key is derived from the refund's id), does not change an outcome, and
answers with its own record or "unknown". What is assumed of the shop: it moves parcels
forward and leaves a refund's status alone.

### RefundPromise

What is left of a refund when one forgets how it is brought about: `stage[o]`, from "none" over
"under_review" and "in_progress" to "closed" or "at_channel", "paid", "refused"; and `money[o]`, its
state at the channel. It models no code of its own. `KeepsRefundPromise` in
`RefundLifecycle` maps rows and channel to it.

### RefundApply

`RefundLifecycle` has an application as a judgement and a transaction; here it is taken
step by step, for callers in processes of their own. A process that could not reach Redis when
it first needed it works on its own memory, so two callers may share lock and entry or not.

| Variable | Code |
|---|---|
| `storeOf[c]` | the backend of the caller's process (`get_cache_backend`) |
| `lock[s]`, `entry[s]` | the keys `lock:refund_apply:...` and `idempotency:refund_apply:...` of a store |
| `refund`, `paid` | the refund's status (in three classes) and the order's payment |
| `pc`, `local`, `acquired`, `answer` | of each call: where it is, the refund it read, `RefundLock.acquired`, its result |
| `began`, `outlived` | history: the refund when the call began; callers whose lock expired |

| Actions | Code |
|---|---|
| `FindEntry`, `ReplayLocated` | `get_refund_idempotency`: the entry, then the row it names |
| `AcquireLock`, `ReleaseLock`, `LockExpires` | `RefundLock` (`SET NX` with a token, compare-and-delete, TTL) |
| `WaitEnds` | `wait_for_refund_idempotency` at its deadline; before it `FindEntry` polls |
| `FindActive`, `RefillRecovered`, `Refill` | the replays of an active refund, which write the entry again |
| `ReadOrder`, `Persist`, `Remember` | `_create_refund_request_unlocked`, `_persist_refund_and_event`, `cache_refund_idempotency` |
| `BackendFails`, `ProcessDies`, `EntryForgotten` | Redis errors, crashes, the entry's TTL and its invalidation after other commits |
| `RefundMoves`, `PaymentChanges` | what worker, operators, customers and the shop do meanwhile |

### HumanDesk

| Variable | Code |
|---|---|
| `ticket[t]` | a row of `tickets`: status, `assigned_to`, resolution, audit, `created_at`; `origin` says who opened it |
| `review[r]` | a follow-up review: status and its supplements with their versions |
| `seen[o][r]` | the version `review_details` last showed an operator |
| `listing` | a reader of `list_tickets_page` who follows `next_cursor` |
| `clock` | the latest `created_at`, at a resolution of seconds |

| Actions | Code |
|---|---|
| `CreateTicket` | `create_ticket`, `transfer_to_human` |
| `ClaimTicket`, `ResolveTicket`, `ReassignTicket` | `ticket_service`; a replay writes nothing and is no action |
| `AppendReviewSupplement`, `ReviewDetails`, `ResolveReview` | `submit_review_supplement`, `review_details`, `resolve_review` with the ticket of the approval |
| `BeginListing`, `NextPage` | `list_tickets_page` with its three filters |

### ToolRuntime

| Variable | Code |
|---|---|
| `slots` | the `BoundedSemaphore` of `_run_with_timeout` |
| `pc`, `attempt`, `answer` | the caller of `execute_agent_tool` |
| `thread[c][a]`, `outcomes[c][a]` | the daemon thread of an attempt and its queue of size one |
| `effects[c]` | history: how often the tool took effect |

`BeginCall` is the permission check, `AcquireSlot`, `Start`, `TakeOutcome`, `TimeOut` and `BackoffEnds` are
the caller, `TakeEffect`, `PutOutcome` and `ReleaseSlot` the thread. A slot is taken in one step and
its thread started in the next, which may fail (`thread[c][a] = "lost"`). Permissions and schemas are
reduced to "may not be called".

### Routing and AgentTurn

`Routing` is pure: what decisions, policies and validation make of a message whose
intent, action and topic the language model has named. The model's answer is checked for its words
only, so every combination is an input. `AgentTurn` runs one turn from there.

| Variable | Code |
|---|---|
| `request`, `route` | the message as it was understood, and `RouteDecision` as results change it |
| `tasks`, `steps`, `stopped` | the orchestrator's plan, its budget and its `blocked_reason` |
| `results`, `answer` | `AgentState.tool_results`; the result of the running task |

| Actions | Code |
|---|---|
| `BeginTurn`, `SkipAgents`, `MakePlan` | `route_message`, the validation of the plan, `build` |
| `StartTask`, `StopPicking` | the loop of `AgentHarness.run`: the next ready task, or why there is none |
| `Dispatch`, `AgentRaises` | the owner's `run`, which picks its tool from the shared state, and `handle_agent_result` |
| `Observe`, `TaskFails` | what the harness makes of the result, and the rebuilt plan |
| `CheckChain`, `EndTurn` | `validate_tool_chain` |

What the tools answer is free within what the other modules say of them: between two calls of a
turn anyone may change the order, the refund and the reviews.

### RowLocks

`Plans` has, for each of the ten kinds of transaction, the rows it locks in the order it locks
them. `todo[t]` is what a transaction has still to lock, `asked[t]` the row its statement waits for,
`held[t]` what it holds until `Finish` (commit or rollback, after any of its statements, so that
early returns need no plans of their own) or `Abandon` (lock wait timeout).

### DurableRun

| Variable | Code |
|---|---|
| `conv[r]`, `saved[r]` | the row of `run_owners` and the last checkpoint |
| `exec` | the attempt in progress, under the locks of the run and of the conversation |
| `history[c]`, `pending[c]` | persisted turns, the pending task |
| `effects[q]` | what the tools wrote for a request and what others made of it: refund, reviews and how many are closed, handover tickets |
| `astray`, `dropped`, `stops` | history: see section 8; requests the user took back; crashes and departures |

`Create` and `Resume` are the endpoints; `LoadContext`, `RouteMessage`, `Orchestrate`,
`BuildModelContext`, `GenerateReply` and `PersistResult` the nodes of the graph; `Checkpoint` is what
makes a node's update the state of the run; `Stop` is a crash, an exception or a reader of
the stream that leaves. The writing tools of a turn are the steps of one node: `ApplyRefund`,
`RequestReview`, `TransferToHuman`, any of which may be its last (`EndTools`). A review follows a refund or
comes without one, as the route or the risk has it (`after_sales.py:58-65`, `171-192`).
`Approve`, `Reject`, `Withdraw` and `RefundFails` are what operators, the customer and the channel do
with refund and review between two calls, or between a crash and the resume; once the node has
its checkpoint nobody reads these fields again, and `Counted` forgets them, unless the request still
waits for a later run. `LoadContext` reads some last turns, none perhaps: at most `Window` of them, the code's
limit of messages, and fewer where age or size cut them off (`memory.py:63-92`).

### The other modules

`MCRefundLifecycle`, `MCHumanDesk` and `MCRowLocks` hold bounds, symmetry, the worker's fair
specification and the instance's tables for TLC. The theorems are in modules of their own, one
for each component: `RefundLifecycle_proofs` (the queue, how the lifecycle uses it, types,
payment), `RefundDesk_proofs`, which extends it (orders, reviews and events, the promise),
`RefundApply_proofs`, `RowLocks_proofs`, `HumanDesk_proofs`, `ToolRuntime_proofs`,
`AgentTurn_proofs` and `DurableRun_proofs`.

## 4. What the runs check

| Run | Question | Properties |
|---|---|---|
| `queue` | Do leases, retries, crashes and late deliveries lose or repeat work? | `HandledAtMostOnce`, `RetryBudget`, `DoneIsFinal`, and the liveness property `EveryMessageSettles` |
| `desk` | Do application, repair, worker, review and withdrawal keep one order's records consistent before payment? | `TypeOK`, `StatusFollowsShipping`, `ProcessedOnlyWithApproval`, `QueuedKeepsItsEvent`, `OnePendingRefundReview`, `AtMostTwoEvents`, `TerminalIsFinal`, `QueueUsedAsSpecified` |
| `payment` | Can a timeout, a crash or a late answer pay twice, pay a withdrawn refund, or falsify the books? Does the whole keep what it promises? | `SubmittedAtMostOnce`, `NoPayoutWithoutDispatch`, `BooksAgreeWithGateway`, `OrderMirrorsRefund`, and the refinement `KeepsRefundPromise` |
| `worker` | Does a queued refund move, given a worker that polls? | `QueuedRefundMoves` (liveness) |
| `apply` | Do lock, entry, cached order and unique key together let one caller create a refund, and every caller know what became of it? | `TypeOK`, `OneCreator`, `ReplayIsCurrent`, `OwnerKeepsKey`, `CreatedOnConfirmedPayment`, `EveryCallEnds` (liveness) |
| `locks` | Do transactions of the refund desk ever wait for each other in a circle? | `NoWaitCycle` |
| `operators` | Do operators who race, repeat themselves and page through lists lose anything, or decide on what they have not seen? | `AuditExplainsTicket`, `ListingIsComplete`, `MaterialRecordedOnce`, `DecidedOnSeenMaterial` |
| `tools` | Are threads, effects and answers accounted for when calls outlive their callers? | `SlotsAccounted`, `SideEffectOnce`, `AnswerOfLastAttempt`, `EveryCallAnswered` (liveness) |
| `turn` | Whatever the language model says and the tools answer: is a turn's chain of tools one it may execute, and finished when it says so? | `OwnersFollowThePlan`, `RefundOnlyWhenCleared`, `PromisesKept`, `NothingAfterDecision` |
| `durable` | Does a run that is executed in pieces leave one turn, no effect twice that no stop explains, and a conversation that goes on? | `HistoryIsTheTurns`, `RepeatsAreExplained`, `ConversationReopens` (liveness) |
| `dead_letter` | Does a dead letter stay one until someone repairs it? (It does not: section 8.) | `DeadLetterRetained` |
| `orphan_review` | Does withdrawal leave no pending review behind? (It may: section 8.) | `CancelledRefundHasNoPendingReview` |

Two properties are refinements. `QueueUsedAsSpecified`: `RefundLifecycle` implements
`QueueSpec` of `MessageQueue`, so none of its nine writers touches a message in a way the
queue does not know. `KeepsRefundPromise`: under the mapping `StageOf` it
implements `RefundPromise`, so the customer's view of a refund moves only along the promised
ways, and money moves, once, only for a refund that is at the channel. Every property of a
passing run is violated by a mutant of the code next to the definition it changes
(comments "Mutant: ...").

`QueuedRefundMoves` is conditional on purpose. An event may be dead-lettered, and repair
takes a dead letter for an existing event (its docstring says so), so a queued refund all
of whose events were given up stays queued until an operator steps in.

## 5. Bounds, and why they are enough

- **One order.** No operation reads or writes two orders' rows; orders meet only in
  the batches of the queue, which the `queue` run explores with three messages, and the theorems
  of section 7 hold for any number of orders.
- **Reviews.** Two in `desk`: a refund review next to another one, or a decided one next to
  a pending one. A third is interchangeable with one of them. One, of type refund, in
  `payment` (`PaymentBound`), where reviews only decide whether a refund gets there; reviews of
  cancelled orders, and the refunds they open, stay with `desk`.
- **Messages.** Three in `queue`, more than a batch holds. Three in `desk`, one more than
  `AtMostTwoEvents` allows, so the pool never hides a third event. Two in `payment` and
  `worker`.
- **`MaxAttempts = 2`** where retries matter: a first delivery that fails or outlives its
  lease, and a last one. With one message `RetryBudget` and dead letters are reached at
  both values.
- **`BatchLimit = 1`** leaves claimable rows behind a full batch; `2` puts both events of one
  refund into one batch.
- **`OneApplication`**: one judged application in the air. A second one only meets the row
  the first has written, and a late application meets such a row anyway.
- **`DeskBound`** stops at the dispatch of payment, where `payment` takes over:
  a dispatched refund is changed by payment alone.
- **`PaymentBound`**: two callers at a time - a submit and a query, or two queries, the
  pairs whose answers can overtake each other. `calls` is a set, so two queries in the same
  state count as one from there on: the second arrival of one and the same stale answer is not
  explored, two stale answers that differ are.
- **`apply`**: two calls, which may both use Redis, both one process's memory, or one each.
  A third would be another waiter. One order: all keys contain its number.
- **`operators`** (`MCHumanDesk`): two operators and three tickets, one of them traced, are
  what a race, a handover there and back, and a page boundary within one second need; one
  review with two submissions, so that one may be repeated after the other; audits of
  four lines (claim, over, back, resolve). `DeskBound` keeps the parts, which meet in the
  rows of tickets only, from being multiplied with each other.
- **`tools`**: a reading call (two attempts), a writing and a forbidden one on two slots, so
  that abandoned threads, or slots whose thread never started, can take them all.
- **`turn`**: every combination of intent, action, topic class, order number and text
  signals is a start; `MaxSteps = 12` is the code's budget.
- **`locks`** (`MCRowLocks`): three transactions, any of the ten kinds each, on two orders, one
  with two reviews. The theorem of section 7 has no bounds.
- **`durable`**: three turns of one conversation: a request asked for, answered in a second
  turn and followed by a third, which with `Window = 1` cannot read the first. One stop,
  anywhere: a node is executed twice, a review is decided in between and another one opened. Two
  turns with two stops were checked as well. Conversations share nothing but the code, and the
  theorems of section 7 bound neither turns, stops nor window.

`Symmetric` permutes messages and reviews, which no definition distinguishes; it is used
in the runs without liveness properties only.

## 6. Fairness

`QueueFairness` and `WorkerFairness` ask for what `run_worker` does: it polls without end,
with a delay that is bounded by `max_backoff`, and survives errors (`ClaimMessages`);
`process_refund_tasks` goes through the whole batch it claimed and every delivery it holds ends in a
commit, a refusal or a reported failure (weak fairness of finishing each delivery);
clocks advance (`TimePasses`). `LoseDelivery`, the worker's death, stays possible at any time.
Nothing is asked of customers, operators, the channel or the shop, and nothing is said of
which way a delivery ends: failing every time is fair, which is why messages settle *either*
as done or as dead letters.

`RefundApply` asks that a call goes on once it began: every wait in it has a deadline and the
backend bounds its I/O. The death of its process stays possible, and no lock, entry or TTL is
asked to expire. `ToolRuntime` asks the same of callers, and nothing of tools: a thread may hang
for ever. `DurableRun` asks that an attempt that runs goes on (`Attempt`, `Checkpoint`), until it
stops, and that an unfinished run is resumed: the conversation answers 409 until then, and
the initiator is told to resume (`docs/deployment.md`). Without that the property would not
hold and the code does not promise it: nobody else resumes a run.

`CHECK_DEADLOCK FALSE` stands where bounds end the behaviour: pools of messages, of calls, of
runs, of audit lines are finite. `turn` and `locks` are checked for deadlock.

## 7. What is proved

All proofs are checked by TLAPS. Every invariant and every action property of a passing run is
a theorem, and so are the two refinements; liveness is not (section 9). The theorems hold for any
sets of messages, orders, reviews, transactions, callers, tickets, operators, calls and
conversations, and any limits. They start from assumptions on the constants, which TLC evaluates
in every run:

| Module | Assumptions |
|---|---|
| `MessageQueue`, `RefundLifecycle` | `MaxAttempts` and `BatchLimit` are positive (`QueueAssumption`); there is an order (`RefundAssumption`) |
| `RefundApply` | a process's memory is not Redis, "none" is not a caller (`StoreAssumption`) |
| `RowLocks` | tables are disjoint, references point into their table, a table is scanned in one order |
| `HumanDesk` | ticket ids and the bound of the clock are natural numbers (`DeskAssumption`) |
| `ToolRuntime` | a call either reads or writes (`CallAssumption`); slots and attempts are positive (`LimitAssumption`) |
| `DurableRun` | the bounds and the window are natural numbers (`RunsAssumption`) |
| `AgentTurn` | the budget is positive (`BudgetAssumption`, `harness.py:29`) |

and `NoneAssumption` wherever it occurs: what is not there (Python's `None`) is not among the values.
One theorem has a hypothesis of its own: `PlanIsFollowed` is about budgets of seven tasks or more.

**Queue** (`RefundLifecycle_proofs`). `HandledOnce`, `AttemptsWithinBudget`, `DoneStaysDone`
and `QueueTypeCorrect` follow from the inductive `QueueInv`. `HandledAtMostOnce` alone is
not inductive: a second commit is ruled out because a handled message is "done", a done
message accepts no delivery, and nothing leaves "done". `RetryBudget` needs that a delivery carries an
attempt no larger than its row's.

**Refinement** (`RefundLifecycle_proofs`). `LifecycleUsesQueue`: every step of the lifecycle is a
step of the queue or leaves it alone (`NextIsQueueStep`, one case per action). The queue's
invariant then holds of the lifecycle, and `TypeCorrect` follows from it.

**Payment** (`RefundLifecycle_proofs`). `NeverSubmittedTwice`, `PayoutOnlyAfterDispatch`,
`OutcomesAreTheChannels`, from `PaymentInv`. "Asked at most once" holds because the
commit before the network call takes the refund out of `refund_processing` for good.
`PaymentInv` adds what the invariants do not say of the callers in the air: they talk about dispatched
refunds, an unsent submit is the first one, and an outcome on its way to the books is the
channel's. Everything but payment is one case, a frame (`DispatchFrame`): it leaves dispatched
refunds and the channel as they are.

**The order** (`RefundDesk_proofs`). `EveryStepIsARowStep` sums up what any step can do to the
two rows of one order: eight transitions (`RowStep`), from "created" to "paid out". `OutcomeStays`
is read off them. `OrderShowsItsRefund` and `WithdrawalKeepsShipping` need `MirrorInv`:
a withdrawal copies a snapshot back, so the order mirrors its refund only because a snapshot that may
still be put back was taken of an order without a refund, and because its shipping status is
compared first.

**Reviews and events** (`RefundDesk_proofs`). `ReviewedBeforeProcessed` is the one whose argument is
furthest from the code: the worker looks at the event and at `review_approved`, never at a review.
`ApprovalInv` says why that suffices: as long as the approval is missing, *every* event of the
refund asks for a review, including the ones repair publishes, and an approval is always some
review's. `NoStrandedRefund` is inductive as it stands; `FewEvents` counts one event before an
approval and two after it; `NoDoubleReview` follows from the pending refund reviews of an order being equal.

**The promise** (`RefundDesk_proofs`). `LifecycleKeepsPromise`, the refinement: a step
changes one order's refund or one order's record at the channel (`OneAtATime`, over all
actions). The eight transitions of `RowStep` map to steps of the promise; what they
leave open - may this refund be recorded as paid, may the channel act on it - is settled by
`PaymentInv` before and after the step.

**One application** (`RefundApply_proofs`). The lock is not what makes the creator the only one: it
expires, and processes without Redis have locks of their own. `CreatedOnce` follows from
`CreatorIsAlone` - whoever has inserted the row found no active refund, under the unique key - and
holds whatever lock, entry and cached order say. `OwnerIsKept` and `MutualExclusion` say what the lock is
good for: nobody but its owner and its TTL removes it, and of those whose lock has not expired one
at most is inside. `CreatedWhilePaid` is a step property: the payment is read again under the
row's lock. `ReplaysAreCurrent` needs that a call replays what it has *read since it began*
(`ReadSinceBegun`), and that refunds only move forward.

**Locks** (`RowLocks_proofs`). `NoDeadlock`, for any number of transactions and rows, from the
assumptions that the four tables are disjoint, that references point where they should, and
that one table's rows are scanned in one order (`Place`). The invariant `Ascending` says that a
transaction asks for rows upwards in one order - messages, reviews, refunds, orders, and in a
table by place - with what it holds below what it has still to lock; a creator of
reviews starts with the order, and locks nothing after it. Of a group that waits for itself, the
member that asks for the greatest row would have to be held up by one that asks for a greater
row still.

**People** (`HumanDesk_proofs`). `AuditIsComplete` and `MaterialIsCounted` are inductive with the
types; every transaction of an operator is a `Transaction` on one row with one more entry, and an
audit that tells a row's story goes on telling it (`StoryGoesOn`). `DecisionsAreInformed` is a step
property: a decision compares the version it was shown. `ListingsAreComplete` is the hard one. What the
reader has been shown lies before its cursor, and what it is still owed behind it (`ListingInv`); a page's
rows have a first one, in the order of the listing (`FirstOfPage`); tickets keep their place
because their time does not change; and a ticket that matches a filter at the end and matched it
at the beginning has matched it all along (`RowsMove`), so none slips past the cursor.

**Tools** (`ToolRuntime_proofs`). Semaphore and threads know nothing of each other, so
`SlotsAreAccounted` is a count: free slots and attempts that hold one make up the limit (`SlotInv`), through
every timeout. Holding begins before the thread does, and never ends when the thread could not be
started; such an attempt is its call's last and took no effect (`CallerHolds`, `CallInv`).
`EffectsOnce` and `AnswersAreFinal` rest on the life of a call (`CallInv`): attempts begin one after
the other, an outcome is put by a thread that will do nothing more, and a writing call, whatever its
error, never comes to a second attempt.

**A turn** (`AgentTurn_proofs`). The plan is made by the orchestrator, the tool is picked by the agent, and both
read the shared state in their own words. `OwnerAgrees` is the lemma everything rests on: while the
plan is carried out, the owner of the running task comes to that task's tool, and to no other. It
needs that every task is where the results put it (`PlanInv`), that what precedes the task is completed
(`CallInv`), and that the two readings of "a review blocks the refund" agree by the time a task behind the
review runs (`NoReviewPending`). From it: no tool is called twice (`NotCalledYet`), so a refund has one
application, and results come in the order of the plan. `TurnInv` says what route and results then have to do
with each other; `RefundsAreCleared` and `NothingAfterDeciding` are two of its conjuncts, `PromisesAreKept`
follows where the loop ends (`StopKeeps`). `PlanIsFollowed` counts: a started task calls a tool that was not called
before, and while something is left to do, some tool was not called (`SomeUncalled` - the one
tool that may have failed and still be pending is `refund_apply`, and then its review was not opened), so
seven steps suffice. The first task that is left is ready (`SomeReady`), so no plan is stuck, and the
chain passes its validation (`ChainHolds`). With a smaller budget the guard of the loop does stop
turns, as `test_agent_harness.py:89` has it; the default is twelve.

**Durable runs** (`DurableRun_proofs`). `HistoryKept` speaks of what a history shows and is not inductive: the
order of its turns needs that only the newest run of a conversation is unfinished, and what a run
has read ends where the history does until its own turn is there (`RunInv`). `EffectsExplained` needs to know
who may still write for a request: the one unfinished run that carries it, or, while it is pending,
a run to come; what waits has had no effect, what was decided waits no longer, and what an attempt
leaves to its checkpoint agrees with what it wrote (`RequestInv`). A run that may still open a review has
a stop for every review opened before (`ReviewsOfStops`), and others only close what is open (`Keeps`).
Requests gone astray (section 8) are excepted in the invariant as in the property.

## 8. Findings

- **A dead letter can come back as done** (`dead_letter`). `process_refund_message` asks for
  the attempt number and for "done", not for "dead_letter": the last attempt's delivery, if
  it outlives its lease, is executed after `claim_messages` gave its message up, and its
  acknowledgement overwrites the dead letter. `fail_message` does leave dead letters alone.
  `recovery.py:19` and `refund_service.py:20` say that they are retained. Nothing is executed
  twice (`HandledAtMostOnce` holds); only the record that someone was to inspect is gone.
- **A withdrawn refund can have a pending review** (`orphan_review`).
  `create_manual_review` called with the id of a refund that is withdrawn in the
  meantime inserts a pending review linked to the cancelled refund. `resolve_review` refuses
  both decisions on it, and later requests reuse it.

Seven more things are worth a reader's attention. No line of the repository says otherwise, so
they are no findings; the properties carry them as exceptions or leave them out, in so many words.

- **A late replay opens a review** (`NothingAfterDecision`). When `refund_apply` itself finds
  that the refund exists and waits for a review, the turn clears every write from its route
  (`orchestrator.py:106-124`), but the agent's own reading of the results still asks for a review
  (`after_sales.py:233-234`), and opens or finds one.
- **A request can be carried out and stay pending** (`RepeatsAreExplained`, `astray`). A route
  node that asked for a slot stores the pending task before its checkpoint; executed again
  after a crash, with an answer of the model that needs no slot, it leaves that task behind
  (`workflow.py:233-251`), and the next message may be merged into it.
- **A crash between `refund_apply` and `create_manual_review`** leaves a refund that waits for a
  review nobody has opened. `PromisesKept` is about turns that end; in a resumed run the turn
  finds its refund, decides on it and opens nothing, except in the case above.
- **A second review of one request** (`RepeatsAreExplained`). An attempt that opened a review is
  stopped before its checkpoint, the operator rejects it, the run is resumed: the node finds no
  pending review and no active refund (`human_review.py:72-89`), and opens another one. A run stopped
  after its review was opened and before its handoff finds the review on the resume instead, and as a
  replay takes the turn's further writes back the handoff is not made. Durable runs are documented
  not to make tools exactly-once (`docs/deployment.md`), so the property counts reviews against stops.
- **A slot that is never given back** (`SlotsAccounted`, `"lost"`). `_run_with_timeout` takes a slot
  (`executor.py:278`) that only `invoke` gives back (`289`); when `worker.start()` raises (`297`: the process can
  have no more threads), `invoke` never runs. The call fails and is not tried again, and the service
  has one slot less until it is restarted.
- **An old handover repeated** (`AuditExplainsTicket` allows it). `reassign_ticket` compares a request with the last line
  of the audit only (`ticket_service.py:119`): sent again after the ticket came back, it hands
  it over a second time.
- **Lost fields on MySQL.** `cancel_refund` lists reviews with a plain `SELECT` first, which fixes its
  read view under `REPEATABLE READ`, and later writes the refund's payload as a whole
  (`mysql_database.py:571-598`). `RefundLifecycle` has services read what is committed, as
  SQLite and the locked reads do.

## 9. What is only model-checked, what is not modelled

**Only model-checked.** Liveness - `EveryMessageSettles`, `QueuedRefundMoves`, `EveryCallEnds`,
`EveryCallAnswered`, `ConversationReopens` - is beyond the prover; it is checked on the instances
of section 5. `OwnersFollowThePlan` is checked with the code's budget and proved for budgets of
seven and more; nothing is said of smaller ones.

**Left out of the modelled components.** Notifications (nothing reads them), amounts and
currencies, the address an approved change writes. Argument schemas and rate limits of tools. The
language model and the patterns that understand a message: their verdict is an input. InnoDB's
index and gap locks; that a batch is scanned in one order is an assumption of `RowLocks`.
Tickets of `create_ticket` and reviews that are no refund's have no key, so a node that is executed again
writes them again; `DurableRun` leaves them out. The legacy runtime without checkpoints, the streaming of
tokens and traces.

**Not modelled**, with the reason in `PROJECT.json`: schema, migrations, seed data and the MySQL
copies of the repositories (data definition and SQL dialect); retrieval with its ingestion,
chunking, ranking and index (numeric and text processing whose result is only quoted in
replies); texts of replies and the checks of generated text; the HTTP layer; observability. The
evaluation scripts (`src/scripts/eval`, 11,000 lines) are not part of the service. A large
part of the implementation's lines is of these kinds, or is literal data such as prompts and
keyword lists; the modules cover the code that changes the state the components share.
