----------------------------- MODULE RefundApply -----------------------------
(***************************************************************************)
(* refund_apply for one order, step by step: the idempotency entry and the *)
(* lock in the cache backend (concurrency/refund_guard, storage/cache),    *)
(* the order as cache-aside reads show it (storage/database), and the      *)
(* transaction that persists the refund (tools/refund).                    *)
(*                                                                         *)
(* Callers run in processes of their own.  A process that cannot reach     *)
(* Redis when it first needs it keeps a cache in its memory, so callers    *)
(* may share a store or not; every key of this module belongs to the one   *)
(* order, and its refund has one row for ever (RefundLifecycle).           *)
(***************************************************************************)
EXTENDS Naturals, FiniteSets

CONSTANTS
  Caller,  \* calls of refund_apply
  Memory,  \* in-process stores
  Redis    \* the shared store

Store == Memory \cup {Redis}

VARIABLES
  storeOf,      \* the backend a caller's process uses (get_cache_backend)
  lock,         \* lock:refund_apply, per store: the owner's token, or none
  entry,        \* idempotency:refund_apply, per store: a status or none
  refund,       \* the refund row: its status
  paid,         \* the order row: is its payment confirmed
  pc,           \* per call: where it is
  local,        \* per call: the refund status it read or wrote
  acquired,     \* per call: RefundLock.acquired
  answer,       \* per call: the outcome it returns
  began,        \* history: the refund status when the call began
  outlived      \* history: calls whose lock expired while they held it

vars == <<storeOf, lock, entry, refund, paid, pc, local, acquired, answer, began,
          outlived>>

None == "none"

ASSUME StoreAssumption == Redis \notin Memory /\ None \notin Caller

\* open: queued or waiting for review.  processing: from the worker on, while
\* the order shows it.  over: withdrawn, rejected or failed.
Live == {"open", "processing"}
Status == Live \cup {"over"}

\* The order as a reader judges it.
Shown == {"unpaid", "refunding", "refundable"}
Order == IF ~paid THEN "unpaid" ELSE IF refund = "processing" THEN "refunding"
                                ELSE "refundable"

Step == {"idle", "locate", "lock", "wait", "fallback", "refill", "again", "check",
         "judge", "persist", "recover", "recovered", "remember", "release",
         "done", "dead"}
Kind == {"created", "replay", "busy", "refused", "raised"}

TypeOK ==
  /\ storeOf \in [Caller -> Store]
  /\ lock \in [Store -> Caller \cup {None}]
  /\ entry \in [Store -> Status \cup {None}]
  /\ refund \in Status \cup {None}
  /\ paid \in BOOLEAN
  /\ pc \in [Caller -> Step]
  /\ local \in [Caller -> Status \cup {None}]
  /\ acquired \in [Caller -> BOOLEAN]
  /\ answer \in [Caller -> Kind \cup {None}]
  /\ began \in [Caller -> Status \cup {None}]
  /\ outlived \subseteq Caller

-----------------------------------------------------------------------------
(* Parts of a step.                                                        *)

Running(c) == pc[c] \notin {"idle", "done", "dead"}
Goto(c, step) == pc' = [pc EXCEPT ![c] = step]

\* The call returns, through the release of the lock if it acquired it.
Finish(c, kind) ==
  /\ answer' = [answer EXCEPT ![c] = kind]
  /\ Goto(c, IF acquired[c] THEN "release" ELSE "done")

\* What most steps of a call leave alone.
KeepRows == UNCHANGED <<storeOf, refund, paid, began, outlived>>
KeepStores == UNCHANGED <<lock, entry>>
KeepCall == UNCHANGED <<local, acquired>>

\* get_active_refund_request_by_order_id_from_db
Active == refund \in Live

\* cache_refund_idempotency: a failing backend is logged and forgotten.
SetEntry(c) ==
  \/ entry' = [entry EXCEPT ![storeOf[c]] = local[c]]
  \/ UNCHANGED entry

-----------------------------------------------------------------------------
(* The call.                                                               *)

\* get_refund_idempotency, its read of the cache: before the lock is tried,
\* repeatedly while another call holds it, and again under it.
FindEntry(c) ==
  LET found == entry[storeOf[c]] # None
  IN  /\ \/ pc[c] = "idle" /\ Goto(c, IF found THEN "locate" ELSE "lock")
         \/ pc[c] = "again" /\ Goto(c, IF found THEN "locate" ELSE "check")
         \/ pc[c] = "wait" /\ found /\ Goto(c, "locate")
      /\ began' = IF pc[c] = "idle" THEN [began EXCEPT ![c] = refund] ELSE began
      /\ local' = [local EXCEPT ![c] = entry[storeOf[c]]]
      /\ KeepStores
      /\ UNCHANGED <<storeOf, refund, paid, outlived, acquired, answer>>

\* Mutant: the cached snapshot is the answer.
ReplayEntry(c) ==
  /\ pc[c] = "locate"
  /\ Finish(c, "replay")
  /\ KeepRows /\ KeepStores /\ KeepCall

\* get_refund_idempotency, its read of the row that the entry names: whatever
\* its status is now, it is replayed.
ReplayLocated(c) ==
  /\ pc[c] = "locate"
  /\ local' = [local EXCEPT ![c] = refund]
  /\ Finish(c, "replay")
  /\ KeepRows /\ KeepStores /\ UNCHANGED acquired

\* RefundLock.acquire: SET NX with the call's own token.
AcquireLock(c) ==
  LET free == lock[storeOf[c]] = None
  IN  /\ pc[c] = "lock"
      /\ lock' = IF free THEN [lock EXCEPT ![storeOf[c]] = c] ELSE lock
      /\ acquired' = [acquired EXCEPT ![c] = free]
      /\ Goto(c, IF free THEN "again" ELSE "wait")
      /\ KeepRows
      /\ UNCHANGED <<entry, local, answer>>

\* Mutant: the waiter polls, without a deadline, until there is an entry.
WaitForEntry(c) ==
  /\ pc[c] = "wait"
  /\ entry[storeOf[c]] # None
  /\ Goto(c, "fallback")
  /\ KeepRows /\ KeepStores /\ KeepCall /\ UNCHANGED answer

\* wait_for_refund_idempotency: REFUND_LOCK_WAIT_SECONDS are over.
WaitEnds(c) ==
  /\ pc[c] = "wait"
  /\ Goto(c, "fallback")
  /\ KeepRows /\ KeepStores /\ KeepCall /\ UNCHANGED answer

\* The reads of an active refund: without the lock, under it, and after the
\* transaction was refused.
FindActive(c) ==
  /\ pc[c] \in {"fallback", "check", "recover"}
  /\ \/ /\ Active /\ UNCHANGED answer
        /\ Goto(c, IF pc[c] = "recover" THEN "recovered" ELSE "refill")
     \/ ~Active /\ pc[c] = "fallback" /\ Finish(c, "busy")
     \/ ~Active /\ pc[c] = "check" /\ Goto(c, "judge") /\ UNCHANGED answer
     \/ ~Active /\ pc[c] = "recover" /\ Finish(c, "raised")
  /\ local' = [local EXCEPT ![c] = IF Active THEN refund ELSE None]
  /\ KeepRows /\ KeepStores /\ UNCHANGED acquired

\* A replay after a refused transaction sets the entry twice, in
\* _create_refund_request_unlocked and in refund_apply.
RefillRecovered(c) ==
  /\ pc[c] = "recovered"
  /\ SetEntry(c)
  /\ Goto(c, "refill")
  /\ KeepRows /\ KeepCall /\ UNCHANGED <<lock, answer>>

\* The replay of an active refund sets the entry first.
Refill(c) ==
  /\ pc[c] = "refill"
  /\ SetEntry(c)
  /\ Finish(c, "replay")
  /\ KeepRows /\ KeepCall /\ UNCHANGED lock

\* evaluate_refund_eligibility on the order the call was shown.
Judge(c, shown) ==
  \/ shown = "refundable" /\ Goto(c, "persist") /\ UNCHANGED answer
  \/ shown # "refundable" /\ Finish(c, "refused")

\* What get_order_from_db may show a call: the row, or, from Redis, the row as
\* some reader cached it.  A cached row has any age: the deletion that follows a
\* commit may come before a slow reader's fill, fail, or be lost with its
\* process, and the shop's own changes delete nothing.  In-process stores hold
\* no orders.
Cached(c) == IF storeOf[c] # Redis THEN {}
             ELSE {"unpaid", "refundable"}
                  \cup {shown \in {"refunding"} : refund \in {"processing", "over"}}

\* _create_refund_request_unlocked reads the order and judges it.
ReadOrder(c) ==
  /\ pc[c] = "judge"
  /\ \E shown \in {Order} \cup Cached(c) : Judge(c, shown)
  /\ KeepRows /\ KeepStores /\ KeepCall

InsertRefund(c) ==
  /\ refund' = "open"
  /\ local' = [local EXCEPT ![c] = "open"]
  /\ Goto(c, "remember")
  /\ UNCHANGED <<storeOf, paid, began, outlived, acquired, answer>>

PaymentRefused(c) ==
  ~paid /\ Finish(c, "refused") /\ KeepRows /\ KeepCall

\* Mutant: the table accepts a second row for the order.
PersistWithoutKey(c) ==
  /\ pc[c] = "persist"
  /\ PaymentRefused(c) \/ (paid /\ InsertRefund(c))
  /\ KeepStores

KeyTaken(c) ==
  refund # None /\ Goto(c, "recover") /\ KeepRows /\ KeepCall /\ UNCHANGED answer

\* Mutant: the payment is not read again.
PersistJudged(c) ==
  /\ pc[c] = "persist"
  /\ KeyTaken(c) \/ (refund = None /\ InsertRefund(c))
  /\ KeepStores

\* _persist_refund_and_event: the payment is read again under the order's
\* lock, and the UNIQUE key refuses a second row.
Persist(c) ==
  /\ pc[c] = "persist"
  /\ \/ PaymentRefused(c)
     \/ paid /\ KeyTaken(c)
     \/ paid /\ refund = None /\ InsertRefund(c)
  /\ KeepStores

\* Mutant: the ToolResult is cached in place of the refund.
RememberResult(c) ==
  /\ pc[c] = "remember"
  /\ entry' = [entry EXCEPT ![storeOf[c]] = "created"]
  /\ Finish(c, "created")
  /\ KeepRows /\ KeepCall /\ UNCHANGED lock

\* refund_apply after the commit: the entry, then the answer.
Remember(c) ==
  /\ pc[c] = "remember"
  /\ SetEntry(c)
  /\ Finish(c, "created")
  /\ KeepRows /\ KeepCall /\ UNCHANGED lock

Released(c) ==
  /\ acquired' = [acquired EXCEPT ![c] = FALSE]
  /\ outlived' = outlived \ {c}
  /\ Goto(c, "done")
  /\ UNCHANGED <<storeOf, entry, refund, paid, local, answer, began>>

\* Mutant: the key is deleted whoever owns it.
ReleaseAnyLock(c) ==
  /\ pc[c] = "release"
  /\ lock' = [lock EXCEPT ![storeOf[c]] = None]
  /\ Released(c)

\* RefundLock.release: compare_and_delete with the call's own token; if the
\* backend fails the key is left to its TTL.
ReleaseLock(c) ==
  /\ pc[c] = "release"
  /\ \/ lock[storeOf[c]] = c /\ lock' = [lock EXCEPT ![storeOf[c]] = None]
     \/ UNCHANGED lock
  /\ Released(c)

\* A read or a SET NX that fails is not caught here: the call raises, through
\* the release of its lock.  Only Redis can fail.
BackendFails(c) ==
  /\ pc[c] \in {"lock", "wait", "again"}
  /\ storeOf[c] = Redis
  /\ Finish(c, "raised")
  /\ KeepRows /\ KeepStores /\ KeepCall

CallStep(c) ==
  \/ pc[c] # "idle" /\ FindEntry(c)
  \/ ReplayLocated(c) \/ AcquireLock(c) \/ WaitEnds(c) \/ FindActive(c)
  \/ RefillRecovered(c) \/ Refill(c) \/ ReadOrder(c) \/ Persist(c) \/ Remember(c)
  \/ ReleaseLock(c) \/ BackendFails(c)

-----------------------------------------------------------------------------
(* What happens around the calls.                                          *)

\* The process of a call dies; its store dies with it, if it is its own.
ProcessDies(c) ==
  LET s == storeOf[c]
      lost == IF s = Redis THEN {c} ELSE {d \in Caller : storeOf[d] = s}
  IN  /\ Running(c)
      /\ pc' = [d \in Caller |-> IF d \in lost THEN "dead" ELSE pc[d]]
      /\ acquired' = [d \in Caller |-> d \notin lost /\ acquired[d]]
      /\ local' = [d \in Caller |-> IF d \in lost THEN None ELSE local[d]]
      /\ began' = [d \in Caller |-> IF d \in lost THEN None ELSE began[d]]
      /\ answer' = [d \in Caller |-> IF d \in lost THEN None ELSE answer[d]]
      /\ outlived' = outlived \ lost
      /\ lock' = IF s = Redis THEN lock ELSE [lock EXCEPT ![s] = None]
      /\ entry' = IF s = Redis THEN entry ELSE [entry EXCEPT ![s] = None]
      /\ UNCHANGED <<storeOf, refund, paid>>

LockExpires(s) ==
  /\ lock[s] # None
  /\ lock' = [lock EXCEPT ![s] = None]
  /\ outlived' = outlived \cup {c \in Caller : lock[s] = c /\ acquired[c]}
  /\ KeepCall
  /\ UNCHANGED <<storeOf, entry, refund, paid, pc, answer, began>>

\* The entry goes away: its TTL is over, or a transaction that changed the
\* refund deletes it, some time after its commit.  Since the deletion may come
\* late, fail or be lost with its process, nothing says when.
EntryForgotten(s) ==
  /\ entry[s] # None
  /\ entry' = [entry EXCEPT ![s] = None]
  /\ KeepRows /\ KeepCall /\ UNCHANGED <<lock, pc, answer>>

\* What the approval of a review without a refund, the worker, a rejection
\* and a withdrawal make of the refund; the order changes with it (Order).
Moves == {<<None, "open">>, <<"open", "processing">>, <<"open", "over">>,
          <<"processing", "over">>}
RefundMoves ==
  \E status \in Status :
    /\ <<refund, status>> \in Moves
    /\ refund' = status
    /\ KeepStores /\ KeepCall
    /\ UNCHANGED <<storeOf, paid, began, outlived, pc, answer>>

\* The shop confirms or reverses the payment; it knows nothing of the cache.
PaymentChanges ==
  /\ paid' = ~paid
  /\ KeepStores /\ KeepCall
  /\ UNCHANGED <<storeOf, refund, began, outlived, pc, answer>>

-----------------------------------------------------------------------------
(* The specification.                                                      *)

Init ==
  /\ storeOf \in [Caller -> Store]
  /\ lock = [s \in Store |-> None]
  /\ entry = [s \in Store |-> None]
  /\ refund = None
  /\ paid \in BOOLEAN
  /\ pc = [c \in Caller |-> "idle"]
  /\ local = [c \in Caller |-> None]
  /\ acquired = [c \in Caller |-> FALSE]
  /\ answer = [c \in Caller |-> None]
  /\ began = [c \in Caller |-> None]
  /\ outlived = {}

Next ==
  \/ \E c \in Caller : FindEntry(c) \/ CallStep(c) \/ ProcessDies(c)
  \/ \E s \in Store : LockExpires(s) \/ EntryForgotten(s)
  \/ RefundMoves \/ PaymentChanges

Spec == Init /\ [][Next]_vars

\* A call that began runs until it is answered or its process dies: its waits
\* have a deadline and the backend bounds its I/O.
FairSpec == Spec /\ \A c \in Caller : WF_vars(CallStep(c))

-----------------------------------------------------------------------------
(* Properties.                                                             *)

\* Only one call is ever told that it created the refund, with the lock
\* expired, lost with its process, or held in different stores by processes
\* that fell back to their own memory (the UNIQUE key, and the replay that
\* _create_refund_request_unlocked makes of its violation).
OneCreator == \A c, d \in Caller :
  answer[c] = "created" /\ answer[d] = "created" => c = d

\* A replay never tells a status that the refund had left before the call
\* began, however old the entry that led to it (get_refund_idempotency reads
\* the row again).  A refund moves one way.
Rank == [none |-> 0, open |-> 1, processing |-> 2, over |-> 3]
ReplayIsCurrent == \A c \in Caller :
  answer[c] = "replay" => Rank[local[c]] >= Rank[began[c]]

\* A call inside the lock whose TTL is not over still owns the key: no expired
\* owner and no failed call deletes its successor's key, so two calls of one
\* store are inside only when one of them has outlived its TTL
\* (RefundLock.release and compare_and_delete).
OwnerKeepsKey == \A c \in Caller :
  acquired[c] /\ c \notin outlived => lock[storeOf[c]] = c

\* A call never creates a refund while the order's payment is not confirmed,
\* although it judged a cached order that the shop may have changed since
\* (_persist_refund_and_event).
CreatedOnConfirmedPayment ==
  [][\A c \in Caller : pc[c] = "persist" /\ pc'[c] = "remember" => paid]_vars

\* Every call ends, even when the owner of the lock died with the key set and
\* left no entry behind (wait_for_refund_idempotency).
EveryCallEnds == \A c \in Caller : Running(c) ~> pc[c] \in {"done", "dead"}
=============================================================================
