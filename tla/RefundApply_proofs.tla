-------------------------- MODULE RefundApply_proofs --------------------------
(***************************************************************************)
(* One application of RefundApply creates, and the others know, for any    *)
(* number of calls and of processes with a store of their own.             *)
(***************************************************************************)
EXTENDS RefundApply, TLAPS

\* A call that has an answer does nothing more than release its lock.
AnsweredIsLast == \A c \in Caller : answer[c] # None => pc[c] \in {"release", "done"}

\* A call that has inserted the refund, and may not yet have said so.
Creator(c) == pc[c] = "remember" \/ answer[c] = "created"

CreatorIsAlone ==
  /\ \A c \in Caller : Creator(c) => refund # None
  /\ \A c, d \in Caller : Creator(c) /\ Creator(d) => c = d

\* The refund is where a call found it when it began, or further.
BeganEarlier == \A c \in Caller : Rank[began[c]] <= Rank[refund]

\* What a call is about to replay it has read since it began.
ReadSinceBegun == \A c \in Caller :
  pc[c] \in {"recovered", "refill"} => Rank[local[c]] >= Rank[began[c]]

ReplayInv == AnsweredIsLast /\ BeganEarlier /\ ReadSinceBegun /\ ReplayIsCurrent

-----------------------------------------------------------------------------
(* Type correctness.                                                       *)

LEMMA TypeInit == Init => TypeOK
BY StoreAssumption DEF Init, TypeOK, Store, Status, Live, Kind, Step

LEMMA TypeStep == TypeOK /\ [Next]_vars => TypeOK'
<1> SUFFICES ASSUME TypeOK, [Next]_vars PROVE TypeOK'
  OBVIOUS
<1> USE StoreAssumption
        DEF TypeOK, Status, Live, Kind, Step, Active, Finish, Goto, KeepRows,
            KeepStores, KeepCall
<1>1. ASSUME NEW c \in Caller, FindEntry(c) PROVE TypeOK'
  BY <1>1 DEF FindEntry
<1>2. ASSUME NEW c \in Caller, ReplayLocated(c) PROVE TypeOK'
  BY <1>2 DEF ReplayLocated
<1>3. ASSUME NEW c \in Caller, AcquireLock(c) PROVE TypeOK'
  BY <1>3 DEF AcquireLock
<1>4. ASSUME NEW c \in Caller, WaitEnds(c) PROVE TypeOK'
  BY <1>4 DEF WaitEnds
<1>5. ASSUME NEW c \in Caller, FindActive(c) PROVE TypeOK'
  BY <1>5 DEF FindActive
<1>6. ASSUME NEW c \in Caller, RefillRecovered(c) PROVE TypeOK'
  BY <1>6 DEF RefillRecovered, SetEntry
<1>7. ASSUME NEW c \in Caller, Refill(c) PROVE TypeOK'
  BY <1>7 DEF Refill, SetEntry
<1>8. ASSUME NEW c \in Caller, ReadOrder(c) PROVE TypeOK'
  BY <1>8 DEF ReadOrder, Judge, Cached
<1>9. ASSUME NEW c \in Caller, Persist(c) PROVE TypeOK'
  BY <1>9 DEF Persist, PaymentRefused, KeyTaken, InsertRefund
<1>10. ASSUME NEW c \in Caller, Remember(c) PROVE TypeOK'
  BY <1>10 DEF Remember, SetEntry
<1>11. ASSUME NEW c \in Caller, ReleaseLock(c) PROVE TypeOK'
  BY <1>11 DEF ReleaseLock, Released
<1>12. ASSUME NEW c \in Caller, BackendFails(c) PROVE TypeOK'
  BY <1>12 DEF BackendFails
<1>13. ASSUME NEW c \in Caller, ProcessDies(c) PROVE TypeOK'
  BY <1>13 DEF ProcessDies
<1>14. ASSUME NEW s \in Store, LockExpires(s) PROVE TypeOK'
  BY <1>14 DEF LockExpires
<1>15. ASSUME NEW s \in Store, EntryForgotten(s) PROVE TypeOK'
  BY <1>15 DEF EntryForgotten
<1>16. CASE RefundMoves
  BY <1>16 DEF RefundMoves, Moves
<1>17. CASE PaymentChanges
  BY <1>17 DEF PaymentChanges
<1>18. CASE UNCHANGED vars
  BY <1>18 DEF vars
<1> QED
  BY <1>1, <1>2, <1>3, <1>4, <1>5, <1>6, <1>7, <1>8, <1>9, <1>10, <1>11, <1>12, <1>13,
     <1>14, <1>15, <1>16, <1>17, <1>18 DEF Next, CallStep

\* Stores hold owners and statuses, calls are at their steps.
THEOREM TypeCorrect == Spec => []TypeOK
BY TypeInit, TypeStep, PTL DEF Spec

-----------------------------------------------------------------------------
(* Who has created the refund.                                             *)

LEMMA CreatorInit == Init => CreatorIsAlone
BY DEF Init, CreatorIsAlone, Creator, None

LEMMA CreatorStep == TypeOK /\ CreatorIsAlone /\ [Next]_vars => CreatorIsAlone'
<1> SUFFICES ASSUME TypeOK, CreatorIsAlone, [Next]_vars PROVE CreatorIsAlone'
  OBVIOUS
<1> USE StoreAssumption
        DEF TypeOK, CreatorIsAlone, Creator, None, Status, Live, Active, Finish, Goto,
            KeepRows, KeepStores, KeepCall
<1>1. ASSUME NEW c \in Caller, FindEntry(c) PROVE CreatorIsAlone'
  BY <1>1 DEF FindEntry
<1>2. ASSUME NEW c \in Caller, ReplayLocated(c) PROVE CreatorIsAlone'
  BY <1>2 DEF ReplayLocated
<1>3. ASSUME NEW c \in Caller, AcquireLock(c) PROVE CreatorIsAlone'
  BY <1>3 DEF AcquireLock
<1>4. ASSUME NEW c \in Caller, WaitEnds(c) PROVE CreatorIsAlone'
  BY <1>4 DEF WaitEnds
<1>5. ASSUME NEW c \in Caller, FindActive(c) PROVE CreatorIsAlone'
  BY <1>5 DEF FindActive
<1>6. ASSUME NEW c \in Caller, RefillRecovered(c) PROVE CreatorIsAlone'
  BY <1>6 DEF RefillRecovered, SetEntry
<1>7. ASSUME NEW c \in Caller, Refill(c) PROVE CreatorIsAlone'
  BY <1>7 DEF Refill, SetEntry
<1>8. ASSUME NEW c \in Caller, ReadOrder(c) PROVE CreatorIsAlone'
  BY <1>8 DEF ReadOrder, Judge, Cached
<1>9. ASSUME NEW c \in Caller, Persist(c) PROVE CreatorIsAlone'
  BY <1>9 DEF Persist, PaymentRefused, KeyTaken, InsertRefund
<1>10. ASSUME NEW c \in Caller, Remember(c) PROVE CreatorIsAlone'
  BY <1>10 DEF Remember, SetEntry
<1>11. ASSUME NEW c \in Caller, ReleaseLock(c) PROVE CreatorIsAlone'
  BY <1>11 DEF ReleaseLock, Released
<1>12. ASSUME NEW c \in Caller, BackendFails(c) PROVE CreatorIsAlone'
  BY <1>12 DEF BackendFails
<1>13. ASSUME NEW c \in Caller, ProcessDies(c) PROVE CreatorIsAlone'
  BY <1>13 DEF ProcessDies
<1>14. ASSUME NEW s \in Store, LockExpires(s) PROVE CreatorIsAlone'
  BY <1>14 DEF LockExpires
<1>15. ASSUME NEW s \in Store, EntryForgotten(s) PROVE CreatorIsAlone'
  BY <1>15 DEF EntryForgotten
<1>16. CASE RefundMoves
  BY <1>16 DEF RefundMoves, Moves
<1>17. CASE PaymentChanges
  BY <1>17 DEF PaymentChanges
<1>18. CASE UNCHANGED vars
  BY <1>18 DEF vars
<1> QED
  BY <1>1, <1>2, <1>3, <1>4, <1>5, <1>6, <1>7, <1>8, <1>9, <1>10, <1>11, <1>12, <1>13,
     <1>14, <1>15, <1>16, <1>17, <1>18 DEF Next, CallStep

\* Whatever happens to locks, entries and processes, one call at most is told
\* that it created the refund: the row is there from its transaction on, and no
\* transaction inserts a second one.
THEOREM CreatedOnce == Spec => []OneCreator
<1>1. CreatorIsAlone => OneCreator
  BY DEF CreatorIsAlone, Creator, OneCreator
<1> QED
  BY <1>1, CreatorInit, CreatorStep, TypeCorrect, PTL DEF Spec

\* A refund is inserted only while the payment is confirmed: the transaction
\* reads it again, whatever the call was shown before.
THEOREM CreatedWhilePaid == Spec => CreatedOnConfirmedPayment
<1>1. TypeOK /\ [Next]_vars =>
        [\A c \in Caller : pc[c] = "persist" /\ pc'[c] = "remember" => paid]_vars
  <2> SUFFICES ASSUME TypeOK, [Next]_vars, NEW c \in Caller,
                      pc[c] = "persist", pc'[c] = "remember"
               PROVE  paid
    OBVIOUS
  <2> USE DEF TypeOK
  <2>1. ASSUME NEW d \in Caller, FindEntry(d) \/ CallStep(d) PROVE paid
    BY <2>1 DEF CallStep, FindEntry, ReplayLocated, AcquireLock, WaitEnds, FindActive,
                RefillRecovered, Refill, ReadOrder, Judge, Persist, PaymentRefused, KeyTaken,
                InsertRefund, Remember, ReleaseLock, Released, BackendFails, Finish, Goto,
                KeepRows
  <2>2. ASSUME NEW d \in Caller, ProcessDies(d) PROVE FALSE
    BY <2>2 DEF ProcessDies
  <2> QED
    BY <2>1, <2>2 DEF Next, vars, LockExpires, EntryForgotten, RefundMoves, PaymentChanges
<1> QED
  BY <1>1, TypeCorrect, PTL DEF Spec, CreatedOnConfirmedPayment

-----------------------------------------------------------------------------
(* Who owns the lock.                                                      *)

LEMMA OwnerInit == Init => OwnerKeepsKey
BY DEF Init, OwnerKeepsKey

LEMMA OwnerStep == TypeOK /\ OwnerKeepsKey /\ [Next]_vars => OwnerKeepsKey'
<1> SUFFICES ASSUME TypeOK, OwnerKeepsKey, [Next]_vars PROVE OwnerKeepsKey'
  OBVIOUS
<1> USE StoreAssumption
        DEF TypeOK, OwnerKeepsKey, Active, Finish, Goto, KeepRows, KeepStores, KeepCall
<1>1. ASSUME NEW c \in Caller, FindEntry(c) PROVE OwnerKeepsKey'
  BY <1>1 DEF FindEntry
<1>2. ASSUME NEW c \in Caller, ReplayLocated(c) PROVE OwnerKeepsKey'
  BY <1>2 DEF ReplayLocated
<1>3. ASSUME NEW c \in Caller, AcquireLock(c) PROVE OwnerKeepsKey'
  BY <1>3 DEF AcquireLock
<1>4. ASSUME NEW c \in Caller, WaitEnds(c) PROVE OwnerKeepsKey'
  BY <1>4 DEF WaitEnds
<1>5. ASSUME NEW c \in Caller, FindActive(c) PROVE OwnerKeepsKey'
  BY <1>5 DEF FindActive
<1>6. ASSUME NEW c \in Caller, RefillRecovered(c) PROVE OwnerKeepsKey'
  BY <1>6 DEF RefillRecovered, SetEntry
<1>7. ASSUME NEW c \in Caller, Refill(c) PROVE OwnerKeepsKey'
  BY <1>7 DEF Refill, SetEntry
<1>8. ASSUME NEW c \in Caller, ReadOrder(c) PROVE OwnerKeepsKey'
  BY <1>8 DEF ReadOrder, Judge, Cached
<1>9. ASSUME NEW c \in Caller, Persist(c) PROVE OwnerKeepsKey'
  BY <1>9 DEF Persist, PaymentRefused, KeyTaken, InsertRefund
<1>10. ASSUME NEW c \in Caller, Remember(c) PROVE OwnerKeepsKey'
  BY <1>10 DEF Remember, SetEntry
<1>11. ASSUME NEW c \in Caller, ReleaseLock(c) PROVE OwnerKeepsKey'
  BY <1>11 DEF ReleaseLock, Released
<1>12. ASSUME NEW c \in Caller, BackendFails(c) PROVE OwnerKeepsKey'
  BY <1>12 DEF BackendFails
<1>13. ASSUME NEW c \in Caller, ProcessDies(c) PROVE OwnerKeepsKey'
  BY <1>13 DEF ProcessDies
<1>14. ASSUME NEW s \in Store, LockExpires(s) PROVE OwnerKeepsKey'
  BY <1>14 DEF LockExpires
<1>15. ASSUME NEW s \in Store, EntryForgotten(s) PROVE OwnerKeepsKey'
  BY <1>15 DEF EntryForgotten
<1>16. CASE RefundMoves
  BY <1>16 DEF RefundMoves, Moves
<1>17. CASE PaymentChanges
  BY <1>17 DEF PaymentChanges
<1>18. CASE UNCHANGED vars
  BY <1>18 DEF vars
<1> QED
  BY <1>1, <1>2, <1>3, <1>4, <1>5, <1>6, <1>7, <1>8, <1>9, <1>10, <1>11, <1>12, <1>13,
     <1>14, <1>15, <1>16, <1>17, <1>18 DEF Next, CallStep

\* Inside the lock, and within its TTL, a call owns the key of its store.
THEOREM OwnerIsKept == Spec => []OwnerKeepsKey
BY OwnerInit, OwnerStep, TypeCorrect, PTL DEF Spec

\* Two calls of one store are never inside together, unless the lock of one
\* has expired under it (RefundLock.acquire, compare_and_delete).
OneInside == \A c, d \in Caller :
  /\ storeOf[c] = storeOf[d]
  /\ acquired[c] /\ c \notin outlived
  /\ acquired[d] /\ d \notin outlived
  => c = d

THEOREM MutualExclusion == Spec => []OneInside
<1>1. OwnerKeepsKey => OneInside
  BY DEF OwnerKeepsKey, OneInside
<1> QED
  BY <1>1, OwnerIsKept, PTL

-----------------------------------------------------------------------------
(* What a call is told of a refund it did not create.                      *)

LEMMA ReplayInit == Init => ReplayInv
BY DEF Init, ReplayInv, AnsweredIsLast, BeganEarlier, ReadSinceBegun, ReplayIsCurrent,
   Rank, None

LEMMA ReplayStep == TypeOK /\ ReplayInv /\ [Next]_vars => ReplayInv'
<1> SUFFICES ASSUME TypeOK, ReplayInv, [Next]_vars PROVE ReplayInv'
  OBVIOUS
<1> USE StoreAssumption
        DEF TypeOK, ReplayInv, AnsweredIsLast, BeganEarlier, ReadSinceBegun,
            ReplayIsCurrent, Rank, None, Status, Live, Active, Finish, Goto, KeepRows,
            KeepStores, KeepCall
<1>1. ASSUME NEW c \in Caller, FindEntry(c) PROVE ReplayInv'
  BY <1>1 DEF FindEntry
<1>2. ASSUME NEW c \in Caller, ReplayLocated(c) PROVE ReplayInv'
  BY <1>2 DEF ReplayLocated
<1>3. ASSUME NEW c \in Caller, AcquireLock(c) PROVE ReplayInv'
  BY <1>3 DEF AcquireLock
<1>4. ASSUME NEW c \in Caller, WaitEnds(c) PROVE ReplayInv'
  BY <1>4 DEF WaitEnds
<1>5. ASSUME NEW c \in Caller, FindActive(c) PROVE ReplayInv'
  BY <1>5 DEF FindActive
<1>6. ASSUME NEW c \in Caller, RefillRecovered(c) PROVE ReplayInv'
  BY <1>6 DEF RefillRecovered, SetEntry
<1>7. ASSUME NEW c \in Caller, Refill(c) PROVE ReplayInv'
  BY <1>7 DEF Refill, SetEntry
<1>8. ASSUME NEW c \in Caller, ReadOrder(c) PROVE ReplayInv'
  BY <1>8 DEF ReadOrder, Judge, Cached
<1>9. ASSUME NEW c \in Caller, Persist(c) PROVE ReplayInv'
  BY <1>9 DEF Persist, PaymentRefused, KeyTaken, InsertRefund
<1>10. ASSUME NEW c \in Caller, Remember(c) PROVE ReplayInv'
  BY <1>10 DEF Remember, SetEntry
<1>11. ASSUME NEW c \in Caller, ReleaseLock(c) PROVE ReplayInv'
  BY <1>11 DEF ReleaseLock, Released
<1>12. ASSUME NEW c \in Caller, BackendFails(c) PROVE ReplayInv'
  BY <1>12 DEF BackendFails
<1>13. ASSUME NEW c \in Caller, ProcessDies(c) PROVE ReplayInv'
  BY <1>13 DEF ProcessDies
<1>14. ASSUME NEW s \in Store, LockExpires(s) PROVE ReplayInv'
  BY <1>14 DEF LockExpires
<1>15. ASSUME NEW s \in Store, EntryForgotten(s) PROVE ReplayInv'
  BY <1>15 DEF EntryForgotten
<1>16. CASE RefundMoves
  BY <1>16 DEF RefundMoves, Moves
<1>17. CASE PaymentChanges
  BY <1>17 DEF PaymentChanges
<1>18. CASE UNCHANGED vars
  BY <1>18 DEF vars
<1> QED
  BY <1>1, <1>2, <1>3, <1>4, <1>5, <1>6, <1>7, <1>8, <1>9, <1>10, <1>11, <1>12, <1>13,
     <1>14, <1>15, <1>16, <1>17, <1>18 DEF Next, CallStep

\* A replay never tells a status that the refund had left before the call
\* began: what is replayed was read after that, from the row and never from the
\* entry, and a refund moves one way.
THEOREM ReplaysAreCurrent == Spec => []ReplayIsCurrent
<1>1. ReplayInv => ReplayIsCurrent
  BY DEF ReplayInv
<1> QED
  BY <1>1, ReplayInit, ReplayStep, TypeCorrect, PTL DEF Spec
=============================================================================
