------------------------- MODULE RouteCounterProofs -------------------------
(***************************************************************************)
(* UniqueNumbers and BlocksDisjoint of RouteCounter, for any number of     *)
(* tasks and replicas and every block size.  Neither is inductive: a task  *)
(* may be between its loads and its compare-and-swap, or between the two   *)
(* stores of a refill.  Ownership says who owns which numbers at every one *)
(* of these points.                                                        *)
(***************************************************************************)
EXTENDS RouteCounter, TLAPS

\* The row, the atomics, the mutexes and the tasks keep their types.
THEOREM TypeCorrect == Spec => []TypeOK
<1> USE RouteCounterAssumptions
<1>1. Init => TypeOK
  BY DEF Init, TypeOK
<1>2. TypeOK /\ [Next]_vars => TypeOK'
  <2> SUFFICES ASSUME TypeOK, [Next]_vars PROVE TypeOK'
    OBVIOUS
  <2>1. CASE UNCHANGED vars
    BY <2>1 DEF TypeOK, vars
  <2>2. ASSUME NEW t \in Tasks, TaskStep(t) PROVE TypeOK'
    <3>1. CASE LoadNext(t)
      BY <3>1 DEF TypeOK, LoadNext
    <3>2. CASE LoadEnd(t)
      BY <3>2 DEF TypeOK, LoadEnd
    <3>3. CASE Draw(t)
      BY <3>3 DEF TypeOK, Draw
    <3>4. CASE Lose(t)
      BY <3>4 DEF TypeOK, Lose
    <3>5. CASE Lock(t)
      BY <3>5 DEF TypeOK, Lock
    <3>6. CASE Recheck(t)
      BY <3>6 DEF TypeOK, Recheck
    <3>7. CASE Allocate(t)
      BY <3>7 DEF TypeOK, Allocate
    <3>8. CASE QueryFails(t)
      BY <3>8 DEF TypeOK, QueryFails
    <3>9. CASE StoreNext(t)
      BY <3>9 DEF TypeOK, StoreNext
    <3>10. CASE StoreEnd(t)
      BY <3>10 DEF TypeOK, StoreEnd
    <3> QED BY <2>2, <3>1, <3>2, <3>3, <3>4, <3>5, <3>6, <3>7, <3>8, <3>9, <3>10
            DEF TaskStep
  <2>3. ASSUME NEW t \in Tasks, Cancel(t) PROVE TypeOK'
    BY <2>3 DEF TypeOK, Cancel
  <2>4. ASSUME NEW p \in Replicas, Restart(p) PROVE TypeOK'
    BY <2>4 DEF TypeOK, Restart
  <2> QED BY <2>1, <2>2, <2>3, <2>4 DEF Next
<1> QED BY <1>1, <1>2, PTL DEF Spec

(***************************************************************************)
(* Ownership: one lemma per action, in it one step per conjunct that the   *)
(* action can disturb, and one for those it leaves alone                   *)
(***************************************************************************)

\* The load of `next` only moves the task on.
LEMMA OwnLoadNext ==
  ASSUME Ownership, TypeOK', NEW t \in Tasks, LoadNext(t)
  PROVE  Ownership'
<1> USE RouteCounterAssumptions
<1>1. /\ RefillExclusive'
      /\ SwapInBlock'
      /\ OldBlockUsedUp'
      /\ PublishFresh'
      /\ PublishDisjoint'
      /\ DrawnGone'
      /\ EndsBelowRow'
      /\ NoneDrawnYet'
      /\ BlocksDisjoint'
      /\ UniqueNumbers'
  BY DEF Ownership, TypeOK, LoadNext, Refilling, Publishing,
         RefillExclusive, SwapInBlock, OldBlockUsedUp, PublishFresh, PublishDisjoint, DrawnGone, EndsBelowRow, NoneDrawnYet, BlocksDisjoint, UniqueNumbers
<1> QED BY <1>1 DEF Ownership

\* The task goes on to swap only if it saw its number below `end`.
LEMMA OwnLoadEnd ==
  ASSUME Ownership, TypeOK', NEW t \in Tasks, LoadEnd(t)
  PROVE  Ownership'
<1> USE RouteCounterAssumptions
<1>1. SwapInBlock'
  BY DEF Ownership, TypeOK, LoadEnd, Refilling, Publishing,
         SwapInBlock
<1>2. /\ RefillExclusive'
      /\ OldBlockUsedUp'
      /\ PublishFresh'
      /\ PublishDisjoint'
      /\ DrawnGone'
      /\ EndsBelowRow'
      /\ NoneDrawnYet'
      /\ BlocksDisjoint'
      /\ UniqueNumbers'
  BY DEF Ownership, TypeOK, LoadEnd, Refilling, Publishing,
         RefillExclusive, OldBlockUsedUp, PublishFresh, PublishDisjoint, DrawnGone, EndsBelowRow, NoneDrawnYet, BlocksDisjoint, UniqueNumbers
<1> QED BY <1>1, <1>2 DEF Ownership

\* The swap succeeds on the number the task saw, which is still the first of
\* the block: no one has drawn it, and no one will.
LEMMA OwnDraw ==
  ASSUME Ownership, TypeOK', NEW t \in Tasks, Draw(t)
  PROVE  Ownership'
<1> USE RouteCounterAssumptions
<1>1. SwapInBlock'
  BY DEF Ownership, TypeOK, Draw, Refilling, Publishing,
         SwapInBlock
<1>2. OldBlockUsedUp'
  BY DEF Ownership, TypeOK, Draw, Refilling, Publishing,
         OldBlockUsedUp
<1>3. PublishFresh'
  BY DEF Ownership, TypeOK, Draw, Refilling, Publishing,
         PublishFresh, SwapInBlock, OldBlockUsedUp
<1>4. PublishDisjoint'
  BY DEF Ownership, TypeOK, Draw, Refilling, Publishing,
         PublishDisjoint, SwapInBlock, OldBlockUsedUp
<1>5. DrawnGone'
  BY DEF Ownership, TypeOK, Draw, Refilling, Publishing,
         DrawnGone, NoneDrawnYet, SwapInBlock, BlocksDisjoint, EndsBelowRow, PublishDisjoint
<1>6. NoneDrawnYet'
  BY DEF Ownership, TypeOK, Draw, Refilling, Publishing,
         NoneDrawnYet
<1>7. BlocksDisjoint'
  BY DEF Ownership, TypeOK, Draw, Refilling, Publishing,
         BlocksDisjoint, SwapInBlock
<1>8. UniqueNumbers'
  <2>1. /\ loaded[t] \in Nat /\ loaded[t] # NoNumber
        /\ next[Home[t]] = loaded[t] /\ loaded[t] < end[Home[t]]
        /\ drawn' = [drawn EXCEPT ![t] = loaded[t]]
        /\ Home[t] \in Replicas
    BY DEF Ownership, TypeOK, Draw, SwapInBlock
  <2>2. ASSUME NEW u \in Tasks, drawn[u] = loaded[t] PROVE FALSE
    <3>1. drawn[u] < next[Home[t]] \/ end[Home[t]] <= drawn[u]
      BY <2>1, <2>2 DEF Ownership, DrawnGone
    <3>2. end[Home[t]] \in Nat
      BY <2>1 DEF Ownership, TypeOK
    <3> QED BY <2>1, <2>2, <3>1, <3>2
  <2> QED BY <2>1, <2>2 DEF Ownership, TypeOK, UniqueNumbers
<1>9. RefillExclusive' /\ EndsBelowRow'
  BY DEF Ownership, TypeOK, Draw, Refilling, Publishing,
         RefillExclusive, EndsBelowRow
<1> QED BY <1>1, <1>2, <1>3, <1>4, <1>5, <1>6, <1>7, <1>8, <1>9 DEF Ownership

\* A lost swap only moves the task back.
LEMMA OwnLose ==
  ASSUME Ownership, TypeOK', NEW t \in Tasks, Lose(t)
  PROVE  Ownership'
<1> USE RouteCounterAssumptions
<1>1. /\ RefillExclusive'
      /\ SwapInBlock'
      /\ OldBlockUsedUp'
      /\ PublishFresh'
      /\ PublishDisjoint'
      /\ DrawnGone'
      /\ EndsBelowRow'
      /\ NoneDrawnYet'
      /\ BlocksDisjoint'
      /\ UniqueNumbers'
  BY DEF Ownership, TypeOK, Lose, Refilling, Publishing,
         RefillExclusive, SwapInBlock, OldBlockUsedUp, PublishFresh, PublishDisjoint, DrawnGone, EndsBelowRow, NoneDrawnYet, BlocksDisjoint, UniqueNumbers
<1> QED BY <1>1 DEF Ownership

\* The mutex is free, so no one else refills.
LEMMA OwnLock ==
  ASSUME Ownership, TypeOK', NEW t \in Tasks, Lock(t)
  PROVE  Ownership'
<1> USE RouteCounterAssumptions
<1>1. RefillExclusive'
  BY DEF Ownership, TypeOK, Lock, Refilling, Publishing,
         RefillExclusive
<1>2. /\ SwapInBlock'
      /\ OldBlockUsedUp'
      /\ PublishFresh'
      /\ PublishDisjoint'
      /\ DrawnGone'
      /\ EndsBelowRow'
      /\ NoneDrawnYet'
      /\ BlocksDisjoint'
      /\ UniqueNumbers'
  BY DEF Ownership, TypeOK, Lock, Refilling, Publishing,
         SwapInBlock, OldBlockUsedUp, PublishFresh, PublishDisjoint, DrawnGone, EndsBelowRow, NoneDrawnYet, BlocksDisjoint, UniqueNumbers
<1> QED BY <1>1, <1>2 DEF Ownership

\* A task that goes on to the query saw the old block used up.
LEMMA OwnRecheck ==
  ASSUME Ownership, TypeOK', NEW t \in Tasks, Recheck(t)
  PROVE  Ownership'
<1> USE RouteCounterAssumptions
<1>1. RefillExclusive'
  BY DEF Ownership, TypeOK, Recheck, Refilling, Publishing,
         RefillExclusive
<1>2. OldBlockUsedUp'
  BY DEF Ownership, TypeOK, Recheck, Refilling, Publishing,
         OldBlockUsedUp
<1>3. /\ SwapInBlock'
      /\ PublishFresh'
      /\ PublishDisjoint'
      /\ DrawnGone'
      /\ EndsBelowRow'
      /\ NoneDrawnYet'
      /\ BlocksDisjoint'
      /\ UniqueNumbers'
  BY DEF Ownership, TypeOK, Recheck, Refilling, Publishing,
         SwapInBlock, PublishFresh, PublishDisjoint, DrawnGone, EndsBelowRow, NoneDrawnYet, BlocksDisjoint, UniqueNumbers
<1> QED BY <1>1, <1>2, <1>3 DEF Ownership

\* The row moves past the new block: it lies above everything allocated.
LEMMA OwnAllocate ==
  ASSUME Ownership, TypeOK', NEW t \in Tasks, Allocate(t)
  PROVE  Ownership'
<1> USE RouteCounterAssumptions
<1>1. PublishFresh'
  <2> SUFFICES ASSUME NEW u \in Tasks, Publishing(u)'
               PROVE  /\ end[Home[u]] <= start'[u]
                      /\ start'[u] + BlockSize <= db'
                      /\ pc'[u] # "store_end" \/ next[Home[u]] = start'[u] + 1
    BY DEF PublishFresh, Allocate
  <2>1. CASE u = t
    <3>1. Home[t] \in Replicas /\ end[Home[t]] <= db
      BY DEF Ownership, EndsBelowRow
    <3>2. start'[t] = db /\ db' = db + BlockSize /\ pc'[t] = "store_next"
      BY DEF Ownership, TypeOK, Allocate
    <3>3. db \in Nat /\ end[Home[t]] \in Nat
      BY <3>1 DEF Ownership, TypeOK
    <3> QED BY <2>1, <3>1, <3>2, <3>3
  <2>2. CASE u # t
    BY <2>2 DEF Ownership, TypeOK, Allocate, PublishFresh, Publishing
  <2> QED BY <2>1, <2>2
<1>2. PublishDisjoint'
  BY DEF Ownership, TypeOK, Allocate, Refilling, Publishing,
         PublishDisjoint, PublishFresh, EndsBelowRow
<1>3. DrawnGone'
  BY DEF Ownership, TypeOK, Allocate, Refilling, Publishing,
         DrawnGone
<1>4. EndsBelowRow'
  BY DEF Ownership, TypeOK, Allocate, Refilling, Publishing,
         EndsBelowRow
<1>5. BlocksDisjoint'
  BY DEF Ownership, TypeOK, Allocate, Refilling, Publishing,
         BlocksDisjoint
<1>6. /\ RefillExclusive'
      /\ SwapInBlock'
      /\ OldBlockUsedUp'
      /\ NoneDrawnYet'
      /\ UniqueNumbers'
  BY DEF Ownership, TypeOK, Allocate, Refilling, Publishing,
         RefillExclusive, SwapInBlock, OldBlockUsedUp, NoneDrawnYet, UniqueNumbers
<1> QED BY <1>1, <1>2, <1>3, <1>4, <1>5, <1>6 DEF Ownership

\* A block that was allocated for nothing is lost, and harms no one.
LEMMA OwnQueryFails ==
  ASSUME Ownership, TypeOK', NEW t \in Tasks, QueryFails(t)
  PROVE  Ownership'
<1> USE RouteCounterAssumptions
<1>1. RefillExclusive'
  BY DEF Ownership, TypeOK, QueryFails, Refilling, Publishing,
         RefillExclusive
<1>2. PublishFresh'
  BY DEF Ownership, TypeOK, QueryFails, Refilling, Publishing,
         PublishFresh
<1>3. DrawnGone'
  BY DEF Ownership, TypeOK, QueryFails, Refilling, Publishing,
         DrawnGone
<1>4. EndsBelowRow'
  BY DEF Ownership, TypeOK, QueryFails, Refilling, Publishing,
         EndsBelowRow
<1>5. BlocksDisjoint'
  BY DEF Ownership, TypeOK, QueryFails, Refilling, Publishing,
         BlocksDisjoint
<1>6. /\ SwapInBlock'
      /\ OldBlockUsedUp'
      /\ PublishDisjoint'
      /\ NoneDrawnYet'
      /\ UniqueNumbers'
  BY DEF Ownership, TypeOK, QueryFails, Refilling, Publishing,
         SwapInBlock, OldBlockUsedUp, PublishDisjoint, NoneDrawnYet, UniqueNumbers
<1> QED BY <1>1, <1>2, <1>3, <1>4, <1>5, <1>6 DEF Ownership

\* The first store moves `next` above the old `end`: the replica's block is
\* still empty.
LEMMA OwnStoreNext ==
  ASSUME Ownership, TypeOK', NEW t \in Tasks, StoreNext(t)
  PROVE  Ownership'
<1> USE RouteCounterAssumptions
<1>1. OldBlockUsedUp'
  BY DEF Ownership, TypeOK, StoreNext, Refilling, Publishing,
         OldBlockUsedUp, PublishFresh, RefillExclusive
<1>2. PublishFresh'
  BY DEF Ownership, TypeOK, StoreNext, Refilling, Publishing,
         PublishFresh, RefillExclusive
<1>3. PublishDisjoint'
  BY DEF Ownership, TypeOK, StoreNext, Refilling, Publishing,
         PublishDisjoint, PublishFresh
<1>4. DrawnGone'
  BY DEF Ownership, TypeOK, StoreNext, Refilling, Publishing,
         DrawnGone, PublishFresh
<1>5. BlocksDisjoint'
  BY DEF Ownership, TypeOK, StoreNext, Refilling, Publishing,
         BlocksDisjoint, PublishFresh
<1>6. /\ RefillExclusive'
      /\ SwapInBlock'
      /\ EndsBelowRow'
      /\ NoneDrawnYet'
      /\ UniqueNumbers'
  BY DEF Ownership, TypeOK, StoreNext, Refilling, Publishing,
         RefillExclusive, SwapInBlock, EndsBelowRow, NoneDrawnYet, UniqueNumbers
<1> QED BY <1>1, <1>2, <1>3, <1>4, <1>5, <1>6 DEF Ownership

\* The second store publishes the rest of the block, and the task returns its
\* first number.
LEMMA OwnStoreEnd ==
  ASSUME Ownership, TypeOK', NEW t \in Tasks, StoreEnd(t)
  PROVE  Ownership'
<1> USE RouteCounterAssumptions
<1>1. RefillExclusive'
  BY DEF Ownership, TypeOK, StoreEnd, Refilling, Publishing,
         RefillExclusive
<1>2. SwapInBlock'
  BY DEF Ownership, TypeOK, StoreEnd, Refilling, Publishing,
         SwapInBlock, PublishFresh
<1>3. OldBlockUsedUp'
  BY DEF Ownership, TypeOK, StoreEnd, Refilling, Publishing,
         OldBlockUsedUp, RefillExclusive
<1>4. PublishFresh'
  BY DEF Ownership, TypeOK, StoreEnd, Refilling, Publishing,
         PublishFresh, RefillExclusive
<1>5. PublishDisjoint'
  BY DEF Ownership, TypeOK, StoreEnd, Refilling, Publishing,
         PublishDisjoint, PublishFresh, RefillExclusive
<1>6. DrawnGone'
  BY DEF Ownership, TypeOK, StoreEnd, Refilling, Publishing,
         DrawnGone, PublishFresh, PublishDisjoint, NoneDrawnYet
<1>7. EndsBelowRow'
  BY DEF Ownership, TypeOK, StoreEnd, Refilling, Publishing,
         EndsBelowRow, PublishFresh
<1>8. NoneDrawnYet'
  BY DEF Ownership, TypeOK, StoreEnd, Refilling, Publishing,
         NoneDrawnYet
<1>9. BlocksDisjoint'
  BY DEF Ownership, TypeOK, StoreEnd, Refilling, Publishing,
         BlocksDisjoint, PublishFresh, PublishDisjoint
<1>10. UniqueNumbers'
  BY DEF Ownership, TypeOK, StoreEnd, Refilling, Publishing,
         UniqueNumbers, DrawnGone
<1> QED BY <1>1, <1>2, <1>3, <1>4, <1>5, <1>6, <1>7, <1>8, <1>9, <1>10 DEF Ownership

\* A task that gives up waiting only moves on.
LEMMA OwnCancel ==
  ASSUME Ownership, TypeOK', NEW t \in Tasks, Cancel(t)
  PROVE  Ownership'
<1> USE RouteCounterAssumptions
<1>1. /\ RefillExclusive'
      /\ SwapInBlock'
      /\ OldBlockUsedUp'
      /\ PublishFresh'
      /\ PublishDisjoint'
      /\ DrawnGone'
      /\ EndsBelowRow'
      /\ NoneDrawnYet'
      /\ BlocksDisjoint'
      /\ UniqueNumbers'
  BY DEF Ownership, TypeOK, Cancel, Refilling, Publishing,
         RefillExclusive, SwapInBlock, OldBlockUsedUp, PublishFresh, PublishDisjoint, DrawnGone, EndsBelowRow, NoneDrawnYet, BlocksDisjoint, UniqueNumbers
<1> QED BY <1>1 DEF Ownership

\* A restarted replica owns nothing, and none of its tasks is left.
LEMMA OwnRestart ==
  ASSUME Ownership, TypeOK', NEW p \in Replicas, Restart(p)
  PROVE  Ownership'
<1> USE RouteCounterAssumptions
<1>1. /\ RefillExclusive'
      /\ SwapInBlock'
      /\ OldBlockUsedUp'
      /\ PublishFresh'
      /\ PublishDisjoint'
      /\ DrawnGone'
      /\ EndsBelowRow'
      /\ NoneDrawnYet'
      /\ BlocksDisjoint'
      /\ UniqueNumbers'
  BY DEF Ownership, TypeOK, Restart, Refilling, Publishing,
         RefillExclusive, SwapInBlock, OldBlockUsedUp, PublishFresh, PublishDisjoint, DrawnGone, EndsBelowRow, NoneDrawnYet, BlocksDisjoint, UniqueNumbers
<1> QED BY <1>1 DEF Ownership

\* Ownership is inductive: it holds initially and every step keeps it.
THEOREM OwnershipHolds == Spec => []Ownership
<1>1. Init => Ownership
  BY RouteCounterAssumptions
     DEF Init, Ownership, TypeOK, Refilling, Publishing, RefillExclusive,
         SwapInBlock, OldBlockUsedUp, PublishFresh, PublishDisjoint, DrawnGone,
         EndsBelowRow, NoneDrawnYet, BlocksDisjoint, UniqueNumbers
<1>2. Ownership /\ TypeOK' /\ [Next]_vars => Ownership'
  <2> SUFFICES ASSUME Ownership, TypeOK', [Next]_vars PROVE Ownership'
    OBVIOUS
  <2>1. CASE UNCHANGED vars
    BY <2>1
       DEF vars, Ownership, TypeOK, Refilling, Publishing, RefillExclusive,
           SwapInBlock, OldBlockUsedUp, PublishFresh, PublishDisjoint,
           DrawnGone, EndsBelowRow, NoneDrawnYet, BlocksDisjoint, UniqueNumbers
  <2>2. ASSUME NEW t \in Tasks, TaskStep(t) PROVE Ownership'
    BY <2>2, OwnLoadNext, OwnLoadEnd, OwnDraw, OwnLose, OwnLock, OwnRecheck,
       OwnAllocate, OwnQueryFails, OwnStoreNext, OwnStoreEnd DEF TaskStep
  <2>3. ASSUME NEW t \in Tasks, Cancel(t) PROVE Ownership'
    BY <2>3, OwnCancel
  <2>4. ASSUME NEW p \in Replicas, Restart(p) PROVE Ownership'
    BY <2>4, OwnRestart
  <2> QED BY <2>1, <2>2, <2>3, <2>4 DEF Next
<1> QED BY <1>1, <1>2, TypeCorrect, PTL DEF Spec

\* No number is handed out twice, in one replica or in two (route/mod.rs:562-633),
\* for any number of tasks, replicas and restarts, and every block size.
THEOREM UniqueNumbersHolds == Spec => []UniqueNumbers
BY OwnershipHolds, PTL DEF Ownership

\* The blocks two replicas may still draw from never overlap, and lie below
\* the row of PostgreSQL they were allocated from (route/mod.rs:600-631).
THEOREM BlocksDisjointHolds == Spec => []BlocksDisjoint
BY OwnershipHolds, PTL DEF Ownership
=============================================================================
