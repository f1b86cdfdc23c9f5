---------------------------- MODULE RouteCounter ----------------------------
(***************************************************************************)
(* The round-robin numbers of one model route (next_persistent_counter and *)
(* CounterBlock, src/src/route/mod.rs).  Every router replica allocates    *)
(* blocks of numbers from a row of PostgreSQL and hands them out from two  *)
(* atomics, `next` and `end`; an exhausted block is refilled under a       *)
(* mutex, while other tasks keep reading the atomics.                      *)
(*                                                                         *)
(* A task draws one number.  The loads, the compare-and-swap, the query    *)
(* and the two stores of a refill are steps of their own.                  *)
(***************************************************************************)
EXTENDS Naturals, FiniteSets

CONSTANTS
  Tasks,      \* calls of next_persistent_counter
  Replicas,   \* router processes
  Home,       \* the replica each task runs in
  BlockSize,  \* counter_block_size
  NoTask,     \* the mutex is free
  NoNumber    \* the task has not drawn a number

ASSUME RouteCounterAssumptions ==
  /\ Home \in [Tasks -> Replicas]
  /\ BlockSize \in Nat \ {0}
  /\ NoTask \notin Tasks
  /\ NoNumber \notin Nat

VARIABLES
  db,      \* model_route_counters.next_value (0 while there is no row)
  next,    \* CounterBlock.next of each replica
  end,     \* CounterBlock.end of each replica
  refill,  \* CounterBlock.refill: the task that holds the mutex
  pc,      \* where each task is
  loaded,  \* the value a task loaded from `next`
  start,   \* start_value of the block a task allocated
  drawn    \* the number a task returned

vars == <<db, next, end, refill, pc, loaded, start, drawn>>

\* Loads of the fast path, in program order: `next`, then `end`.
LoadNext(t) ==
  /\ pc[t] = "load_next"
  /\ loaded' = [loaded EXCEPT ![t] = next[Home[t]]]
  /\ pc' = [pc EXCEPT ![t] = "load_end"]
  /\ UNCHANGED <<db, next, end, refill, start, drawn>>

LoadEnd(t) ==
  /\ pc[t] = "load_end"
  /\ pc' = [pc EXCEPT ![t] = IF loaded[t] < end[Home[t]] THEN "cas" ELSE "lock"]
  /\ UNCHANGED <<db, next, end, refill, loaded, start, drawn>>

\* Mutant of Draw: a store after the check instead of the swap.
DrawBlind(t) ==
  /\ pc[t] = "cas"
  /\ next' = [next EXCEPT ![Home[t]] = loaded[t] + 1]
  /\ drawn' = [drawn EXCEPT ![t] = loaded[t]]
  /\ pc' = [pc EXCEPT ![t] = "done"]
  /\ UNCHANGED <<db, end, refill, loaded, start>>

\* compare_exchange(next, next + 1): the number is drawn, or start again.
Draw(t) ==
  /\ pc[t] = "cas"
  /\ next[Home[t]] = loaded[t]
  /\ next' = [next EXCEPT ![Home[t]] = loaded[t] + 1]
  /\ drawn' = [drawn EXCEPT ![t] = loaded[t]]
  /\ pc' = [pc EXCEPT ![t] = "done"]
  /\ UNCHANGED <<db, end, refill, loaded, start>>

Lose(t) ==
  /\ pc[t] = "cas"
  /\ next[Home[t]] # loaded[t]
  /\ pc' = [pc EXCEPT ![t] = "load_next"]
  /\ UNCHANGED <<db, next, end, refill, loaded, start, drawn>>

Lock(t) ==
  /\ pc[t] = "lock"
  /\ refill[Home[t]] = NoTask
  /\ refill' = [refill EXCEPT ![Home[t]] = t]
  /\ pc' = [pc EXCEPT ![t] = "recheck"]
  /\ UNCHANGED <<db, next, end, loaded, start, drawn>>

\* Mutant of Recheck: refills whatever happened while it waited.
RecheckSkipped(t) ==
  /\ pc[t] = "recheck"
  /\ pc' = [pc EXCEPT ![t] = "query"]
  /\ UNCHANGED <<db, next, end, refill, loaded, start, drawn>>

\* Did another task refill the block while this one waited?
Recheck(t) ==
  /\ pc[t] = "recheck"
  /\ IF next[Home[t]] < end[Home[t]]
     THEN /\ pc' = [pc EXCEPT ![t] = "load_next"]
          /\ refill' = [refill EXCEPT ![Home[t]] = NoTask]
     ELSE /\ pc' = [pc EXCEPT ![t] = "query"]
          /\ UNCHANGED refill
  /\ UNCHANGED <<db, next, end, loaded, start, drawn>>

\* Mutant of Allocate: the new value of the row taken for the start.
AllocateFromEnd(t) ==
  /\ pc[t] = "query"
  /\ db' = db + BlockSize
  /\ start' = [start EXCEPT ![t] = db + BlockSize]
  /\ pc' = [pc EXCEPT ![t] = "store_next"]
  /\ UNCHANGED <<next, end, refill, loaded, drawn>>

\* INSERT ... ON CONFLICT DO UPDATE ... RETURNING: allocates a block.
Allocate(t) ==
  /\ pc[t] = "query"
  /\ db' = db + BlockSize
  /\ start' = [start EXCEPT ![t] = db]
  /\ pc' = [pc EXCEPT ![t] = "store_next"]
  /\ UNCHANGED <<next, end, refill, loaded, drawn>>

\* Mutant of QueryFails: the error path keeps the mutex.
QueryFailsLocked(t) ==
  /\ pc[t] = "query"
  /\ db' \in {db, db + BlockSize}
  /\ pc' = [pc EXCEPT ![t] = "failed"]
  /\ UNCHANGED <<next, end, refill, loaded, start, drawn>>

\* There is no pool, the query fails, with or without having been executed,
\* or the request is dropped while it waits for the answer: the mutex is
\* released and no number is drawn.
QueryFails(t) ==
  /\ pc[t] = "query"
  /\ db' \in {db, db + BlockSize}
  /\ refill' = [refill EXCEPT ![Home[t]] = NoTask]
  /\ pc' = [pc EXCEPT ![t] = "failed"]
  /\ UNCHANGED <<next, end, loaded, start, drawn>>

StoreNext(t) ==
  /\ pc[t] = "store_next"
  /\ next' = [next EXCEPT ![Home[t]] = start[t] + 1]
  /\ pc' = [pc EXCEPT ![t] = "store_end"]
  /\ UNCHANGED <<db, end, refill, loaded, start, drawn>>

\* The second store, the return of `start`, and the release of the mutex.
StoreEnd(t) ==
  /\ pc[t] = "store_end"
  /\ end' = [end EXCEPT ![Home[t]] = start[t] + BlockSize]
  /\ drawn' = [drawn EXCEPT ![t] = start[t]]
  /\ refill' = [refill EXCEPT ![Home[t]] = NoTask]
  /\ pc' = [pc EXCEPT ![t] = "done"]
  /\ UNCHANGED <<db, next, loaded, start>>

\* The request is dropped while it waits for the mutex.
Cancel(t) ==
  /\ pc[t] = "lock"
  /\ pc' = [pc EXCEPT ![t] = "failed"]
  /\ UNCHANGED <<db, next, end, refill, loaded, start, drawn>>

\* A replica stops and starts again: its tasks are gone and so is the rest
\* of its block.
Restart(p) ==
  /\ next' = [next EXCEPT ![p] = 0]
  /\ end' = [end EXCEPT ![p] = 0]
  /\ refill' = [refill EXCEPT ![p] = NoTask]
  /\ pc' = [t \in Tasks |-> IF Home[t] = p /\ pc[t] # "done"
                            THEN "failed" ELSE pc[t]]
  /\ UNCHANGED <<db, loaded, start, drawn>>

Init ==
  /\ db = 0
  /\ next = [p \in Replicas |-> 0]
  /\ end = [p \in Replicas |-> 0]
  /\ refill = [p \in Replicas |-> NoTask]
  /\ pc = [t \in Tasks |-> "load_next"]
  /\ loaded = [t \in Tasks |-> 0]
  /\ start = [t \in Tasks |-> 0]
  /\ drawn = [t \in Tasks |-> NoNumber]

TaskStep(t) ==
  \/ LoadNext(t)
  \/ LoadEnd(t)
  \/ Draw(t)
  \/ Lose(t)
  \/ Lock(t)
  \/ Recheck(t)
  \/ Allocate(t)
  \/ QueryFails(t)
  \/ StoreNext(t)
  \/ StoreEnd(t)

Next ==
  \/ \E t \in Tasks : TaskStep(t)
  \/ \E t \in Tasks : Cancel(t)
  \/ \E p \in Replicas : Restart(p)

Spec == Init /\ [][Next]_vars

\* The runtime polls every task, the pool's acquire timeout ends a query, and
\* the tokio mutex is granted to those who wait for it.
FairSpec == Spec /\ \A t \in Tasks : WF_vars(TaskStep(t))

(***************************************************************************)
(* Properties                                                              *)
(***************************************************************************)

\* Type invariant.
TypeOK ==
  /\ db \in Nat
  /\ next \in [Replicas -> Nat] /\ end \in [Replicas -> Nat]
  /\ refill \in [Replicas -> Tasks \cup {NoTask}]
  /\ pc \in [Tasks -> {"load_next", "load_end", "cas", "lock", "recheck",
                       "query", "store_next", "store_end", "done", "failed"}]
  /\ loaded \in [Tasks -> Nat] /\ start \in [Tasks -> Nat]
  /\ drawn \in [Tasks -> Nat \cup {NoNumber}]

\* No number is handed out twice, in one replica or in two, whatever stale
\* `next` or `end` a task worked from, however refills fail and replicas
\* restart (route/mod.rs:569-631).  README.md:586 relies on it: the counters
\* keep "round-robin allocation consistent across router replicas".
UniqueNumbers ==
  \A t, u \in Tasks :
    t # u /\ drawn[t] # NoNumber => drawn[t] # drawn[u]

\* What a replica may still hand out, or is about to publish, is allocated to
\* it alone: the blocks of two replicas never overlap, and lie below the row.
BlocksDisjoint ==
  /\ \A p \in Replicas : next[p] < end[p] => end[p] <= db
  /\ \A p, q \in Replicas :
       p # q /\ next[p] < end[p] /\ next[q] < end[q] =>
         end[p] <= next[q] \/ end[q] <= next[p]

\* Every call ends with a number or an error: the retry loop and the mutex do
\* not let a task wait for ever.
EveryCallEnds ==
  \A t \in Tasks : <>(pc[t] \in {"done", "failed"})

(***************************************************************************)
(* The inductive invariant behind UniqueNumbers                            *)
(***************************************************************************)

Refilling(t) == pc[t] \in {"recheck", "query", "store_next", "store_end"}
Publishing(t) == pc[t] \in {"store_next", "store_end"}

\* Only the holder of a replica's mutex refills.
RefillExclusive ==
  \A t \in Tasks : Refilling(t) => refill[Home[t]] = t

\* A task about to swap saw a number that is below the end of the block.
SwapInBlock ==
  \A t \in Tasks : pc[t] = "cas" => loaded[t] < end[Home[t]]

\* From its recheck on, the refilling task can rely on the old block being
\* used up: nobody else moves `next` back or `end` on.
OldBlockUsedUp ==
  \A t \in Tasks :
    pc[t] = "query" \/ Publishing(t) => end[Home[t]] <= next[Home[t]]

\* A block being published lies between everything the replica published
\* before and the row.
PublishFresh ==
  \A t \in Tasks : Publishing(t) =>
    /\ end[Home[t]] <= start[t]
    /\ start[t] + BlockSize <= db
    /\ pc[t] = "store_end" => next[Home[t]] = start[t] + 1

\* An interval a task is publishing belongs to no one else.
PublishDisjoint ==
  /\ \A t \in Tasks, p \in Replicas :
       Publishing(t) /\ next[p] < end[p] =>
         end[p] <= start[t] \/ start[t] + BlockSize <= next[p]
  /\ \A t, u \in Tasks :
       Publishing(t) /\ Publishing(u) /\ t # u =>
         \/ start[t] + BlockSize <= start[u]
         \/ start[u] + BlockSize <= start[t]

\* A number that was drawn lies below the row and outside every block that is
\* published or being published.
DrawnGone ==
  \A t \in Tasks : drawn[t] # NoNumber =>
    /\ pc[t] = "done"
    /\ drawn[t] < db
    /\ \A p \in Replicas : drawn[t] < next[p] \/ end[p] <= drawn[t]
    /\ \A u \in Tasks :
         Publishing(u) => drawn[t] < start[u] \/ start[u] + BlockSize <= drawn[t]

EndsBelowRow == \A p \in Replicas : end[p] <= db

NoneDrawnYet == \A t \in Tasks : pc[t] # "done" => drawn[t] = NoNumber

\* The inductive invariant: who owns which numbers.
Ownership ==
  /\ TypeOK
  /\ RefillExclusive
  /\ SwapInBlock
  /\ OldBlockUsedUp
  /\ PublishFresh
  /\ PublishDisjoint
  /\ DrawnGone
  /\ EndsBelowRow
  /\ NoneDrawnYet
  /\ BlocksDisjoint
  /\ UniqueNumbers
=============================================================================
