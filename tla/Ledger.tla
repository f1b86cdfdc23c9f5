------------------------------- MODULE Ledger -------------------------------
(***************************************************************************)
(* The usage ledger (src/src/ledger/mod.rs): the sink the request tasks    *)
(* call, its two bounded channels, and the writer task that moves usage    *)
(* events to PostgreSQL in batches, or to a local JSONL file while the     *)
(* database is away, and replays that file when it reconnects.             *)
(*                                                                         *)
(* Every await of the writer is a step, so the database may come and go,   *)
(* events may arrive and the process may die between any two of them.  A   *)
(* file is a sequence of lines, a line the sequence of what was written to *)
(* it: one event when all goes well.  append_fallback does not flush, so   *)
(* the newline of an event is written in the background (tokio::fs::File). *)
(*                                                                         *)
(* A shutdown drops the sinks, and the writer flushes its batch; main does *)
(* not wait for it, so the process may end at any step of that too.        *)
(***************************************************************************)
EXTENDS Naturals, Sequences, FiniteSets, Functions

CONSTANTS
  Events,       \* usage events, one per request id
  PrimaryCap,   \* capacity of the primary channel
  OverflowCap,  \* capacity of the overflow channel
  BatchSize,    \* LedgerWriter.batch_size
  Torn,         \* part of a line
  Crashes,      \* may the process die and start again?
  DiskFails,    \* may writing or moving the fallback file fail?
  LateNewline   \* may a newline be written after the next event's line?

ASSUME LedgerAssumptions ==
  /\ IsFiniteSet(Events)
  /\ PrimaryCap \in Nat \ {0} /\ OverflowCap \in Nat \ {0}
  /\ BatchSize \in Nat \ {0}
  /\ Torn \notin Events
  /\ {Crashes, DiskFails, LateNewline} \subseteq BOOLEAN

VARIABLES
  fresh,     \* events that have not been recorded yet
  primary,   \* the primary channel
  overflow,  \* the overflow channel
  dropped,   \* events counted by router_ledger_dropped_total
  pc,        \* where the writer is
  pool,      \* has the writer a database pool?
  batch,     \* events collected for one INSERT
  work,      \* events the writer still has to append to the file
  why,       \* what the writer serves: "recv", "tick" or "stop"
  failed,    \* has the INSERT of the batch failed?
  file,      \* the fallback file
  newlines,  \* newlines of append_fallback not yet written
  replay,    \* the file renamed to *.replay
  pos,       \* the line replay_lines_to_db is at
  db,        \* request ids in usage_ledger (unique index)
  dbUp,      \* is PostgreSQL reachable?
  closed     \* have all sinks been dropped?

source == <<fresh, closed>>
ram  == <<primary, overflow, batch, work>>
disk == <<file, newlines, replay>>
vars == <<fresh, primary, overflow, dropped, pc, pool, batch, work, why,
          failed, file, newlines, replay, pos, db, dbUp, closed>>

NoFile == [lines |-> <<>>, open |-> FALSE]

\* The events somewhere in a file, readable or not.
InFile(f) == (UNION {Range(f.lines[i]) : i \in DOMAIN f.lines}) \cap Events

\* A line serde_json can parse.
Readable(line) == Len(line) = 1 /\ line[1] # Torn

\* What follows the last newline is one line, however many wrote to it.
Written(f, x) ==
  [open |-> TRUE,
   lines |-> IF f.open
             THEN [f.lines EXCEPT ![Len(f.lines)] = Append(@, x)]
             ELSE Append(f.lines, <<x>>)]

(***************************************************************************)
(* LedgerSink::try_record                                                  *)
(***************************************************************************)

\* The primary channel, else the overflow channel, else the drop counter.
\* Both channels are closed once the writer has stopped.
Record(e) ==
  /\ e \in fresh /\ ~closed
  /\ fresh' = fresh \ {e}
  /\ \/ /\ pc # "stopped" /\ Len(primary) < PrimaryCap
        /\ primary' = Append(primary, e)
        /\ UNCHANGED <<overflow, dropped>>
     \/ /\ pc # "stopped" /\ Len(primary) >= PrimaryCap
        /\ Len(overflow) < OverflowCap
        /\ overflow' = Append(overflow, e)
        /\ UNCHANGED <<primary, dropped>>
     \/ /\ \/ pc = "stopped"
           \/ Len(primary) >= PrimaryCap /\ Len(overflow) >= OverflowCap
        /\ dropped' = dropped \cup {e}
        /\ UNCHANGED <<primary, overflow>>
  /\ UNCHANGED <<pc, pool, batch, work, why, failed, disk, pos, db, dbUp,
                 closed>>

(***************************************************************************)
(* LedgerWriter::run_with_channels                                         *)
(***************************************************************************)

\* An event of the primary channel joins the batch, or goes to the file.
RecvPrimary ==
  /\ pc = "select" /\ primary # <<>>
  /\ primary' = Tail(primary)
  /\ why' = "recv"
  /\ IF pool
     THEN /\ batch' = Append(batch, Head(primary))
          /\ pc' = IF Len(batch) + 1 >= BatchSize THEN "insert" ELSE "select"
          /\ UNCHANGED work
     ELSE /\ work' = <<Head(primary)>>
          /\ pc' = "append"
          /\ UNCHANGED batch
  /\ UNCHANGED <<source, overflow, dropped, pool, failed, disk, pos, db, dbUp>>

\* An event of the overflow channel goes to the file at once.
RecvOverflow ==
  /\ pc = "select" /\ overflow # <<>>
  /\ overflow' = Tail(overflow)
  /\ work' = <<Head(overflow)>>
  /\ why' = "recv"
  /\ pc' = "append"
  /\ UNCHANGED <<source, primary, dropped, pool, batch, failed, disk, pos, db,
                 dbUp>>

\* Mutant of Tick: the timer does not flush.
TickNoFlush ==
  /\ pc = "select" /\ batch = <<>> /\ ~pool
  /\ why' = "tick"
  /\ pc' = "connect"
  /\ UNCHANGED <<source, ram, dropped, pool, failed, disk, pos, db, dbUp>>

\* The interval: flush what there is, then reconnect if there is no pool.
\* (There is no batch without a pool: TypeOK.)
Tick ==
  /\ pc = "select"
  /\ batch # <<>> \/ ~pool
  /\ why' = "tick"
  /\ pc' = IF batch # <<>> THEN "insert" ELSE "connect"
  /\ UNCHANGED <<source, ram, dropped, pool, failed, disk, pos, db, dbUp>>

\* Where the writer goes when the flush or the append is done.
Resume(hasPool) ==
  CASE why = "stop"              -> "stopped"
    [] why = "tick" /\ ~hasPool -> "connect"
    [] OTHER                     -> "select"

\* Mutant of RecvClosed: the batch is forgotten.
RecvClosedNoFlush ==
  /\ pc = "select" /\ closed /\ primary = <<>>
  /\ pc' = "stopped"
  /\ why' = "stop"
  /\ batch' = <<>> /\ overflow' = <<>>
  /\ UNCHANGED <<source, primary, dropped, pool, work, failed, disk, pos, db, dbUp>>

\* The primary channel is closed and empty: flush_remaining and the end, which
\* takes the overflow channel with it, empty or not.
RecvClosed ==
  /\ pc = "select" /\ closed /\ primary = <<>>
  /\ pc' = IF batch # <<>> THEN "insert" ELSE "stopped"
  /\ why' = "stop"
  /\ overflow' = <<>>
  /\ UNCHANGED <<source, primary, dropped, pool, batch, work, failed, disk, pos,
                 db, dbUp>>

\* insert_batch: one INSERT of the whole batch.
InsertOk ==
  /\ pc = "insert" /\ dbUp
  /\ db' = db \cup Range(batch)
  /\ batch' = <<>>
  /\ pc' = Resume(pool)
  /\ UNCHANGED <<source, primary, overflow, dropped, pool, work, why,
                 failed, disk, pos, dbUp>>

\* The INSERT fails, or the database goes away after it committed and before
\* it answered: the whole batch is to be appended to the file.
InsertFails ==
  /\ pc = "insert"
  /\ \/ ~dbUp /\ UNCHANGED <<db, dbUp>>
     \/ dbUp /\ dbUp' = FALSE /\ db' = db \cup Range(batch)
  /\ work' = batch
  /\ failed' = TRUE
  /\ pc' = "append"
  /\ UNCHANGED <<source, primary, overflow, dropped, pool, batch, why,
                 disk, pos>>

\* append_fallback: the line of the next event.
WriteLine ==
  /\ pc = "append" /\ work # <<>>
  /\ LateNewline \/ newlines = 0
  /\ file' = Written(file, Head(work))
  /\ newlines' = newlines + 1
  /\ work' = Tail(work)
  /\ UNCHANGED <<source, primary, overflow, dropped, pc, pool, batch, why,
                 failed, replay, pos, db, dbUp>>

\* The newline, in the background.  It follows the file when that is renamed.
Newline ==
  /\ newlines > 0
  /\ newlines' = newlines - 1
  /\ IF pc = "replay"
     THEN replay' = [replay EXCEPT !.open = FALSE] /\ UNCHANGED file
     ELSE file' = [file EXCEPT !.open = FALSE] /\ UNCHANGED replay
  /\ UNCHANGED <<source, ram, dropped, pc, pool, why, failed, pos, db, dbUp>>

\* Mutant of Appended: the pool is given up, the batch is not cleared.
AppendedKeepsBatch ==
  /\ pc = "append" /\ work = <<>>
  /\ LateNewline \/ newlines = 0
  /\ pool' = (pool /\ ~failed)
  /\ failed' = FALSE
  /\ pc' = Resume(pool /\ ~failed)
  /\ UNCHANGED <<source, ram, dropped, why, disk, pos, db, dbUp>>

\* All events are in the file.  After a failed INSERT the pool is given up.
Appended ==
  /\ pc = "append" /\ work = <<>>
  /\ LateNewline \/ newlines = 0
  /\ pool' = (pool /\ ~failed)
  /\ batch' = IF failed THEN <<>> ELSE batch
  /\ failed' = FALSE
  /\ pc' = Resume(pool /\ ~failed)
  /\ UNCHANGED <<source, primary, overflow, dropped, work, why, disk, pos,
                 db, dbUp>>

\* append_fallback fails.  In flush_batch the error replaces that of the
\* INSERT and the rest of the batch is cleared; elsewhere `?` ends the writer,
\* with its batch, the channels and all they hold.
AppendFails ==
  /\ DiskFails
  /\ pc = "append" /\ work # <<>>
  /\ work' = <<>>
  /\ batch' = <<>>
  /\ failed' = FALSE
  /\ IF failed
     THEN /\ pool' = FALSE
          /\ pc' = Resume(FALSE)
          /\ UNCHANGED <<primary, overflow>>
     ELSE /\ pc' = "stopped"
          /\ primary' = <<>>
          /\ overflow' = <<>>
          /\ UNCHANGED pool
  /\ UNCHANGED <<source, dropped, why, disk, pos, db, dbUp>>

(***************************************************************************)
(* connect_pool and replay_fallback                                        *)
(***************************************************************************)

\* Connected: the file, if there is one, is renamed over *.replay.  A rename
\* that fails is logged, and the pool is taken all the same.
Connect ==
  /\ pc = "connect" /\ dbUp
  /\ \/ /\ file = NoFile \/ DiskFails
        /\ pool' = TRUE
        /\ pc' = "select"
        /\ UNCHANGED <<file, replay, pos>>
     \/ /\ file # NoFile
        /\ replay' = file
        /\ file' = NoFile
        /\ pos' = 1
        /\ pc' = "replay"
        /\ UNCHANGED pool
  /\ UNCHANGED <<source, ram, dropped, why, failed, newlines, db, dbUp>>

ConnectFails ==
  /\ pc = "connect" /\ ~dbUp
  /\ pc' = "select"
  /\ UNCHANGED <<source, ram, dropped, pool, why, failed, disk, pos, db, dbUp>>

\* One line: an event that is not in the table is inserted.
ReplayLine ==
  /\ pc = "replay" /\ pos <= Len(replay.lines)
  /\ Readable(replay.lines[pos])
  /\ dbUp
  /\ db' = db \cup Range(replay.lines[pos])
  /\ pos' = pos + 1
  /\ UNCHANGED <<source, ram, dropped, pc, pool, why, failed, disk, dbUp>>

\* All lines are in the table: the file is removed, or stays if that fails.
ReplayDone ==
  /\ pc = "replay" /\ pos > Len(replay.lines)
  /\ replay' = NoFile \/ (DiskFails /\ UNCHANGED replay)
  /\ newlines' = 0
  /\ pool' = TRUE
  /\ pos' = 1
  /\ pc' = "select"
  /\ UNCHANGED <<source, ram, dropped, why, failed, file, db, dbUp>>

\* Mutant of ReplayFails: the file that cannot be replayed is discarded.
ReplayFailsDiscards ==
  /\ pc = "replay" /\ pos <= Len(replay.lines)
  /\ ~dbUp \/ ~Readable(replay.lines[pos])
  /\ replay' = NoFile
  /\ newlines' = 0
  /\ pool' = TRUE
  /\ pos' = 1
  /\ pc' = "select"
  /\ UNCHANGED <<source, ram, dropped, why, failed, file, db, dbUp>>

\* A line cannot be parsed or the database is gone: the file gets its name
\* back, unless that fails too.  The pool is kept all the same.
ReplayFails ==
  /\ pc = "replay" /\ pos <= Len(replay.lines)
  /\ ~dbUp \/ ~Readable(replay.lines[pos])
  /\ \/ /\ file' = replay
        /\ replay' = NoFile
        /\ UNCHANGED newlines
     \/ /\ DiskFails
        /\ newlines' = 0  \* nobody reads the file they belong to
        /\ UNCHANGED <<file, replay>>
  /\ pool' = TRUE
  /\ pos' = 1
  /\ pc' = "select"
  /\ UNCHANGED <<source, ram, dropped, why, failed, db, dbUp>>

(***************************************************************************)
(* The world                                                               *)
(***************************************************************************)

\* PostgreSQL comes or goes.
FlipDb ==
  /\ dbUp' = ~dbUp
  /\ UNCHANGED <<source, ram, dropped, pc, pool, why, failed, disk, pos, db>>

\* The server has shut down: no request is left, and the sinks are dropped.
Shutdown ==
  /\ ~closed
  /\ closed' = TRUE
  /\ UNCHANGED <<fresh, ram, dropped, pc, pool, why, failed, disk, pos, db, dbUp>>

\* The process dies, perhaps in the middle of a line, and starts again: what
\* was in memory is gone, and run() connects before it serves the channels.
Crash ==
  /\ Crashes
  /\ closed' = FALSE
  /\ primary' = <<>> /\ overflow' = <<>> /\ batch' = <<>> /\ work' = <<>>
  /\ \/ UNCHANGED file
     \/ pc = "append" /\ work # <<>> /\ file' = Written(file, Torn)
  /\ newlines' = 0 /\ pos' = 1
  /\ pc' = "select"
  /\ pool' = dbUp
  /\ why' = "recv"
  /\ failed' = FALSE
  /\ UNCHANGED <<fresh, dropped, replay, db, dbUp>>

Init ==
  /\ fresh = Events
  /\ primary = <<>> /\ overflow = <<>>
  /\ dropped = {}
  /\ pc = "select"
  /\ dbUp \in BOOLEAN
  /\ pool = dbUp
  /\ batch = <<>> /\ work = <<>>
  /\ why = "recv"
  /\ failed = FALSE
  /\ file = NoFile
  /\ newlines = 0
  /\ replay = NoFile
  /\ pos = 1
  /\ db = {}
  /\ closed = FALSE

WriterStep ==
  \/ RecvPrimary
  \/ RecvOverflow
  \/ Tick
  \/ RecvClosed
  \/ InsertOk
  \/ InsertFails
  \/ WriteLine
  \/ Appended
  \/ AppendFails
  \/ Connect
  \/ ConnectFails
  \/ ReplayLine
  \/ ReplayDone
  \/ ReplayFails

Next ==
  \/ \E e \in Events : Record(e)
  \/ WriterStep
  \/ Newline
  \/ FlipDb
  \/ Shutdown
  \/ Crash

Spec == Init /\ [][Next]_vars

\* The runtime polls the writer and runs background writes; select! chooses
\* at random among the branches that are ready, so none is passed over for
\* ever.
Fairness ==
  /\ WF_vars(WriterStep)
  /\ WF_vars(Newline)
  /\ SF_vars(RecvPrimary) /\ SF_vars(RecvOverflow) /\ SF_vars(Tick)
  /\ SF_vars(RecvClosed)

FairSpec == Spec /\ Fairness

(***************************************************************************)
(* Properties                                                              *)
(***************************************************************************)

IsFile(f) ==
  /\ DOMAIN f = {"lines", "open"}
  /\ f.lines \in Seq(Seq(Events \cup {Torn}))
  /\ f.open \in BOOLEAN
  /\ f.open => f.lines # <<>>

\* Type invariant.  A batch is kept only while there is a pool, so the branch
\* of run_with_channels that drains one without a pool never runs.
TypeOK ==
  /\ fresh \subseteq Events /\ dropped \subseteq Events /\ db \subseteq Events
  /\ primary \in Seq(Events) /\ Len(primary) <= PrimaryCap
  /\ overflow \in Seq(Events) /\ Len(overflow) <= OverflowCap
  /\ batch \in Seq(Events) /\ Len(batch) <= BatchSize
  /\ batch # <<>> => pool
  /\ work \in Seq(Events)
  /\ pc \in {"select", "insert", "append", "connect", "replay", "stopped"}
  /\ {pool, failed, dbUp, closed} \subseteq BOOLEAN
  /\ IsFile(file) /\ IsFile(replay)
  /\ newlines \in Nat
  /\ pos \in Nat \ {0}

\* The events the writer and its channels hold.
InMemory == Range(primary) \cup Range(overflow) \cup Range(batch) \cup Range(work)

InFiles == InFile(file) \cup InFile(replay)

\* The events recorded and not lost, or lost and counted.
Accountable == InMemory \cup InFiles \cup db \cup dropped

\* Stated by ledger/mod.rs:18 ("khong bao gio im lang mat usage", usage is
\* never lost silently): an event that was recorded is on its way, in a file
\* or in the table, or it was counted as dropped.
Accounted == Events \ fresh \subseteq Accountable

\* The steps that lose events: the process ends, the disk fails, the writer
\* stops with events in the overflow channel, or the fallback file is renamed
\* over one whose replay was cut short.
LossyStep ==
  \/ Crash
  \/ AppendFails
  \/ RecvClosed /\ overflow # <<>>
  \/ Connect /\ ~(InFile(replay) \subseteq db)

\* What remains of it: every other step, in every state, leaves each event
\* recorded so far in memory, in a file, in the table or in the drop counter
\* (ledger/mod.rs:54-66, 113-173 and 208-312).
NoSilentLoss ==
  [][LossyStep \/ Accountable \cup (fresh \ fresh') \subseteq Accountable']_vars

\* Stated by README.md:504 (the file is a "durability buffer during database
\* outages"): not even a crash or a disk error takes an event out of the files
\* that is not in the table; only the rename over an old *.replay does, which
\* is what the file being replayed becomes when the process dies meanwhile
\* (ledger/mod.rs:268-288).
FilesKept ==
  [][InFile(file) \cup (IF Connect THEN {} ELSE InFile(replay))
       \subseteq (InFiles \cup db)']_vars

\* No event waits in memory for ever: a batch that does not fill is flushed by
\* the timer, both channels are served, and a shutdown flushes what is left,
\* whatever the database, the disk or the process does, so with finitely many
\* events the memory is empty again and again (ledger/mod.rs:113-205).
Delivered == []<>(InMemory = {})

\* Stated by README.md:504 ("replays them when the database is available
\* again"): once the database stays up, what is in the file gets to the table.
FallbackReplayed ==
  <>[]dbUp => \A e \in Events : e \in InFile(file) ~> e \in db
=============================================================================
