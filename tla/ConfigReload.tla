---------------------------- MODULE ConfigReload ----------------------------
(***************************************************************************)
(* How the configuration gets from PostgreSQL into the memory of a router: *)
(* DbConfigLoader::load_snapshot (src/src/config/mod.rs), the poll loop of *)
(* main, reload_now of the admin API and readyz.                           *)
(*                                                                         *)
(* A load is five queries without a transaction, so tables may change      *)
(* between them.  The poll loop and every admin call load and publish on   *)
(* their own, in parallel and without a lock: each query and each store    *)
(* into the shared state is a step.  What the rows hold, and who changes   *)
(* them, is the business of module AdminApi.                               *)
(***************************************************************************)
EXTENDS FiniteSets

CONSTANTS
  Poll,      \* the task of the poll loop
  Admins,    \* the tasks that serve admin calls
  NoSnap,    \* a table that has not been read yet
  Outages    \* does PostgreSQL come and go (bound)?

Loaders == Admins \cup {Poll}

ASSUME ReloadAssumptions ==
  Poll \notin Admins /\ IsFiniteSet(Admins) /\ Outages \in BOOLEAN

VARIABLES
  db,        \* the tables
  dbUp,      \* does PostgreSQL answer, and in time?
  pool,      \* the rows RamBackendPool was last synchronised with
  budgets,   \* the rows RamBudgetStore's team budgets were taken from
  cfg,       \* AppState.cfg: the published snapshot
  at,        \* where each loader is
  snap,      \* what each loader has read
  notified,  \* the permit of reload_notify
  last       \* which of config_ok_at and config_err_at was stored last

reloadVars == <<db, dbUp, pool, budgets, cfg, at, snap, notified, last>>

TableNames == {"backends", "endpoints", "routes", "teams", "keys"}

Nothing == [t \in TableNames |-> NoSnap]

Goto(l, label) == at' = [at EXCEPT ![l] = label]

\* A loader is asked for a snapshot.
BeginLoad(l) == Goto(l, "backends")

(***************************************************************************)
(* load_snapshot                                                           *)
(***************************************************************************)

\* One query: the rows of a table as they are now, then the next step.
Query(l, table, next) ==
  /\ at[l] = table /\ dbUp
  /\ snap' = [snap EXCEPT ![l][table] = db[table]]
  /\ Goto(l, next)
  /\ UNCHANGED <<db, dbUp, pool, budgets, cfg, notified, last>>

\* Mutant of LoadTeams: the load is over before the keys are read.
LoadTeamsLast(l) == Query(l, "teams", "sync_backends")

\* The order of the queries: load_routes reads the endpoints first.
LoadBackends(l) == Query(l, "backends", "endpoints")
LoadRouteEndpoints(l) == Query(l, "endpoints", "routes")
LoadRoutes(l) == Query(l, "routes", "teams")
LoadTeams(l) == Query(l, "teams", "keys")
LoadApiKeys(l) == Query(l, "keys", "sync_backends")

\* Mutant of LoadFails: the error ends the poll loop's task.
LoadFailsForGood(l) ==
  /\ at[l] \in TableNames /\ ~dbUp
  /\ snap' = [snap EXCEPT ![l] = Nothing]
  /\ Goto(l, "failed")
  /\ last' = IF l = Poll THEN "err" ELSE last
  /\ UNCHANGED <<db, dbUp, pool, budgets, cfg, notified>>

\* A query fails, or the poll loop's timeout strikes: nothing is published.
\* The poll loop records the failure; reload_now returns it to its caller.
LoadFails(l) ==
  /\ at[l] \in TableNames /\ ~dbUp
  /\ snap' = [snap EXCEPT ![l] = Nothing]
  /\ Goto(l, IF l = Poll THEN "idle" ELSE "failed")
  /\ last' = IF l = Poll THEN "err" ELSE last
  /\ UNCHANGED <<db, dbUp, pool, budgets, cfg, notified>>

(***************************************************************************)
(* wire_snapshot and the publication                                       *)
(***************************************************************************)

SyncBackends(l) ==
  /\ at[l] = "sync_backends"
  /\ pool' = snap[l].backends
  /\ Goto(l, "sync_teams")
  /\ UNCHANGED <<db, dbUp, budgets, cfg, snap, notified, last>>

SyncTeams(l) ==
  /\ at[l] = "sync_teams"
  /\ budgets' = snap[l].teams
  /\ Goto(l, "publish")
  /\ UNCHANGED <<db, dbUp, pool, cfg, snap, notified, last>>

\* Mutant of Publish: the poll loop is notified before the store.
PublishAfterNotify(l) ==
  \/ /\ at[l] = "publish" /\ l # Poll
     /\ notified' = TRUE
     /\ Goto(l, "notify")
     /\ UNCHANGED <<db, dbUp, pool, budgets, cfg, snap, last>>
  \/ /\ at[l] = IF l = Poll THEN "publish" ELSE "notify"
     /\ cfg' = snap[l]
     /\ snap' = [snap EXCEPT ![l] = Nothing]
     /\ Goto(l, "ok")
     /\ UNCHANGED <<db, dbUp, pool, budgets, notified, last>>

\* cfg.store: requests see the new snapshot from here on.
Publish(l) ==
  /\ at[l] = "publish"
  /\ cfg' = snap[l]
  /\ snap' = [snap EXCEPT ![l] = Nothing]
  /\ Goto(l, IF l = Poll THEN "ok" ELSE "notify")
  /\ UNCHANGED <<db, dbUp, pool, budgets, notified, last>>

\* reload_notify.notify_one, by reload_now only: a permit is kept if the poll
\* loop is not waiting.
Notify(l) ==
  /\ at[l] = "notify"
  /\ notified' = TRUE
  /\ Goto(l, "ok")
  /\ UNCHANGED <<db, dbUp, pool, budgets, cfg, snap, last>>

\* Mutant of StoreOk: only reload_now stores config_ok_at.
StoreOkAdmin(l) ==
  /\ at[l] = "ok"
  /\ last' = IF l = Poll THEN last ELSE "ok"
  /\ Goto(l, IF l = Poll THEN "idle" ELSE "loaded")
  /\ UNCHANGED <<db, dbUp, pool, budgets, cfg, snap, notified>>

\* config_ok_at.store(now)
StoreOk(l) ==
  /\ at[l] = "ok"
  /\ last' = "ok"
  /\ Goto(l, IF l = Poll THEN "idle" ELSE "loaded")
  /\ UNCHANGED <<db, dbUp, pool, budgets, cfg, snap, notified>>

LoaderStep(l) ==
  \/ LoadBackends(l) \/ LoadRouteEndpoints(l) \/ LoadRoutes(l)
  \/ LoadTeams(l) \/ LoadApiKeys(l)
  \/ LoadFails(l)
  \/ SyncBackends(l)
  \/ SyncTeams(l)
  \/ Publish(l)
  \/ Notify(l)
  \/ StoreOk(l)

(***************************************************************************)
(* The poll loop, and the database                                         *)
(***************************************************************************)

\* select!: the sleep is over, or the permit is there and is taken.
PollWake ==
  /\ at[Poll] = "idle"
  /\ notified' = FALSE \/ UNCHANGED notified
  /\ BeginLoad(Poll)
  /\ UNCHANGED <<db, dbUp, pool, budgets, cfg, snap, last>>

FlipDb ==
  /\ Outages
  /\ dbUp' = ~dbUp
  /\ UNCHANGED <<db, pool, budgets, cfg, at, snap, notified, last>>

\* main loads, wires and publishes a first snapshot before it listens.
ReloadInit ==
  /\ dbUp = TRUE
  /\ pool = db.backends
  /\ budgets = db.teams
  /\ cfg = db
  /\ at = [l \in Loaders |-> "idle"]
  /\ snap = [l \in Loaders |-> Nothing]
  /\ notified = FALSE
  /\ last = "ok"

PollStep == PollWake \/ LoaderStep(Poll)

\* readiness_status: 200 while the last outcome stored is a success.  The age
\* limit adds nothing here: a poll loop that runs stores an outcome in time.
Ready == last = "ok"

\* The router's memory holds what the tables hold.
InSync == cfg = db /\ pool = db.backends /\ budgets = db.teams

\* What a loader has read so far is what the tables hold now.
Current(l) == \A t \in TableNames : snap[l][t] \in {NoSnap, db[t]}
=============================================================================
