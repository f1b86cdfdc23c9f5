---------------------------- MODULE BackendPool ----------------------------
(***************************************************************************)
(* The backend pool of the router (RamBackendPool, src/src/route/mod.rs):  *)
(* the inflight slots, the circuit breaker with its half-open probe, the   *)
(* selection loop with exclusions, the active health loop and the sync of  *)
(* the pool with the configuration, driven by proxy_forward's retry loop   *)
(* (src/src/proxy/mod.rs).                                                 *)
(*                                                                         *)
(* The fields of a BackendState are separate atomics, and requests work on *)
(* them in parallel under a shared (read) guard of the map entry: every    *)
(* load, store and compare-and-swap is a step of its own.  Removing an     *)
(* entry or updating it takes the write lock, hence waits until no actor   *)
(* is between taking and releasing such a guard (Guarding).                *)
(*                                                                         *)
(* The poll loop and every reload an administrator asks for call           *)
(* sync_backends with a snapshot of their own, without a lock between      *)
(* them: a sync may work with a view that is older than what another one   *)
(* has already brought into the pool.                                      *)
(*                                                                         *)
(* Which of the eligible candidates is picked (score, round robin, weight) *)
(* is left open: any of them may be.  The instant opened_until is kept as  *)
(* "none", "future" or "past", and the clock may pass it at any time.      *)
(***************************************************************************)
EXTENDS Naturals, FiniteSets

CONSTANTS
  Requests,     \* request tasks; each serves one request after the other
  HealthLoop,   \* the task of start_health_loop
  Syncers,      \* the tasks that call sync_backends: poll loop, admin reloads
  Primary,      \* ModelRoute.backend_ids, those whose endpoint is enabled
  Fallback,     \* {} or {fallback_backend_id}
  Local,        \* the backends whose base_url is local (is_local_host)
  GlobalMax,    \* Backend.max_inflight, 0 = unlimited
  EndpointMax,  \* ModelRoute.endpoint_max_inflight, 0 = unlimited
  CounterSize,  \* the inflight counter is a u32: CounterSize = 2^32
  Settings,     \* what may go on around the pool, see below
  RoundRobin,   \* does the route use one of the round-robin policies?
  ClientAborts  \* may a request be dropped before the upstream answers?

Backends == Primary \cup Fallback
Actors == Requests \cup {HealthLoop}

\* A setting: the requests that arrive, the tasks that sync, the backends whose
\* rows administrators create, edit and delete (the others are configured from
\* the start), and the backends whose upstream may fail.
AllSettings ==
  [requests : SUBSET Requests, syncers : SUBSET Syncers,
   edited : SUBSET Backends, flaky : SUBSET Backends]

ASSUME BackendPoolAssumptions ==
  /\ IsFiniteSet(Requests)
  /\ HealthLoop \notin Requests
  /\ Primary # {} /\ Local \subseteq Backends
  /\ Settings \subseteq AllSettings
  /\ GlobalMax \in [Backends -> Nat]
  /\ EndpointMax \in [Backends -> Nat]
  /\ CounterSize \in Nat /\ CounterSize > 2 * Cardinality(Actors)
  /\ RoundRobin \in BOOLEAN /\ ClientAborts \in BOOLEAN

VARIABLES
  \* RamBackendPool.states: one BackendState per backend
  present, enabled, inflight, circuit, probe, until, failures,
  \* the world around the pool
  life,      \* the row of the backends table: "new", "listed" or "deleted"
  up,        \* does the upstream serve requests and health checks?
  setting,   \* which of the Settings this is; it never changes
  \* the calls of sync_backends
  loaded,    \* has the caller loaded a snapshot it has not begun to sync?
  view,      \* the ids of the snapshot, as far as they are not yet upserted
  gone,      \* the keys the snapshot lacks, as far as they are not yet visited
  doomed,    \* the key found removable, which is removed next
  torn,      \* history: the entries created anew beside leases of an old one
  \* the tasks
  pc, at, half, excluded, group, todo, cands, first, leases, ok, hit, seen,
  after,
  late       \* instants that passed after the task took its own `now`

state == <<present, enabled, inflight, circuit, probe, until, failures>>
syncs == <<loaded, view, gone, doomed, torn>>
world == <<life, up, setting, syncs>>
scan  == <<excluded, group, todo, cands, first, late>>
vars  == <<present, enabled, inflight, circuit, probe, until, failures,
           life, up, setting, loaded, view, gone, doomed, torn, pc, at, half, excluded, group, todo, cands, first,
           leases, ok, hit, seen, after, late>>

\* After this many consecutive failures the circuit opens.
FailureThreshold == 3

Min2(x, y) == IF x <= y THEN x ELSE y
SaturatingSub(x, y) == IF x >= y THEN x - y ELSE 0

\* fetch_add(1) and fetch_sub(1) wrap around.
WrappingInc(x) == IF x + 1 = CounterSize THEN 0 ELSE x + 1
WrappingDec(x) == IF x = 0 THEN CounterSize - 1 ELSE x - 1

\* The smaller of the two limits that is not 0.
MaxInflight(b) ==
  CASE GlobalMax[b] = 0 -> EndpointMax[b]
    [] EndpointMax[b] = 0 -> GlobalMax[b]
    [] OTHER -> Min2(GlobalMax[b], EndpointMax[b])

HasRoom(b) == MaxInflight(b) = 0 \/ inflight[b] < MaxInflight(b)

Goto(a, label) == pc' = [pc EXCEPT ![a] = label]

Members(g) == IF g = "primary" THEN Primary ELSE Fallback

(***************************************************************************)
(* choose_candidate: candidate_for_backend on every backend of the group   *)
(***************************************************************************)

\* choose_candidate starts on a group, and takes the time once.
Choose(a, g) ==
  /\ Goto(a, "scan")
  /\ group' = [group EXCEPT ![a] = g]
  /\ todo' = [todo EXCEPT ![a] = Members(g)]
  /\ cands' = [cands EXCEPT ![a] = {}]
  /\ first' = [first EXCEPT ![a] = {}]
  /\ late' = [late EXCEPT ![a] = {}]

\* acquire_excluding starts with the primary group.
Rescan(a) == Choose(a, "primary")

\* The request is over: nothing of its selection survives.
End(a) ==
  /\ Goto(a, "idle")
  /\ half' = [half EXCEPT ![a] = FALSE]
  /\ excluded' = [excluded EXCEPT ![a] = {}]
  /\ group' = [group EXCEPT ![a] = "primary"]
  /\ todo' = [todo EXCEPT ![a] = {}]
  /\ cands' = [cands EXCEPT ![a] = {}]
  /\ first' = [first EXCEPT ![a] = {}]
  /\ late' = [late EXCEPT ![a] = {}]

\* proxy_forward calls acquire_excluding with an empty set of exclusions.
Start(a) ==
  /\ pc[a] = "idle" /\ a \in setting.requests
  /\ Rescan(a)
  /\ UNCHANGED <<state, world, at, half, excluded, leases, ok, hit, seen,
                 after>>

\* candidate_for_backend: the early returns and the load of the circuit.
Look(a, b) ==
  /\ pc[a] = "scan"
  /\ b \in todo[a]
  /\ todo' = [todo EXCEPT ![a] = @ \ {b}]
  /\ at' = [at EXCEPT ![a] = b]
  /\ half' = [half EXCEPT ![a] = FALSE]
  /\ Goto(a, CASE b \in excluded[a] \/ ~present[b] \/ ~enabled[b] -> "scan"
               [] OTHER -> CASE circuit[b] = "closed" -> "room"
                             [] circuit[b] = "open"   -> "until"
                             [] circuit[b] = "half"   -> "probe")
  /\ UNCHANGED <<state, world, excluded, group, cands, first, late, leases,
                 ok, hit, seen, after>>

\* An open circuit: had opened_until passed at the time the task took?  No
\* instant counts as passed.
CheckUntil(a) ==
  /\ pc[a] = "until"
  /\ Goto(a, IF \/ until[at[a]] = "future"
                \/ until[at[a]] = "past" /\ at[a] \in late[a]
             THEN "scan" ELSE "swap")
  /\ UNCHANGED <<state, world, at, half, scan, leases, ok, hit, seen, after>>

\* compare_exchange(OPEN, HALF_OPEN)
SwapHalfOpen(a) ==
  /\ pc[a] = "swap"
  /\ IF circuit[at[a]] = "open"
     THEN /\ circuit' = [circuit EXCEPT ![at[a]] = "half"]
          /\ Goto(a, "arm")
     ELSE /\ Goto(a, "scan")
          /\ UNCHANGED circuit
  /\ UNCHANGED <<present, enabled, inflight, probe, until, failures, world,
                 at, half, scan, leases, ok, hit, seen, after>>

\* half_open_probe.store(true)
ArmProbe(a) ==
  /\ pc[a] = "arm"
  /\ probe' = [probe EXCEPT ![at[a]] = TRUE]
  /\ half' = [half EXCEPT ![a] = TRUE]
  /\ Goto(a, "room")
  /\ UNCHANGED <<present, enabled, inflight, circuit, until, failures, world,
                 at, scan, leases, ok, hit, seen, after>>

\* A half-open circuit is eligible while its probe is free.
CheckProbe(a) ==
  /\ pc[a] = "probe"
  /\ half' = [half EXCEPT ![a] = probe[at[a]]]
  /\ Goto(a, IF probe[at[a]] THEN "room" ELSE "scan")
  /\ UNCHANGED <<state, world, at, scan, leases, ok, hit, seen, after>>

\* The inflight check, and the candidate.
CheckRoom(a) ==
  /\ pc[a] = "room"
  /\ cands' = [cands EXCEPT ![a] =
                 IF HasRoom(at[a])
                 THEN @ \cup {[backend |-> at[a], half |-> half[a]]} ELSE @]
  /\ Goto(a, "scan")
  /\ UNCHANGED <<state, world, at, half, excluded, group, todo, first, late,
                 leases, ok, hit, seen, after>>

Scanned(a) == pc[a] = "scan" /\ todo[a] = {}
Found(a) == {c.backend : c \in cands[a]}

\* Has the last pass of the policy been made?  The round-robin policies count
\* the candidates, draw a number, and evaluate the group a second time.
LastPass(a) == ~RoundRobin \/ first[a] # {}

SecondPass(a) ==
  /\ Scanned(a) /\ ~LastPass(a) /\ cands[a] # {}
  /\ first' = [first EXCEPT ![a] = Found(a)]
  /\ todo' = [todo EXCEPT ![a] = Members(group[a])]
  /\ cands' = [cands EXCEPT ![a] = {}]
  /\ UNCHANGED <<state, world, pc, at, half, excluded, group, late, leases, ok,
                 hit, seen, after>>

\* AcquireError::CounterUnavailable: no number, the request is answered 503.
CounterFails(a) ==
  /\ Scanned(a) /\ ~LastPass(a) /\ cands[a] # {}
  /\ Goto(a, "drop")
  /\ UNCHANGED <<state, world, at, half, scan, leases, ok, hit, seen, after>>

\* One of the candidates is chosen; round robin stops at it.
Pick(a) ==
  /\ pc[a] = "scan" /\ LastPass(a)
  /\ RoundRobin \/ todo[a] = {}
  /\ \E c \in cands[a] : /\ at' = [at EXCEPT ![a] = c.backend]
                         /\ half' = [half EXCEPT ![a] = c.half]
  /\ cands' = [cands EXCEPT ![a] = {}]
  /\ first' = [first EXCEPT ![a] = {}]
  /\ late' = [late EXCEPT ![a] = {}]
  /\ todo' = [todo EXCEPT ![a] = {}]
  /\ Goto(a, "take")
  /\ UNCHANGED <<state, world, excluded, group, leases, ok, hit, seen, after>>

\* No candidate, or (round robin) the number drawn on the first pass points
\* beyond the candidates of the second: the fallback backend is next, or none.
NoCandidate(a) ==
  /\ Scanned(a)
  /\ \/ cands[a] = {}
     \/ LastPass(a) /\ RoundRobin /\ ~(first[a] \subseteq Found(a))
  /\ LET next == group[a] = "primary" /\ Fallback \ excluded[a] # {}
     IN \/ /\ next
           /\ Choose(a, "fallback")
           /\ UNCHANGED <<half, excluded>>
        \/ /\ ~next /\ leases[a] # {}
           /\ Goto(a, "serving")
           /\ UNCHANGED <<half, scan>>
        \/ /\ ~next /\ leases[a] = {}
           /\ End(a)
  /\ UNCHANGED <<state, world, at, leases, ok, hit, seen, after>>

(***************************************************************************)
(* acquire_primary: taking the candidate                                   *)
(***************************************************************************)

\* `continue` with the candidate excluded.
Exclude(a) ==
  /\ excluded' = [excluded EXCEPT ![a] = @ \cup {at[a]}]
  /\ Choose(a, group[a])

\* The entry is gone, or another request won the half-open probe.
TakeFails(a) ==
  /\ pc[a] = "take"
  /\ ~present[at[a]] \/ (half[a] /\ ~probe[at[a]])
  /\ Exclude(a)
  /\ UNCHANGED <<state, world, at, half, leases, ok, hit, seen, after>>

\* compare_exchange(true, false) on the probe of a half-open candidate.
Take(a) ==
  /\ pc[a] = "take"
  /\ present[at[a]] /\ (half[a] => probe[at[a]])
  /\ probe' = [probe EXCEPT ![at[a]] = IF half[a] THEN FALSE ELSE @]
  /\ Goto(a, "inc")
  /\ UNCHANGED <<present, enabled, inflight, circuit, until, failures, world,
                 at, half, scan, leases, ok, hit, seen, after>>

\* Mutant of Inc: trusts the check of candidate_for_backend.
IncUnchecked(a) ==
  /\ pc[a] = "inc"
  /\ inflight' = [inflight EXCEPT ![at[a]] = WrappingInc(@)]
  /\ leases' = [leases EXCEPT ![a] = @ \cup {at[a]}]
  /\ excluded' = [excluded EXCEPT ![a] = @ \cup {at[a]}]
  /\ Goto(a, "leased")
  /\ UNCHANGED <<present, enabled, circuit, probe, until, failures, world,
                 at, half, group, todo, cands, first, late, ok, hit, seen,
                 after>>

\* Mutant of Inc: the attempt is not remembered as tried.
IncForgets(a) ==
  /\ pc[a] = "inc"
  /\ inflight' = [inflight EXCEPT ![at[a]] = WrappingInc(@)]
  /\ leases' = [leases EXCEPT ![a] = @ \cup {at[a]}]
  /\ Goto(a, "leased")
  /\ UNCHANGED <<present, enabled, circuit, probe, until, failures, world,
                 at, half, scan, ok, hit, seen, after>>

\* fetch_add: the slot is ours, or the backend is full and it is given back.
Inc(a) ==
  /\ pc[a] = "inc"
  /\ inflight' = [inflight EXCEPT ![at[a]] = WrappingInc(@)]
  /\ IF HasRoom(at[a])
     THEN /\ leases' = [leases EXCEPT ![a] = @ \cup {at[a]}]
          /\ excluded' = [excluded EXCEPT ![a] = @ \cup {at[a]}]
          /\ Goto(a, "leased")
     ELSE /\ Goto(a, "undo")
          /\ UNCHANGED <<leases, excluded>>
  /\ UNCHANGED <<present, enabled, circuit, probe, until, failures, world,
                 at, half, group, todo, cands, first, late, ok, hit, seen,
                 after>>

\* fetch_sub
Undo(a) ==
  /\ pc[a] = "undo"
  /\ inflight' = [inflight EXCEPT ![at[a]] = WrappingDec(@)]
  /\ IF half[a] THEN Goto(a, "rearm") /\ UNCHANGED scan ELSE Exclude(a)
  /\ UNCHANGED <<present, enabled, circuit, probe, until, failures, world,
                 at, half, leases, ok, hit, seen, after>>

\* A full backend gives its half-open probe back.
Rearm(a) ==
  /\ pc[a] = "rearm"
  /\ probe' = [probe EXCEPT ![at[a]] = TRUE]
  /\ Exclude(a)
  /\ UNCHANGED <<present, enabled, inflight, circuit, until, failures, world,
                 at, half, leases, ok, hit, seen, after>>

(***************************************************************************)
(* proxy_forward: what the request does with its lease                     *)
(***************************************************************************)

\* Mutant of Dec: a disabled backend's leases are not counted down.
DecEnabledOnly(b) ==
  inflight' = [inflight EXCEPT ![b] =
                 IF present[b] /\ enabled[b] THEN SaturatingSub(@, 1) ELSE @]

\* Mutant of Dec: the counter is decremented without a floor.
DecUnchecked(b) ==
  inflight' = [inflight EXCEPT ![b] = IF present[b] THEN @ - 1 ELSE @]

\* dec_inflight, called by BackendLease::drop.
Dec(b) ==
  inflight' = [inflight EXCEPT ![b] = IF present[b] THEN SaturatingSub(@, 1) ELSE @]

\* A retry after an error status got a new lease: the old one is dropped.
DropOldLease(a, b) ==
  /\ pc[a] = "leased"
  /\ b \in leases[a] \ {at[a]}
  /\ Dec(b)
  /\ leases' = [leases EXCEPT ![a] = @ \ {b}]
  /\ UNCHANGED <<present, enabled, circuit, probe, until, failures, world,
                 pc, at, half, scan, ok, hit, seen, after>>

\* The request ends before the upstream answered and reports no result: the
\* backend left the configuration, the body cannot be rewritten for it, or
\* the client disconnected.
Abandon(a) ==
  /\ pc[a] = "leased" /\ leases[a] = {at[a]}
  /\ ClientAborts \/ ~present[at[a]] \/ ~enabled[at[a]]
  /\ Goto(a, "drop")
  /\ UNCHANGED <<state, world, at, half, scan, leases, ok, hit, seen, after>>

\* The upstream answers, or fails (a request that cannot be built counts as a
\* failure of the backend): a retryable status keeps the lease while
\* another backend is looked for, a connection error or a first-byte timeout
\* gives it up first; a streamed upload is not retried.
Respond(a) ==
  /\ pc[a] = "leased" /\ leases[a] = {at[a]}
  /\ ok' = [ok EXCEPT ![a] = up[at[a]]]
  /\ \E next \in IF up[at[a]] THEN {"serving"}
                 ELSE {"serving", "retry", "drop", "dropretry"} :
       after' = [after EXCEPT ![a] = next]
  /\ Goto(a, "note")
  /\ UNCHANGED <<state, world, at, half, scan, leases, hit, seen>>

\* note_result has returned, and its locals are gone.
AfterNote(a) ==
  /\ pc[a] = "noted"
  /\ IF after[a] = "retry" THEN Rescan(a)
     ELSE Goto(a, after[a]) /\ UNCHANGED <<group, todo, cands, first, late>>
  /\ half' = [half EXCEPT ![a] = FALSE]
  /\ ok' = [ok EXCEPT ![a] = FALSE]
  /\ hit' = [hit EXCEPT ![a] = FALSE]
  /\ seen' = [seen EXCEPT ![a] = "closed"]
  /\ after' = [after EXCEPT ![a] = "idle"]
  /\ UNCHANGED <<state, world, at, excluded, leases>>

\* The response has been forwarded, or the client left.
EndServing(a) ==
  /\ pc[a] = "serving"
  /\ Goto(a, "drop")
  /\ UNCHANGED <<state, world, at, half, scan, leases, ok, hit, seen, after>>

\* The lease is dropped, then the request ends or looks for another backend.
Drop(a) ==
  /\ pc[a] \in {"drop", "dropretry"}
  /\ \/ leases[a] = {} /\ UNCHANGED inflight
     \/ \E b \in leases[a] : Dec(b)
  /\ leases' = [leases EXCEPT ![a] = {}]
  /\ IF pc[a] = "dropretry" THEN Rescan(a) /\ UNCHANGED <<half, excluded>>
     ELSE End(a)
  /\ UNCHANGED <<present, enabled, circuit, probe, until, failures, world,
                 at, ok, hit, seen, after>>

(***************************************************************************)
(* note_result                                                             *)
(***************************************************************************)

\* A success closes the circuit.  A failure is counted, and the request
\* remembers whether its own fetch_add reached the threshold.  (The count is
\* compared with nothing else, so it stops there.)
Note(a) ==
  /\ pc[a] = "note"
  /\ LET b == at[a]
     IN \/ /\ ~present[b]
           /\ Goto(a, "noted")
           /\ UNCHANGED <<circuit, failures, hit>>
        \/ /\ present[b] /\ ok[a]
           /\ circuit' = [circuit EXCEPT ![b] = "closed"]
           /\ Goto(a, "ok_until")
           /\ UNCHANGED <<failures, hit>>
        \/ /\ present[b] /\ ~ok[a]
           /\ failures' = [failures EXCEPT ![b] = Min2(@ + 1, FailureThreshold)]
           /\ hit' = [hit EXCEPT ![a] = failures[b] + 1 >= FailureThreshold]
           /\ Goto(a, "fail_load")
           /\ UNCHANGED circuit
  /\ UNCHANGED <<present, enabled, inflight, probe, until, world, at, half,
                 scan, leases, ok, seen, after>>

NoteOkUntil(a) ==
  /\ pc[a] = "ok_until"
  /\ until' = [until EXCEPT ![at[a]] = "none"]
  /\ Goto(a, "ok_probe")
  /\ UNCHANGED <<present, enabled, inflight, circuit, probe, failures, world,
                 at, half, scan, leases, ok, hit, seen, after>>

NoteOkProbe(a) ==
  /\ pc[a] = "ok_probe"
  /\ probe' = [probe EXCEPT ![at[a]] = TRUE]
  /\ Goto(a, "reset")
  /\ UNCHANGED <<present, enabled, inflight, circuit, until, failures, world,
                 at, half, scan, leases, ok, hit, seen, after>>

\* The failure path loads the circuit and decides on what it saw.
NoteFailLoad(a) ==
  /\ pc[a] = "fail_load"
  /\ seen' = [seen EXCEPT ![a] = circuit[at[a]]]
  /\ Goto(a, CASE circuit[at[a]] = "open" -> "extend"
               [] circuit[at[a]] = "half" -> "trip"
               [] circuit[at[a]] = "closed" -> IF hit[a] THEN "trip" ELSE "noted")
  /\ UNCHANGED <<state, world, at, half, scan, leases, ok, hit, after>>

\* compare_exchange(seen, OPEN)
NoteTrip(a) ==
  /\ pc[a] = "trip"
  /\ IF circuit[at[a]] = seen[a]
     THEN /\ circuit' = [circuit EXCEPT ![at[a]] = "open"]
          /\ Goto(a, "fail_until")
     ELSE /\ Goto(a, "noted")
          /\ UNCHANGED circuit
  /\ UNCHANGED <<present, enabled, inflight, probe, until, failures, world,
                 at, half, scan, leases, ok, hit, seen, after>>

\* opened_until.store(now + open_duration), after a trip or to extend it.
NoteUntil(a) ==
  /\ pc[a] \in {"fail_until", "extend"}
  /\ until' = [until EXCEPT ![at[a]] = "future"]
  /\ Goto(a, IF pc[a] = "extend" THEN "noted" ELSE "fail_probe")
  /\ UNCHANGED <<present, enabled, inflight, circuit, probe, failures, world,
                 at, half, scan, leases, ok, hit, seen, after>>

NoteFailProbe(a) ==
  /\ pc[a] = "fail_probe"
  /\ probe' = [probe EXCEPT ![at[a]] = FALSE]
  /\ Goto(a, "reset")
  /\ UNCHANGED <<present, enabled, inflight, circuit, until, failures, world,
                 at, half, scan, leases, ok, hit, seen, after>>

\* consecutive_failures.store(0), the last store of both paths.
NoteReset(a) ==
  /\ pc[a] = "reset"
  /\ failures' = [failures EXCEPT ![at[a]] = 0]
  /\ Goto(a, "noted")
  /\ UNCHANGED <<present, enabled, inflight, circuit, probe, until, world,
                 at, half, scan, leases, ok, hit, seen, after>>

NoteStep(a) ==
  \/ Note(a)
  \/ NoteOkUntil(a)
  \/ NoteOkProbe(a)
  \/ NoteFailLoad(a)
  \/ NoteTrip(a)
  \/ NoteUntil(a)
  \/ NoteFailProbe(a)
  \/ NoteReset(a)

(***************************************************************************)
(* The health loop                                                         *)
(***************************************************************************)

\* Mutant of HealthCheck: only failures are noted.
HealthCheckFailuresOnly(b) ==
  /\ pc[HealthLoop] = "idle"
  /\ b \in Local /\ present[b] /\ enabled[b] /\ ~up[b]
  /\ at' = [at EXCEPT ![HealthLoop] = b]
  /\ ok' = [ok EXCEPT ![HealthLoop] = FALSE]
  /\ after' = [after EXCEPT ![HealthLoop] = "idle"]
  /\ Goto(HealthLoop, "note")
  /\ UNCHANGED <<state, world, half, scan, leases, hit, seen>>

\* health_check_all on one enabled local backend: Healthy and Unhealthy are
\* noted; an answer that says neither (AuthRequired, Unknown) changes nothing.
HealthCheck(b) ==
  /\ pc[HealthLoop] = "idle"
  /\ b \in Local /\ present[b] /\ enabled[b]
  /\ at' = [at EXCEPT ![HealthLoop] = b]
  /\ ok' = [ok EXCEPT ![HealthLoop] = up[b]]
  /\ after' = [after EXCEPT ![HealthLoop] = "idle"]
  /\ Goto(HealthLoop, "note")
  /\ UNCHANGED <<state, world, half, scan, leases, hit, seen>>

HealthStep ==
  \/ \E b \in Local : HealthCheck(b)
  \/ NoteStep(HealthLoop)
  \/ AfterNote(HealthLoop)

(***************************************************************************)
(* sync_backends, and the world                                            *)
(***************************************************************************)

\* Actors that hold a read guard of the entry of b.
Guarding(b) ==
  {a \in Actors : at[a] = b /\ pc[a] \in
     {"until", "swap", "arm", "probe", "room", "inc", "undo", "rearm",
      "ok_until", "ok_probe", "fail_load", "trip", "fail_until", "extend",
      "fail_probe", "reset"}}

\* The leases of b are held by these actors.
Leasing(b) == {a \in Actors : b \in leases[a]}

\* BackendState::new; the fields of an entry that is not there are kept so.
NewEntry(b) ==
  /\ inflight' = [inflight EXCEPT ![b] = 0]
  /\ circuit' = [circuit EXCEPT ![b] = "closed"]
  /\ probe' = [probe EXCEPT ![b] = TRUE]
  /\ until' = [until EXCEPT ![b] = "none"]
  /\ failures' = [failures EXCEPT ![b] = 0]

\* load_snapshot, the caller's read of the backends table.
SyncLoad(s) ==
  /\ ~loaded[s] /\ view[s] = {} /\ gone[s] = {} /\ doomed[s] = {}
  /\ view' = [view EXCEPT ![s] = {b \in Backends : life[b] = "listed"}]
  /\ loaded' = [loaded EXCEPT ![s] = TRUE]
  /\ UNCHANGED <<state, life, up, setting, gone, doomed, torn, pc, at, half, scan,
                 leases, ok, hit, seen, after>>

\* sync_backends starts: the keys of the map that the snapshot does not have.
SyncStart(s) ==
  /\ loaded[s]
  /\ gone' = [gone EXCEPT ![s] = {b \in Backends : present[b]} \ view[s]]
  /\ loaded' = [loaded EXCEPT ![s] = FALSE]
  /\ UNCHANGED <<state, life, up, setting, view, doomed, torn, pc, at, half, scan,
                 leases, ok, hit, seen, after>>

\* Such an entry is disabled, and found removable when nobody uses it or when
\* it is gone already ...
SyncDisable(s, b) ==
  /\ b \in gone[s] /\ doomed[s] = {}
  /\ gone' = [gone EXCEPT ![s] = @ \ {b}]
  /\ enabled' = [enabled EXCEPT ![b] = FALSE]
  /\ doomed' = [doomed EXCEPT ![s] =
                  IF present[b] /\ inflight[b] # 0 THEN {} ELSE {b}]
  /\ UNCHANGED <<present, inflight, circuit, probe, until, failures, life, up,
                 setting, loaded, view, torn, pc, at, half, scan, leases, ok, hit, seen,
                 after>>

\* ... and then, with the guard released in between, removed.
SyncRemove(s, b) ==
  /\ b \in doomed[s]
  /\ Guarding(b) = {}
  /\ present' = [present EXCEPT ![b] = FALSE]
  /\ enabled' = [enabled EXCEPT ![b] = FALSE]
  /\ NewEntry(b)
  /\ doomed' = [doomed EXCEPT ![s] = {}]
  /\ UNCHANGED <<life, up, setting, loaded, view, gone, torn, pc, at, half, scan, leases,
                 ok, hit, seen, after>>

\* Then every backend of the snapshot goes through upsert_backend, whatever has
\* become of it since the snapshot was read.
SyncUpsert(s, b, e) ==
  /\ ~loaded[s] /\ gone[s] = {} /\ doomed[s] = {}
  /\ b \in view[s]
  /\ e \/ b \in setting.edited
  /\ Guarding(b) = {}
  /\ view' = [view EXCEPT ![s] = @ \ {b}]
  /\ enabled' = [enabled EXCEPT ![b] = e]
  /\ IF present[b]
     THEN UNCHANGED <<present, inflight, circuit, probe, until, failures, torn>>
     ELSE /\ present' = [present EXCEPT ![b] = TRUE]
          /\ NewEntry(b)
          /\ torn' = IF Leasing(b) = {} THEN torn \ {b} ELSE torn \cup {b}
  /\ UNCHANGED <<life, up, setting, loaded, gone, doomed, pc, at, half, scan, leases, ok,
                 hit, seen, after>>

SyncStep(s) ==
  \/ SyncLoad(s)
  \/ SyncStart(s)
  \/ \E b \in Backends : SyncDisable(s, b)
  \/ \E b \in Backends : SyncRemove(s, b)
  \/ \E b \in Backends, e \in BOOLEAN : SyncUpsert(s, b, e)

\* An administrator creates or deletes the row; ids are never used again
\* (BIGSERIAL).
AdminEdit(b) ==
  /\ b \in setting.edited
  /\ \/ life[b] = "new" /\ life' = [life EXCEPT ![b] = "listed"]
     \/ life[b] = "listed" /\ life' = [life EXCEPT ![b] = "deleted"]
  /\ UNCHANGED <<state, up, setting, syncs, pc, at, half, scan, leases, ok, hit, seen,
                 after>>

Selecting(a) == pc[a] \in {"scan", "until", "swap", "arm", "probe", "room"}

\* opened_until passes.
Expire(b) ==
  /\ until[b] = "future"
  /\ until' = [until EXCEPT ![b] = "past"]
  /\ late' = [a \in Actors |-> IF Selecting(a) THEN late[a] \cup {b} ELSE late[a]]
  /\ UNCHANGED <<present, enabled, inflight, circuit, probe, failures, world,
                 pc, at, half, excluded, group, todo, cands, first, leases, ok,
                 hit, seen, after>>

\* The upstream goes down or comes back.
Flip(b) ==
  /\ b \in setting.flaky
  /\ up' = [up EXCEPT ![b] = ~@]
  /\ UNCHANGED <<state, life, setting, syncs, pc, at, half, scan, leases, ok, hit, seen,
                 after>>

(***************************************************************************)
(* The specification                                                       *)
(***************************************************************************)

SomeBackend == CHOOSE b \in Primary : TRUE

Init ==
  /\ setting \in Settings
  /\ present = [b \in Backends |-> b \notin setting.edited]
  /\ enabled = [b \in Backends |-> b \notin setting.edited]
  /\ inflight = [b \in Backends |-> 0]
  /\ circuit = [b \in Backends |-> "closed"]
  /\ probe = [b \in Backends |-> TRUE]
  /\ until = [b \in Backends |-> "none"]
  /\ failures = [b \in Backends |-> 0]
  /\ life = [b \in Backends |-> IF b \in setting.edited THEN "new" ELSE "listed"]
  /\ loaded = [s \in Syncers |-> FALSE]
  /\ view = [s \in Syncers |-> {}]
  /\ gone = [s \in Syncers |-> {}]
  /\ doomed = [s \in Syncers |-> {}]
  /\ torn = {}
  /\ up = [b \in Backends |-> TRUE]
  /\ pc = [a \in Actors |-> "idle"]
  /\ at = [a \in Actors |-> SomeBackend]
  /\ half = [a \in Actors |-> FALSE]
  /\ excluded = [a \in Actors |-> {}]
  /\ group = [a \in Actors |-> "primary"]
  /\ todo = [a \in Actors |-> {}]
  /\ cands = [a \in Actors |-> {}]
  /\ first = [a \in Actors |-> {}]
  /\ leases = [a \in Actors |-> {}]
  /\ ok = [a \in Actors |-> FALSE]
  /\ hit = [a \in Actors |-> FALSE]
  /\ seen = [a \in Actors |-> "closed"]
  /\ after = [a \in Actors |-> "idle"]
  /\ late = [a \in Actors |-> {}]

\* One step of a request that has started.
RequestStep(a) ==
  \/ \E b \in Backends : Look(a, b)
  \/ CheckUntil(a)
  \/ SwapHalfOpen(a)
  \/ ArmProbe(a)
  \/ CheckProbe(a)
  \/ CheckRoom(a)
  \/ SecondPass(a)
  \/ CounterFails(a)
  \/ Pick(a)
  \/ NoCandidate(a)
  \/ TakeFails(a)
  \/ Take(a)
  \/ Inc(a)
  \/ Undo(a)
  \/ Rearm(a)
  \/ \E b \in Backends : DropOldLease(a, b)
  \/ Abandon(a)
  \/ Respond(a)
  \/ NoteStep(a)
  \/ AfterNote(a)
  \/ Drop(a)

Next ==
  \/ \E a \in Requests : Start(a) \/ RequestStep(a) \/ EndServing(a)
  \/ HealthStep
  \/ \E s \in setting.syncers : SyncStep(s)
  \/ \E b \in Backends : AdminEdit(b)
  \/ \E b \in Backends : Expire(b)
  \/ \E b \in Backends : Flip(b)

Spec == Init /\ [][Next]_vars

\* The runtime polls every task, first_byte_timeout ends the wait for the
\* upstream's answer, and the health loop keeps ticking.  Nothing is assumed of
\* EndServing: a body that is buffered is read without a timeout.
Fairness ==
  /\ \A a \in Requests : WF_vars(RequestStep(a))
  /\ WF_vars(HealthStep)

FairSpec == Spec /\ Fairness

(***************************************************************************)
(* Properties                                                              *)
(***************************************************************************)

Labels ==
  {"idle", "scan", "until", "swap", "arm", "probe", "room", "take", "inc",
   "undo", "rearm", "leased", "note", "noted", "ok_until", "ok_probe",
   "fail_load", "trip", "fail_until", "extend", "fail_probe", "reset",
   "serving", "drop", "dropretry"}
Circuits == {"closed", "open", "half"}

\* Type invariant of the pool, the world and the tasks.
TypeOK ==
  /\ present \in [Backends -> BOOLEAN] /\ enabled \in [Backends -> BOOLEAN]
  /\ inflight \in [Backends -> 0..(CounterSize - 1)]
  /\ circuit \in [Backends -> Circuits]
  /\ probe \in [Backends -> BOOLEAN]
  /\ until \in [Backends -> {"none", "future", "past"}]
  /\ failures \in [Backends -> 0..FailureThreshold]
  /\ life \in [Backends -> {"new", "listed", "deleted"}]
  /\ setting \in AllSettings
  /\ loaded \in [Syncers -> BOOLEAN]
  /\ view \in [Syncers -> SUBSET Backends]
  /\ gone \in [Syncers -> SUBSET Backends]
  /\ doomed \in [Syncers -> SUBSET Backends]
  /\ torn \in SUBSET Backends
  /\ up \in [Backends -> BOOLEAN]
  /\ pc \in [Actors -> Labels]
  /\ at \in [Actors -> Backends]
  /\ half \in [Actors -> BOOLEAN]
  /\ excluded \in [Actors -> SUBSET Backends]
  /\ group \in [Actors -> {"primary", "fallback"}]
  /\ todo \in [Actors -> SUBSET Backends]
  /\ cands \in [Actors -> SUBSET [backend : Backends, half : BOOLEAN]]
  /\ first \in [Actors -> SUBSET Backends]
  /\ leases \in [Actors -> SUBSET Backends]
  /\ ok \in [Actors -> BOOLEAN] /\ hit \in [Actors -> BOOLEAN]
  /\ seen \in [Actors -> Circuits]
  /\ late \in [Actors -> SUBSET Backends]
  /\ after \in [Actors -> {"idle", "serving", "retry", "drop", "dropretry"}]

\* The actors about to give a slot back that they found to be one too many.
Returning(b) == {a \in Actors : pc[a] = "undo" /\ at[a] = b}

\* The inflight counter of an entry is the number of leases alive plus the
\* increments about to be undone: no slot is leaked or released twice on any
\* path of the retry loop, nor by parallel syncs with stale snapshots that
\* disable, remove and re-create the entry (route/mod.rs:294-313, 381-389 and
\* 766-774).  The one exception is an entry that a sync created while leases
\* of its removed predecessor were alive: it starts at 0, and those leases
\* count it down.
InflightExact ==
  \A b \in Backends :
    present[b] /\ b \notin torn =>
      inflight[b] = Cardinality(Leasing(b)) + Cardinality(Returning(b))

\* Never more leases of a backend than its limit, even though the check of
\* candidate_for_backend is stale when the slot is taken and the entry may be
\* removed and created again under way (route/mod.rs:372), unless leases of a
\* removed entry were alive when the entry was created again.
MaxRespected ==
  \A b \in Backends \ torn :
    MaxInflight(b) > 0 => Cardinality(Leasing(b)) <= MaxInflight(b)

\* A request does not go back to a backend it has a failed attempt with: what
\* it leases is new to it, and it never owns more than the attempt under way
\* and the failed one it is about to replace (proxy/mod.rs:1417 and 1615-1627).
RetriesElsewhere ==
  /\ \A a \in Requests, b \in Backends :
       pc[a] = "inc" /\ at[a] = b => b \notin excluded[a] \cup leases[a]
  /\ \A a \in Requests : Cardinality(leases[a]) <= 2

\* Every request that has started is over, or has a response to forward, some
\* time later: the selection loop excludes a backend on each round, and the
\* retry loop never revisits one.
RequestsEnd ==
  \A a \in Requests : pc[a] # "idle" ~> pc[a] \in {"idle", "serving"}

\* A local backend that answers its health check from some point on, and stays
\* configured, is in service from some point on: the health loop closes its circuit again
\* whatever stale failures and lost probes preceded (route/mod.rs:817-820).
LocalRecovers ==
  \A b \in Local :
    <>[](up[b] /\ present[b] /\ enabled[b]) => <>[](circuit[b] = "closed")

\* Stated by PROVIDERS.md:88 ("later traffic can probe recovery and bring the
\* endpoint back into service"): once nobody is using a backend, its circuit
\* is not half-open with the only probe taken, which no later request could
\* ever get out of.
ProbeNotLost ==
  (\A a \in Actors : pc[a] = "idle") =>
     \A b \in Backends : ~(present[b] /\ circuit[b] = "half" /\ ~probe[b])
=============================================================================
