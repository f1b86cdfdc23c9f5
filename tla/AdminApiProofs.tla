-------------------------- MODULE AdminApiProofs ---------------------------
(***************************************************************************)
(* Proofs about AdminApi: the types, that a bridge route speaks OpenAI     *)
(* chat, that a stale configuration is always announced to the poll loop,  *)
(* and that a call which no other overlaps has the effect it reports.      *)
(*                                                                         *)
(* The inductive invariant follows every call (which step belongs to which *)
(* operation, and what has been validated by then) and every load (which   *)
(* tables it has read).  Told says who still owes the poll loop a word     *)
(* whenever its view is not that of the tables.                            *)
(***************************************************************************)
EXTENDS AdminApi, TLAPS

Steps ==
  {"idle", "check", "look", "clean", "bridge", "rename", "write", "endpoints",
   "insert", "enable", "reread", "reload", "done"}

Outcomes == {"none", "ok", "refused", "gone", "error", "dropped"}

Labels ==
  TableNames \cup Wiring \cup {"idle", "notify", "ok", "loaded", "failed"}

Saves == {"upsert_route", "patch_route"}

(***************************************************************************)
(* The inductive invariant                                                 *)
(***************************************************************************)

\* The variables of the calls.
TasksOK ==
  /\ call \in [Admins -> {Idle} \cup Call]
  /\ step \in [Admins -> Steps]
  /\ read \in [Admins -> Rows(Models, RouteRow)]
  /\ todo \in [Admins -> SUBSET (Models \cup Backends)]
  /\ outcome \in [Admins -> Outcomes]
  /\ alone \in [Admins -> BOOLEAN]

\* Which operations reach a step, and what they have established by then.
Serving(a) ==
  /\ step[a] = "idle" \/ call[a] \in Call
  /\ (step[a] = "done") = (outcome[a] # "none")
  /\ step[a] \in {"look", "clean"} => call[a].op = "delete_backend"
  /\ step[a] = "clean" =>
       \A m \in todo[a] : m \in Models /\ read[a][m] # NoRow
  /\ step[a] \in {"bridge", "endpoints", "insert"} => call[a].op \in Saves
  /\ step[a] = "rename" => call[a].op = "patch_route"
  /\ step[a] \in {"endpoints", "insert"} => call[a].endpoints # None
  /\ step[a] = "reread" => call[a].op = "toggle_route" /\ call[a].enabled
  /\ step[a] = "enable" =>
       \/ call[a].op \in Saves
       \/ call[a].op = "toggle_route" /\ call[a].enabled

\* A route is saved after it has been validated.
Validated(a) ==
  call[a].op \in Saves /\ step[a] \notin {"idle", "check", "done"} =>
    call[a].row \in RouteRow /\ BridgeIsChat(call[a])

\* The key that create_key disables when its reload fails is there.
KeyMade(a) ==
  step[a] = "reload" /\ call[a].op = "insert" /\ call[a].table = "keys" =>
    db.keys[call[a].id] # NoRow

\* The tables a loader has read when it is at a label.
ReadBy(label) ==
  CASE label = "endpoints" -> {"backends"}
    [] label = "routes"    -> {"backends", "endpoints"}
    [] label = "teams"     -> {"backends", "endpoints", "routes"}
    [] label = "keys"      -> {"backends", "endpoints", "routes", "teams"}
    [] label \in Wiring    -> TableNames
    [] OTHER               -> {}

TableOf ==
  [backends  |-> Rows(Backends, BackendRow),
   endpoints |-> SUBSET (Models \X Backends),
   routes    |-> Rows(Models, RouteRow),
   teams     |-> Rows(Teams, OnOff),
   keys      |-> Rows(Keys, OnOff)]

\* A loader holds the tables it has read and nothing else.
LoadsOK ==
  /\ at \in [Loaders -> Labels]
  /\ snap = [l \in Loaders |-> [t \in TableNames |-> snap[l][t]]]
  /\ \A l \in Loaders, t \in TableNames :
       IF t \in ReadBy(at[l]) THEN snap[l][t] \in TableOf[t]
                              ELSE snap[l][t] = NoSnap

Typed ==
  /\ TypeOK /\ TasksOK /\ LoadsOK /\ BridgeRoutesChat
  /\ \A a \in Admins : Serving(a) /\ Validated(a) /\ KeyMade(a)

\* The poll loop holds, or is about to hold, what the tables hold.
PollFresh ==
  IF at[Poll] \in TableNames \cup Wiring
  THEN /\ \A t \in ReadBy(at[Poll]) : snap[Poll][t] = db[t]
       /\ at[Poll] \in {"sync_teams", "publish"} => pool = db.backends
       /\ at[Poll] = "publish" => budgets = db.teams
  ELSE at[Poll] \in {"idle", "ok"} /\ InSync

\* Call a may have changed the tables or the memory, and has still to notify
\* the poll loop.  A toggled route that is gone was changed by its deleter.
Owed(a) ==
  \/ step[a] \in {"clean", "endpoints", "insert", "enable"}
  \/ step[a] = "reread" /\ db.routes[call[a].id] # NoRow
  \/ step[a] = "reload" /\ at[a] \notin {"ok", "loaded"}

Told ==
  \/ notified
  \/ PollFresh
  \/ at[Poll] = "idle" /\ ~pollOk
  \/ \E a \in Admins : Owed(a) \/ outcome[a] \in {"error", "gone", "dropped"}

\* The backends whose activation a call at "enable" is about.
Target(a) ==
  Refs(IF call[a].op = "toggle_route" THEN db.routes[call[a].id] ELSE call[a].row)

\* What a call that no other overlaps with has achieved at each step.
Cleaned(a) ==
  step[a] = "clean" =>
    \A m \in Models :
      IF m \in todo[a] THEN read[a][m] = db.routes[m]
      ELSE db.routes[m] # NoRow => call[a].id \notin Refs(db.routes[m])

Enabled(a) ==
  step[a] = "enable" =>
    \A b \in Target(a) \ todo[a] :
      db.backends[b] # NoRow => db.backends[b].enabled

Serial(a) ==
  alone[a] /\ step[a] \notin {"idle", "done"} =>
    /\ \A x \in Admins \ {a} : step[x] \in {"idle", "done"}
    /\ Cleaned(a) /\ Enabled(a)
    /\ step[a] = "reload" => InEffect(call[a])

IInv == Typed /\ Told /\ (\A a \in Admins : Serial(a))

(***************************************************************************)
(* What one step of a call does                                            *)
(***************************************************************************)

\* Where the step leads: to the reload, to the end, or to another statement.
Control(a) ==
  /\ step[a] \in Steps \ {"idle", "done"}
  /\ at[a] \in {"idle", "loaded", "failed"}
  /\ \/ /\ step' = [step EXCEPT ![a] = "reload"]
        /\ at' = [at EXCEPT ![a] = "backends"]
        /\ outcome' = outcome
     \/ /\ step' = [step EXCEPT ![a] = "done"]
        /\ at' = [at EXCEPT ![a] = "idle"]
        /\ \E r \in Outcomes \ {"none"} : outcome' = [outcome EXCEPT ![a] = r]
     \/ /\ \E s \in Steps \ {"idle", "reload", "done"} :
             step' = [step EXCEPT ![a] = s]
        /\ step[a] # "reload"
        /\ at' = at
        /\ outcome' = outcome

\* The tables stay well-formed, and no key is deleted.
Tables ==
  /\ db' \in Config
  /\ BridgesChat(db'.routes)
  /\ \A k \in Keys : db.keys[k] # NoRow => db'.keys[k] # NoRow
  /\ unborn' \subseteq unborn

\* The step touches nothing of the other calls, of the loads and the memory.
Local(a) ==
  /\ \E c \in Call : call' = [call EXCEPT ![a] = c]
  /\ \E r \in Rows(Models, RouteRow) : read' = [read EXCEPT ![a] = r]
  /\ \E s \in SUBSET (Models \cup Backends) : todo' = [todo EXCEPT ![a] = s]
  /\ UNCHANGED Rest

\* A step that changes a table leaves the poll loop to be notified, and a
\* call that owes it a word still does, or has failed.
Announced(a) ==
  /\ \/ db' = db
     \/ Owed(a)'
     \/ outcome'[a] \in {"error", "gone", "dropped"}
  /\ Owed(a) => Owed(a)' \/ outcome'[a] \in {"error", "gone", "dropped"}

\* A call that no other overlaps with advances towards its effect.
Advanced(a) ==
  alone[a] =>
    /\ Cleaned(a)' /\ Enabled(a)'
    /\ (step[a])' = "reload" => InEffect(call[a])'

Summary(a) ==
  /\ Control(a) /\ Tables /\ Local(a)
  /\ Serving(a)' /\ Validated(a)' /\ KeyMade(a)'
  /\ Announced(a)
  /\ Advanced(a)

\* What a parsed call carries.
LEMMA CallShape ==
  ASSUME NEW c \in Call
  PROVE  /\ c.op = "create_backend" => c.row \in BackendRow
         /\ c.op \in {"update_backend", "put_backend_key", "delete_backend"} =>
              c.id \in Backends
         /\ c.op = "update_backend" => c.set \in BackendPatch
         /\ c.op \in Saves => /\ c.name \in Models /\ c.row \in RouteForm
                              /\ c.endpoints \in EndpointForm
         /\ c.op = "upsert_route" => c.row \in RouteRow
         /\ c.op \in {"patch_route", "delete_route", "toggle_route"} =>
              c.id \in Models
         /\ c.op = "toggle_route" => c.enabled \in BOOLEAN
         /\ c.op \in {"insert", "update"} =>
              /\ c.set \in OnOff
              /\ \/ c.table = "teams" /\ c.id \in Teams
                 \/ c.table = "keys" /\ c.id \in Keys
<1>1. CASE c \in BackendCall
  BY <1>1 DEF BackendCall, Saves
<1>2. CASE c \in RouteCall
  BY <1>2 DEF RouteCall, Saves, RouteRow, RouteForm
<1>3. CASE c \in TableCall
  BY <1>3 DEF TableCall, Saves
<1> QED BY <1>1, <1>2, <1>3 DEF Call

\* Patching keeps a row a row.
LEMMA PatchedBackend ==
  ASSUME NEW row \in BackendRow
  PROVE  /\ \A set \in BackendPatch : Patched(row, set) \in BackendRow
         /\ Patched(row, [key |-> "file"]) \in BackendRow
         /\ Patched(row, [enabled |-> TRUE]) \in BackendRow
         /\ Patched(row, [enabled |-> TRUE]).enabled = TRUE
<1>1. \A set \in BackendPatch : Patched(row, set) \in BackendRow
  BY DEF BackendRow, BackendPatch, Patched
<1>2. /\ Patched(row, [key |-> "file"]) \in BackendRow
      /\ Patched(row, [enabled |-> TRUE]) \in BackendRow
  BY DEF BackendRow, Patched
<1>3. /\ "enabled" \in DOMAIN row
      /\ "enabled" \in DOMAIN [enabled |-> TRUE]
  BY DEF BackendRow
<1>4. Patched(row, [enabled |-> TRUE])["enabled"] = [enabled |-> TRUE]["enabled"]
  BY <1>3 DEF Patched
<1>5. Patched(row, [enabled |-> TRUE]).enabled = TRUE
  BY <1>4
<1> QED BY <1>1, <1>2, <1>5

\* A cleaned route keeps its bridge flag and its shape.
LEMMA PatchedRoute ==
  ASSUME NEW row \in RouteRow, NEW ids \in SUBSET Backends,
         NEW fallback \in Backends \cup {None}
  PROVE  LET new == Patched(row, [ids |-> ids, fallback |-> fallback,
                                  enabled |-> FALSE])
         IN /\ new \in RouteRow
            /\ new.ids = ids /\ new.fallback = fallback
            /\ new.bridge = row.bridge /\ new.shape = row.shape
BY DEF RouteRow, Patched

\* A patched team or key is a team or a key.
LEMMA PatchedOnOff ==
  ASSUME NEW row \in OnOff, NEW set \in OnOff
  PROVE  Patched(row, set) \in OnOff
BY DEF OnOff, Patched

\* What writing a row does to the tables.
LEMMA SetBackend ==
  ASSUME db \in Config, NEW b \in Backends, NEW r \in BackendRow \cup {NoRow},
         NEW es \in SUBSET (Models \X Backends)
  PROVE  /\ [db EXCEPT !.backends[b] = r] \in Config
         /\ [db EXCEPT !.backends[b] = r].routes = db.routes
         /\ [db EXCEPT !.backends[b] = r].keys = db.keys
         /\ [db EXCEPT !.backends[b] = r, !.endpoints = es] \in Config
         /\ [db EXCEPT !.backends[b] = r, !.endpoints = es].routes = db.routes
         /\ [db EXCEPT !.backends[b] = r, !.endpoints = es].keys = db.keys
BY DEF Config, Rows

\* Writing a team leaves the routes and the keys alone.
LEMMA SetTeam ==
  ASSUME db \in Config, NEW t \in Teams, NEW r \in OnOff
  PROVE  /\ [db EXCEPT !["teams"][t] = r] \in Config
         /\ [db EXCEPT !["teams"][t] = r].routes = db.routes
         /\ [db EXCEPT !["teams"][t] = r].keys = db.keys
BY DEF Config, Rows

\* Writing a key leaves the routes alone.
LEMMA SetKey ==
  ASSUME db \in Config, NEW k \in Keys, NEW r \in OnOff
  PROVE  /\ [db EXCEPT !["keys"][k] = r] \in Config
         /\ [db EXCEPT !["keys"][k] = r].routes = db.routes
         /\ [db EXCEPT !["keys"][k] = r].keys = [db.keys EXCEPT ![k] = r]
BY DEF Config, Rows

\* A route that is written keeps the routes well-formed when it is.
LEMMA ChatKept ==
  ASSUME NEW routes \in Rows(Models, RouteRow), BridgesChat(routes),
         NEW m \in Models, NEW r \in RouteRow \cup {NoRow},
         r # NoRow /\ r.bridge => r.shape = "chat"
  PROVE  BridgesChat([routes EXCEPT ![m] = r])
BY DEF BridgesChat, Rows

\* The flag of a form may be filled in.
LEMMA FlagFilled ==
  ASSUME NEW c \in Call, c.op = "patch_route", NEW flag \in BOOLEAN
  PROVE  /\ [c EXCEPT !.row.bridge = flag] \in Call
         /\ [c EXCEPT !.row.bridge = flag].op = "patch_route"
         /\ [c EXCEPT !.row.bridge = flag].row \in RouteRow
<1>1. c \in [op : {"patch_route"}, id : Models, name : Models, row : RouteForm,
             endpoints : EndpointForm]
  BY DEF Call, BackendCall, RouteCall, TableCall
<1>2. [c.row EXCEPT !.bridge = flag] \in RouteRow \cap RouteForm
  BY <1>1 DEF RouteForm, RouteRow
<1>3. /\ [c EXCEPT !.row = [c.row EXCEPT !.bridge = flag]]
           \in [op : {"patch_route"}, id : Models, name : Models, row : RouteForm,
               endpoints : EndpointForm]
      /\ [c EXCEPT !.row.bridge = flag].row = [c.row EXCEPT !.bridge = flag]
  BY <1>1, <1>2
<1> QED BY <1>1, <1>2, <1>3 DEF Call, RouteCall

\* What is known of a call that is under way.
LEMMA UnderWay ==
  ASSUME Typed, NEW a \in Admins, step[a] # "idle"
  PROVE  /\ call[a] \in Call /\ call \in [Admins -> {Idle} \cup Call]
         /\ step \in [Admins -> Steps] /\ outcome \in [Admins -> Outcomes]
         /\ read \in [Admins -> Rows(Models, RouteRow)]
         /\ todo \in [Admins -> SUBSET (Models \cup Backends)]
         /\ at \in [Loaders -> Labels] /\ a \in Loaders /\ a # Poll
         /\ db \in Config /\ BridgesChat(db.routes)
         /\ (at[a] # "idle") = (step[a] = "reload")
         /\ (step[a] = "done") = (outcome[a] # "none")
BY ReloadAssumptions
   DEF Typed, TypeOK, TasksOK, LoadsOK, Serving, BridgeRoutesChat, Loaders

\* Most steps change neither the call nor what it has read.
LEMMA LocalStep ==
  ASSUME Typed, NEW a \in Admins, step[a] # "idle",
         UNCHANGED <<call, read>>, UNCHANGED Rest,
         \/ UNCHANGED todo
         \/ \E s \in SUBSET (Models \cup Backends) : todo' = [todo EXCEPT ![a] = s]
  PROVE  Local(a)
<1>1. /\ call[a] \in Call /\ call = [call EXCEPT ![a] = call[a]]
      /\ read[a] \in Rows(Models, RouteRow) /\ read = [read EXCEPT ![a] = read[a]]
      /\ todo[a] \in SUBSET (Models \cup Backends)
      /\ todo = [todo EXCEPT ![a] = todo[a]]
  BY UnderWay
<1> QED BY <1>1 DEF Local

\* Many do not change the tables.
LEMMA SameTables ==
  ASSUME Typed, UNCHANGED <<db, unborn>>
  PROVE  Tables
BY DEF Typed, TypeOK, BridgeRoutesChat, Tables

\* Where nothing but backends, endpoints or teams change, the routes and the
\* keys are as good as before.
LEMMA SameRoutes ==
  ASSUME Typed, db' \in Config, db'.routes = db.routes, db'.keys = db.keys,
         unborn' \subseteq unborn
  PROVE  Tables
BY DEF Typed, TypeOK, BridgeRoutesChat, Tables

(***************************************************************************)
(* The calls, step by step                                                 *)
(***************************************************************************)

\* A statement that fails ends the call with an error.
LEMMA StatementFailsStep ==
  ASSUME IInv, NEW a \in Admins, StatementFails(a)
  PROVE  Summary(a)
<1> USE DEF End, To
<1>1. Typed /\ step[a] # "idle"
  BY DEF StatementFails, IInv
<1>2. Control(a)
  BY <1>1, UnderWay DEF StatementFails, Control, Steps, Outcomes
<1>3. Tables /\ Local(a)
  BY <1>1, SameTables, LocalStep DEF StatementFails
<1>4. Serving(a)' /\ Validated(a)' /\ KeyMade(a)'
  BY <1>1, UnderWay DEF StatementFails, Serving, Validated, KeyMade
<1>5. Announced(a) /\ Advanced(a)
  BY <1>1, UnderWay DEF StatementFails, Announced, Advanced, Cleaned, Enabled
<1> QED BY <1>2, <1>3, <1>4, <1>5 DEF Summary

\* create_backend inserts a row with a new id.
LEMMA CreateBackendStep ==
  ASSUME IInv, NEW a \in Admins, CreateBackend(a)
  PROVE  Summary(a)
<1> USE DEF Reload, To, In, BeginLoad, Goto
<1>1. Typed /\ step[a] # "idle"
  BY DEF CreateBackend, IInv
<1>2. Control(a)
  BY <1>1, UnderWay DEF CreateBackend, Control, Steps
<1>3. Tables
  <2>1. PICK b \in unborn : /\ db' = [db EXCEPT !.backends[b] = call[a].row]
                            /\ unborn' = unborn \ {b}
    BY DEF CreateBackend
  <2>2. b \in Backends /\ call[a].row \in BackendRow /\ db \in Config
    BY <1>1, UnderWay, CallShape, AdminAssumptions DEF CreateBackend, Typed, TypeOK
  <2> QED BY <1>1, <2>1, <2>2, SetBackend, SameRoutes
<1>4. Local(a)
  BY <1>1, LocalStep DEF CreateBackend
<1>5. Serving(a)' /\ Validated(a)' /\ KeyMade(a)'
  BY <1>1, UnderWay DEF CreateBackend, Serving, Validated, KeyMade, Saves
<1>6. Announced(a) /\ Advanced(a)
  BY <1>1, UnderWay
     DEF CreateBackend, Announced, Owed, Advanced, Cleaned, Enabled, InEffect
<1> QED BY <1>2, <1>3, <1>4, <1>5, <1>6 DEF Summary

\* update_backend patches the row, if there is one.
LEMMA UpdateBackendStep ==
  ASSUME IInv, NEW a \in Admins, UpdateBackend(a)
  PROVE  Summary(a)
<1> USE DEF End, Reload, To, In, BeginLoad, Goto
<1>1. Typed /\ step[a] # "idle"
  BY DEF UpdateBackend, IInv
<1>2. Control(a)
  BY <1>1, UnderWay DEF UpdateBackend, Control, Steps, Outcomes
<1>3. Tables
  <2> DEFINE b == call[a].id
             new == Patched(db.backends[b], call[a].set)
  <2>1. b \in Backends /\ call[a].set \in BackendPatch /\ db \in Config
    BY <1>1, UnderWay, CallShape DEF UpdateBackend
  <2>2. CASE db.backends[b] = NoRow
    BY <1>1, <2>2, SameTables DEF UpdateBackend
  <2>3. CASE db.backends[b] # NoRow
    <3>1. db.backends[b] \in BackendRow
      BY <2>1, <2>3 DEF Config, Rows
    <3>2. new \in BackendRow /\ db' = [db EXCEPT !.backends[b] = new]
      BY <2>1, <2>3, <3>1, PatchedBackend DEF UpdateBackend
    <3>3. unborn' = unborn
      BY DEF UpdateBackend
    <3> QED BY <1>1, <2>1, <3>2, <3>3, SetBackend, SameRoutes
  <2> QED BY <2>2, <2>3
<1>4. Local(a)
  BY <1>1, LocalStep DEF UpdateBackend
<1>5. Serving(a)' /\ Validated(a)' /\ KeyMade(a)'
  BY <1>1, UnderWay DEF UpdateBackend, Serving, Validated, KeyMade, Saves
<1>6. Announced(a) /\ Advanced(a)
  BY <1>1, UnderWay
     DEF UpdateBackend, Announced, Owed, Advanced, Cleaned, Enabled, InEffect
<1> QED BY <1>2, <1>3, <1>4, <1>5, <1>6 DEF Summary

\* put_backend_key looks the row up.
LEMMA FindBackendStep ==
  ASSUME IInv, NEW a \in Admins, FindBackend(a)
  PROVE  Summary(a)
<1> USE DEF End, Continue, To, In
<1>1. Typed /\ step[a] # "idle"
  BY DEF FindBackend, IInv
<1>2. Control(a)
  BY <1>1, UnderWay DEF FindBackend, Control, Steps, Outcomes
<1>3. Tables /\ Local(a)
  BY <1>1, SameTables, LocalStep DEF FindBackend
<1>4. Serving(a)' /\ Validated(a)' /\ KeyMade(a)'
  BY <1>1, UnderWay DEF FindBackend, Serving, Validated, KeyMade, Saves
<1>5. Announced(a) /\ Advanced(a)
  BY <1>1, UnderWay DEF FindBackend, Announced, Owed, Advanced, Cleaned, Enabled
<1> QED BY <1>2, <1>3, <1>4, <1>5 DEF Summary

\* put_backend_key updates the row, which may be gone.
LEMMA PutBackendKeyStep ==
  ASSUME IInv, NEW a \in Admins, PutBackendKey(a)
  PROVE  Summary(a)
<1> USE DEF Reload, To, In, BeginLoad, Goto
<1>1. Typed /\ step[a] # "idle"
  BY DEF PutBackendKey, IInv
<1>2. Control(a)
  BY <1>1, UnderWay DEF PutBackendKey, Control, Steps
<1>3. Tables
  <2> DEFINE b == call[a].id
             new == IF db.backends[b] = NoRow THEN NoRow
                    ELSE Patched(db.backends[b], [key |-> "file"])
  <2>1. b \in Backends /\ db \in Config
    BY <1>1, UnderWay, CallShape DEF PutBackendKey
  <2>2. db.backends[b] \in BackendRow \cup {NoRow}
    BY <2>1 DEF Config, Rows
  <2>3. new \in BackendRow \cup {NoRow}
    BY <2>2, PatchedBackend
  <2>4. db' = [db EXCEPT !.backends[b] = new] /\ unborn' = unborn
    BY DEF PutBackendKey
  <2> QED BY <1>1, <2>1, <2>3, <2>4, SetBackend, SameRoutes
<1>4. Local(a)
  BY <1>1, LocalStep DEF PutBackendKey
<1>5. Serving(a)' /\ Validated(a)' /\ KeyMade(a)'
  BY <1>1, UnderWay DEF PutBackendKey, Serving, Validated, KeyMade, Saves
<1>6. Announced(a) /\ Advanced(a)
  BY <1>1, UnderWay
     DEF PutBackendKey, Announced, Owed, Advanced, Cleaned, Enabled, InEffect
<1> QED BY <1>2, <1>3, <1>4, <1>5, <1>6 DEF Summary

\* The usage check changes nothing.
LEMMA CheckUsageStep ==
  ASSUME IInv, NEW a \in Admins, CheckUsage(a)
  PROVE  Summary(a)
<1> USE DEF End, Continue, To, In
<1>1. Typed /\ step[a] # "idle"
  BY DEF CheckUsage, IInv
<1>2. Control(a)
  BY <1>1, UnderWay DEF CheckUsage, Control, Steps, Outcomes
<1>3. Tables /\ Local(a)
  BY <1>1, SameTables, LocalStep DEF CheckUsage
<1>4. Serving(a)' /\ Validated(a)' /\ KeyMade(a)'
  BY <1>1, UnderWay DEF CheckUsage, Serving, Validated, KeyMade, Saves
<1>5. Announced(a) /\ Advanced(a)
  BY <1>1, UnderWay DEF CheckUsage, Announced, Owed, Advanced, Cleaned, Enabled
<1> QED BY <1>2, <1>3, <1>4, <1>5 DEF Summary

\* The routes that are to be cleaned are those that refer to the backend.
LEMMA FindRoutesStep ==
  ASSUME IInv, NEW a \in Admins, FindRoutes(a)
  PROVE  Summary(a)
<1> USE DEF End, Continue, To, In
<1> DEFINE using == {m \in Models : /\ db.routes[m] # NoRow
                                    /\ call[a].id \in Refs(db.routes[m])}
<1>1. Typed /\ step[a] # "idle"
  BY DEF FindRoutes, IInv
<1>2. Control(a)
  BY <1>1, UnderWay DEF FindRoutes, Control, Steps, Outcomes
<1>3. Tables
  BY <1>1, SameTables DEF FindRoutes
<1>4. Local(a)
  <2>1. CASE UNCHANGED <<read, todo>>
    BY <1>1, <2>1, LocalStep DEF FindRoutes
  <2>2. CASE /\ read' = [read EXCEPT ![a] = db.routes]
             /\ todo' = [todo EXCEPT ![a] = using]
    <3>1. /\ db.routes \in Rows(Models, RouteRow)
          /\ using \in SUBSET (Models \cup Backends)
      BY <1>1, UnderWay DEF Config
    <3>2. call[a] \in Call /\ call' = [call EXCEPT ![a] = call[a]]
      BY <1>1, UnderWay DEF FindRoutes
    <3>3. UNCHANGED Rest
      BY DEF FindRoutes
    <3> QED BY <2>2, <3>1, <3>2, <3>3 DEF Local
  <2> QED BY <2>1, <2>2 DEF FindRoutes
<1>5. Serving(a)' /\ Validated(a)' /\ KeyMade(a)'
  BY <1>1, UnderWay DEF FindRoutes, Serving, Validated, KeyMade, Saves
<1>6. Announced(a) /\ Advanced(a)
  BY <1>1, UnderWay DEF FindRoutes, Announced, Owed, Advanced, Cleaned, Enabled
<1> QED BY <1>2, <1>3, <1>4, <1>5, <1>6 DEF Summary

\* What is left of a route does not refer to the backend.
LEMMA WithoutRow ==
  ASSUME NEW row \in RouteRow, NEW b
  PROVE  /\ Without(row, b) \in RouteRow
         /\ b \notin Refs(Without(row, b))
BY DEF RouteRow, Without, Refs

\* Cleaning a route: it is gone, or does not refer to the backend any more.
LEMMA CleanedRoute ==
  ASSUME Typed, NEW a \in Admins, NEW m \in Models, CleanRoute(a, m)
  PROVE  \/ db' = db /\ db.routes[m] = NoRow
         \/ \E r \in RouteRow \cup {NoRow}, es \in SUBSET (Models \X Backends) :
              /\ \/ db' = [db EXCEPT !.routes[m] = r, !.endpoints = es]
                 \/ db' = [db EXCEPT !.routes[m] = r]
              /\ r # NoRow => /\ call[a].id \notin Refs(r)
                              /\ r.bridge => r.shape = "chat"
<1> DEFINE left == Without(read[a][m], call[a].id)
<1>1. /\ read[a][m] \in RouteRow
      /\ db \in Config /\ BridgesChat(db.routes)
  BY UnderWay DEF CleanRoute, In, Typed, Serving, Rows
<1>2. left \in RouteRow /\ call[a].id \notin Refs(left)
  BY <1>1, WithoutRow
<1>3. CASE Refs(left) = {}
  <2>1. db' = [db EXCEPT !.routes[m] = NoRow,
                         !.endpoints = db.endpoints \ ({m} \X Backends)]
    BY <1>3 DEF CleanRoute
  <2>2. db.endpoints \ ({m} \X Backends) \in SUBSET (Models \X Backends)
    BY <1>1 DEF Config
  <2> QED BY <2>1, <2>2
<1>4. CASE Refs(left) # {} /\ db.routes[m] # NoRow
  <2> DEFINE new == Patched(db.routes[m], [ids |-> left.ids,
                      fallback |-> left.fallback, enabled |-> FALSE])
  <2>1. db' = [db EXCEPT !.routes[m] = new]
    BY <1>4 DEF CleanRoute
  <2>2. /\ db.routes[m] \in RouteRow
        /\ db.routes[m].bridge => db.routes[m].shape = "chat"
    BY <1>1, <1>4 DEF Config, Rows, BridgesChat
  <2>3. left.ids \in SUBSET Backends /\ left.fallback \in Backends \cup {None}
    BY <1>2 DEF RouteRow
  <2>4. /\ new \in RouteRow
        /\ new.ids = left.ids /\ new.fallback = left.fallback
        /\ new.bridge = db.routes[m].bridge /\ new.shape = db.routes[m].shape
    BY <2>2, <2>3, PatchedRoute
  <2>5. call[a].id \notin Refs(new) /\ (new.bridge => new.shape = "chat")
    BY <1>2, <2>2, <2>4 DEF Refs
  <2>6. db.endpoints \in SUBSET (Models \X Backends)
    BY <1>1 DEF Config
  <2> QED BY <2>1, <2>4, <2>5, <2>6
<1>5. CASE Refs(left) # {} /\ db.routes[m] = NoRow
  BY <1>5 DEF CleanRoute
<1> QED BY <1>3, <1>4, <1>5

\* A disabled route is cleaned of the backend.
LEMMA CleanRouteStep ==
  ASSUME IInv, NEW a \in Admins, NEW m \in Models, CleanRoute(a, m)
  PROVE  Summary(a)
<1> USE DEF In
<1>1. Typed /\ step[a] # "idle" /\ Serial(a)
  BY DEF CleanRoute, IInv
<1>2. Control(a)
  BY <1>1, UnderWay DEF CleanRoute, Control, Steps
<1>3. /\ db \in Config /\ db.routes \in Rows(Models, RouteRow)
      /\ BridgesChat(db.routes) /\ unborn' = unborn
      /\ call' = call /\ step' = step /\ read' = read
      /\ todo' = [todo EXCEPT ![a] = @ \ {m}]
      /\ todo \in [Admins -> SUBSET (Models \cup Backends)]
      /\ step[a] = "clean"
  BY <1>1, UnderWay DEF CleanRoute, Config
<1>4. ASSUME db' = db, db.routes[m] = NoRow
      PROVE  Tables /\ Advanced(a)
  <2>1. Tables
    BY <1>1, <1>3, <1>4, SameTables
  <2>2. Advanced(a)
    <3>1. ASSUME alone[a] PROVE Cleaned(a)'
      <4>1. Cleaned(a)
        BY <1>1, <1>3, <3>1 DEF Serial
      <4>2. (todo[a])' = todo[a] \ {m}
        BY <1>3
      <4> QED BY <1>3, <1>4, <4>1, <4>2 DEF Cleaned
    <3> QED BY <1>3, <3>1 DEF Advanced, Enabled
  <2> QED BY <2>1, <2>2
<1>5. ASSUME NEW r \in RouteRow \cup {NoRow},
             NEW es \in SUBSET (Models \X Backends),
             \/ db' = [db EXCEPT !.routes[m] = r, !.endpoints = es]
             \/ db' = [db EXCEPT !.routes[m] = r],
             r # NoRow => /\ call[a].id \notin Refs(r)
                          /\ r.bridge => r.shape = "chat"
      PROVE  Tables /\ Advanced(a)
  <2>1. /\ db' \in Config /\ db'.keys = db.keys
        /\ db'.routes = [db.routes EXCEPT ![m] = r]
    <3>1. CASE db' = [db EXCEPT !.routes[m] = r]
      BY <1>3, <3>1 DEF Config, Rows
    <3>2. CASE db' = [db EXCEPT !.routes[m] = r, !.endpoints = es]
      BY <1>3, <3>2 DEF Config, Rows
    <3> QED BY <1>5, <3>1, <3>2
  <2>2. Tables
    BY <1>3, <1>5, <2>1, ChatKept DEF Tables
  <2>3. Advanced(a)
    BY <1>1, <1>3, <1>5, <2>1 DEF Advanced, Cleaned, Enabled, Serial, Rows
  <2> QED BY <2>2, <2>3
<1>6. Tables /\ Advanced(a)
  <2>1. CASE db' = db /\ db.routes[m] = NoRow
    BY <1>4, <2>1
  <2>2. CASE ~(db' = db /\ db.routes[m] = NoRow)
    <3>1. PICK r \in RouteRow \cup {NoRow}, es \in SUBSET (Models \X Backends) :
            /\ \/ db' = [db EXCEPT !.routes[m] = r, !.endpoints = es]
               \/ db' = [db EXCEPT !.routes[m] = r]
            /\ r # NoRow => /\ call[a].id \notin Refs(r)
                            /\ r.bridge => r.shape = "chat"
      BY <1>1, <2>2, CleanedRoute, Zenon
    <3> QED BY <1>5, <3>1
  <2> QED BY <2>1, <2>2
<1>7. Local(a)
  BY <1>1, <1>3, LocalStep DEF CleanRoute
<1>8. Serving(a)' /\ Validated(a)' /\ KeyMade(a)'
  BY <1>1, <1>3 DEF CleanRoute, Typed, Serving, Validated, KeyMade, Saves
<1>9. Announced(a)
  BY <1>3 DEF Announced, Owed
<1> QED BY <1>2, <1>6, <1>7, <1>8, <1>9 DEF Summary

\* delete_backend: when nothing is left to clean, no route refers to the backend.
LEMMA DeleteBackendStep ==
  ASSUME IInv, NEW a \in Admins, DeleteBackend(a)
  PROVE  Summary(a)
<1> USE DEF End, Reload, To, In, BeginLoad, Goto
<1> DEFINE b == call[a].id
           es == db.endpoints \ (Models \X {b})
<1>1. Typed /\ step[a] # "idle" /\ Serial(a)
  BY DEF DeleteBackend, IInv
<1>2. Control(a)
  BY <1>1, UnderWay DEF DeleteBackend, Control, Steps, Outcomes
<1>3. \/ db' = db /\ (step[a])' = "done"
      \/ db' = [db EXCEPT !.backends[b] = NoRow, !.endpoints = es]
  BY <1>1, UnderWay DEF DeleteBackend
<1>4. /\ db \in Config /\ b \in Backends /\ es \in SUBSET (Models \X Backends)
      /\ unborn' = unborn
  BY <1>1, UnderWay, CallShape DEF DeleteBackend, Config
<1>5. db' \in Config /\ db'.routes = db.routes /\ db'.keys = db.keys
  <2> HIDE DEF es
  <2>1. db' = db => /\ db' \in Config /\ db'.routes = db.routes
                    /\ db'.keys = db.keys
    BY <1>4
  <2>2. CASE db' = [db EXCEPT !.backends[b] = NoRow, !.endpoints = es]
    BY <1>4, <2>2 DEF Config, Rows
  <2> QED BY <1>3, <2>1, <2>2
<1>6. Tables
  BY <1>1, <1>4, <1>5, SameRoutes
<1>7. Local(a)
  BY <1>1, LocalStep DEF DeleteBackend
<1>8. Serving(a)' /\ Validated(a)' /\ KeyMade(a)'
  BY <1>1, UnderWay DEF DeleteBackend, Serving, Validated, KeyMade, Saves
<1>9. Announced(a)
  BY <1>1, UnderWay DEF DeleteBackend, Announced, Owed
<1>10. Advanced(a)
  BY <1>1, <1>5, UnderWay
     DEF DeleteBackend, Advanced, Cleaned, Enabled, InEffect, Serial
<1> QED BY <1>2, <1>6, <1>7, <1>8, <1>9, <1>10 DEF Summary

\* A well-formed route refers to backends.
LEMMA RefsAreBackends ==
  ASSUME NEW row \in RouteRow
  PROVE  Refs(row) \in SUBSET (Models \cup Backends)
BY DEF RouteRow, Refs

\* upsert_route validates what it is about to write.
LEMMA CheckNameStep ==
  ASSUME IInv, NEW a \in Admins, CheckName(a)
  PROVE  Summary(a)
<1> USE DEF End, Continue, To, In
<1>1. Typed /\ step[a] # "idle"
  BY DEF CheckName, IInv
<1>2. Control(a)
  BY <1>1, UnderWay DEF CheckName, Control, Steps, Outcomes
<1>3. Tables /\ Local(a)
  BY <1>1, SameTables, LocalStep DEF CheckName
<1>4. Serving(a)' /\ KeyMade(a)'
  BY <1>1, UnderWay DEF CheckName, Serving, KeyMade, Saves
<1>5. Validated(a)'
  <2>1. call[a].row \in RouteRow /\ call' = call
    BY <1>1, UnderWay, CallShape DEF CheckName
  <2>2. CASE ValidRoute(call[a])
    BY <2>1, <2>2 DEF ValidRoute, Validated, BridgeIsChat
  <2>3. CASE ~ValidRoute(call[a])
    BY <1>1, <2>3, UnderWay DEF CheckName, Validated
  <2> QED BY <2>2, <2>3
<1>6. Announced(a) /\ Advanced(a)
  BY <1>1, UnderWay DEF CheckName, Announced, Owed, Advanced, Cleaned, Enabled
<1> QED BY <1>2, <1>3, <1>4, <1>5, <1>6 DEF Summary

\* patch_route validates the flag it keeps.
LEMMA KeepFlagStep ==
  ASSUME IInv, NEW a \in Admins, KeepFlag(a)
  PROVE  Summary(a)
<1> USE DEF End, Continue, To, In
<1> DEFINE old == db.routes[call[a].id]
           flag == IF call[a].row.bridge # None THEN call[a].row.bridge
                   ELSE old # NoRow /\ old.bridge
           p == [call[a] EXCEPT !.row.bridge = flag]
<1>1. Typed /\ step[a] = "check" /\ call[a].op = "patch_route"
  BY DEF KeepFlag, IInv
<1>2. flag \in BOOLEAN
  <2>1. call[a].row \in RouteForm /\ old \in RouteRow \cup {NoRow}
    BY <1>1, UnderWay, CallShape DEF Config, Rows, Saves
  <2>2. call[a].row.bridge \in BOOLEAN \cup {None}
    BY <2>1 DEF RouteForm
  <2>3. (old # NoRow /\ old.bridge) \in BOOLEAN
    OBVIOUS
  <2> QED BY <2>2, <2>3
<1>3. p \in Call /\ p.op = "patch_route" /\ p.row \in RouteRow
  <2> HIDE DEF flag
  <2> QED BY <1>1, <1>2, UnderWay, FlagFilled
<1>4. /\ call' = [call EXCEPT ![a] = p]
      /\ IF ValidRoute(p) THEN Continue(a, IF p.row.bridge THEN "bridge" ELSE "rename")
                          ELSE End(a, "refused")
      /\ UNCHANGED <<db, read, todo, unborn>> /\ UNCHANGED Rest
  BY DEF KeepFlag
<1> HIDE DEF p
<1>5. (call[a])' = p
  BY <1>1, <1>4, UnderWay
<1>6. Control(a)
  BY <1>1, <1>4, UnderWay DEF Control, Steps, Outcomes
<1>7. Tables
  BY <1>1, <1>4, SameTables
<1>8. Local(a)
  <2>1. /\ read[a] \in Rows(Models, RouteRow) /\ read' = [read EXCEPT ![a] = read[a]]
        /\ todo[a] \in SUBSET (Models \cup Backends)
        /\ todo' = [todo EXCEPT ![a] = todo[a]]
    BY <1>1, <1>4, UnderWay
  <2> QED BY <1>3, <1>4, <2>1 DEF Local
<1>9. Serving(a)' /\ KeyMade(a)'
  BY <1>1, <1>3, <1>4, <1>5, UnderWay DEF Serving, KeyMade, Saves
<1>10. Validated(a)'
  <2>1. CASE ValidRoute(p)
    BY <1>3, <1>5, <2>1 DEF Validated, ValidRoute, BridgeIsChat
  <2>2. CASE ~ValidRoute(p)
    BY <1>1, <1>4, <2>2, UnderWay DEF Validated
  <2> QED BY <2>1, <2>2
<1>11. Announced(a) /\ Advanced(a)
  BY <1>1, <1>4, UnderWay DEF Announced, Owed, Advanced, Cleaned, Enabled
<1> QED BY <1>6, <1>7, <1>8, <1>9, <1>10, <1>11 DEF Summary

\* The check of the backends keeps a validated route validated.
LEMMA CheckBridgeStep ==
  ASSUME IInv, NEW a \in Admins, CheckBridge(a)
  PROVE  Summary(a)
<1> USE DEF End, Continue, To, In
<1>1. Typed /\ step[a] # "idle"
  BY DEF CheckBridge, IInv
<1>2. Control(a)
  BY <1>1, UnderWay DEF CheckBridge, Control, Steps, Outcomes
<1>3. Tables /\ Local(a)
  BY <1>1, SameTables, LocalStep DEF CheckBridge
<1>4. Serving(a)' /\ KeyMade(a)'
  BY <1>1, UnderWay DEF CheckBridge, Serving, KeyMade, Saves
<1>5. Validated(a)'
  BY <1>1 DEF CheckBridge, Typed, Validated, BridgeIsChat, Saves
<1>6. Announced(a) /\ Advanced(a)
  BY <1>1, UnderWay DEF CheckBridge, Announced, Owed, Advanced, Cleaned, Enabled
<1> QED BY <1>2, <1>3, <1>4, <1>5, <1>6 DEF Summary

\* So does the check of the new name.
LEMMA CheckRenameStep ==
  ASSUME IInv, NEW a \in Admins, CheckRename(a)
  PROVE  Summary(a)
<1> USE DEF End, Continue, To, In
<1>1. Typed /\ step[a] # "idle"
  BY DEF CheckRename, IInv
<1>2. Control(a)
  BY <1>1, UnderWay DEF CheckRename, Control, Steps, Outcomes
<1>3. Tables /\ Local(a)
  BY <1>1, SameTables, LocalStep DEF CheckRename
<1>4. Serving(a)' /\ KeyMade(a)'
  BY <1>1, UnderWay DEF CheckRename, Serving, KeyMade, Saves
<1>5. Validated(a)'
  BY <1>1 DEF CheckRename, Typed, Validated, BridgeIsChat, Saves
<1>6. Announced(a) /\ Advanced(a)
  BY <1>1, UnderWay DEF CheckRename, Announced, Owed, Advanced, Cleaned, Enabled
<1> QED BY <1>2, <1>3, <1>4, <1>5, <1>6 DEF Summary

\* What follows the write of a route.
LEMMA AfterWriteStep ==
  ASSUME Typed, NEW a \in Admins, step[a] = "write", call[a].op \in Saves,
         AfterWrite(a), UNCHANGED <<call, read>>, UNCHANGED Rest
  PROVE  /\ Control(a) /\ Local(a)
         /\ Serving(a)' /\ Validated(a)' /\ KeyMade(a)'
         /\ Owed(a)' /\ Advanced(a)
<1> USE DEF Reload, Continue, To, BeginLoad, Goto
<1>1. call[a].row \in RouteRow /\ BridgeIsChat(call[a])
  BY DEF Typed, Validated
<1>2. Refs(call[a].row) \in SUBSET (Models \cup Backends)
  BY <1>1, RefsAreBackends
<1>3. Control(a)
  BY UnderWay DEF AfterWrite, Control, Steps
<1>4. Local(a)
  BY <1>2, LocalStep DEF AfterWrite
<1>5. Serving(a)' /\ Validated(a)' /\ KeyMade(a)'
  BY <1>1, UnderWay DEF AfterWrite, Serving, Validated, KeyMade, BridgeIsChat, Saves
<1>6. Owed(a)'
  BY UnderWay DEF AfterWrite, Owed
<1>7. CASE call[a].endpoints # None
  BY <1>3, <1>4, <1>5, <1>6, <1>7, UnderWay DEF AfterWrite, Advanced, Cleaned, Enabled
<1>8. CASE call[a].endpoints = None /\ call[a].row.enabled
  <2>1. step' = [step EXCEPT ![a] = "enable"]
        /\ todo' = [todo EXCEPT ![a] = Refs(call[a].row)]
    BY <1>8 DEF AfterWrite
  <2>2. (Target(a))' = Refs(call[a].row)
    BY DEF Target, Saves
  <2> QED BY <1>3, <1>4, <1>5, <1>6, <2>1, <2>2, UnderWay DEF Advanced, Cleaned, Enabled
<1>9. CASE call[a].endpoints = None /\ ~call[a].row.enabled
  <2>1. step' = [step EXCEPT ![a] = "reload"]
    BY <1>9 DEF AfterWrite
  <2>2. InEffect(call[a])'
    BY <1>9 DEF InEffect, Saves
  <2> QED BY <1>3, <1>4, <1>5, <1>6, <2>1, <2>2, UnderWay DEF Advanced, Cleaned, Enabled
<1> QED BY <1>7, <1>8, <1>9

\* upsert_route writes a validated route, or the name is taken.
LEMMA InsertRouteStep ==
  ASSUME IInv, NEW a \in Admins, InsertRoute(a)
  PROVE  Summary(a)
<1> USE DEF End, To, In
<1> DEFINE name == call[a].name
<1>1. /\ Typed /\ step[a] = "write" /\ call[a].op = "upsert_route"
      /\ UNCHANGED <<call, read, unborn>> /\ UNCHANGED Rest
  BY DEF InsertRoute, IInv
<1>2. CASE db.routes[name] # NoRow
  <2>1. UNCHANGED <<db, todo>> /\ End(a, "error")
    BY <1>2 DEF InsertRoute
  <2>2. Tables /\ Local(a)
    BY <1>1, <2>1, SameTables, LocalStep
  <2>3. Control(a) /\ Serving(a)' /\ Validated(a)' /\ KeyMade(a)'
    BY <1>1, <2>1, UnderWay
       DEF Control, Steps, Outcomes, Serving, Validated, KeyMade
  <2>4. Announced(a) /\ Advanced(a)
    BY <1>1, <2>1, UnderWay DEF Announced, Advanced, Cleaned, Enabled
  <2> QED BY <2>2, <2>3, <2>4 DEF Summary
<1>3. CASE db.routes[name] = NoRow
  <2>1. db' = [db EXCEPT !.routes[name] = call[a].row] /\ AfterWrite(a)
    BY <1>3 DEF InsertRoute
  <2>2. /\ name \in Models /\ db \in Config
        /\ call[a].row \in RouteRow /\ BridgeIsChat(call[a])
        /\ BridgesChat(db.routes) /\ db.routes \in Rows(Models, RouteRow)
    BY <1>1, UnderWay, CallShape DEF Typed, Validated, Saves, Config
  <2>3. /\ db' \in Config /\ db'.keys = db.keys
        /\ db'.routes = [db.routes EXCEPT ![name] = call[a].row]
    BY <2>1, <2>2 DEF Config, Rows
  <2>4. Tables
    BY <1>1, <2>2, <2>3, ChatKept DEF Tables, BridgeIsChat
  <2>5. Announced(a)
    BY <1>1, <2>1, AfterWriteStep DEF Announced, Saves
  <2> QED BY <1>1, <2>1, <2>4, <2>5, AfterWriteStep DEF Summary, Saves
<1> QED BY <1>2, <1>3

\* The old name is given up in the statement that takes the new one.
LEMMA UpdateRouteStep ==
  ASSUME IInv, NEW a \in Admins, UpdateRoute(a)
  PROVE  Summary(a)
<1> USE DEF End, To, In
<1> DEFINE old == call[a].id
           new == call[a].name
           moved == [db.routes EXCEPT ![old] = NoRow, ![new] = call[a].row]
<1>1. /\ Typed /\ step[a] = "write" /\ call[a].op = "patch_route"
      /\ UNCHANGED <<call, read, unborn>> /\ UNCHANGED Rest
  BY DEF UpdateRoute, IInv
<1>2. CASE \E r \in {"refused", "error"} : End(a, r) /\ UNCHANGED <<db, todo>>
  <2>1. PICK r \in {"refused", "error"} : End(a, r) /\ UNCHANGED <<db, todo>>
    BY <1>2
  <2>2. Tables /\ Local(a)
    BY <1>1, <2>1, SameTables, LocalStep
  <2>3. Control(a) /\ Serving(a)' /\ Validated(a)' /\ KeyMade(a)'
    BY <1>1, <2>1, UnderWay
       DEF Control, Steps, Outcomes, Serving, Validated, KeyMade
  <2>4. Announced(a) /\ Advanced(a)
    BY <1>1, <2>1, UnderWay DEF Announced, Owed, Advanced, Cleaned, Enabled
  <2> QED BY <2>2, <2>3, <2>4 DEF Summary
<1>3. CASE db' = [db EXCEPT !.routes = moved] /\ AfterWrite(a)
  <2>1. /\ old \in Models /\ new \in Models /\ db \in Config
        /\ call[a].row \in RouteRow /\ BridgeIsChat(call[a])
        /\ BridgesChat(db.routes) /\ db.routes \in Rows(Models, RouteRow)
    BY <1>1, UnderWay, CallShape DEF Typed, Validated, Saves, Config
  <2>2. moved \in Rows(Models, RouteRow) /\ BridgesChat(moved)
    BY <2>1 DEF BridgesChat, BridgeIsChat, Rows
  <2>3. db' \in Config /\ db'.keys = db.keys /\ db'.routes = moved
    <3> HIDE DEF moved
    <3> QED BY <1>3, <2>1, <2>2 DEF Config
  <2>4. Tables
    BY <1>1, <2>2, <2>3 DEF Tables
  <2>5. Announced(a)
    BY <1>1, <1>3, AfterWriteStep DEF Announced, Saves
  <2> QED BY <1>1, <1>3, <2>4, <2>5, AfterWriteStep DEF Summary, Saves
<1>4. \/ \E r \in {"refused", "error"} : End(a, r) /\ UNCHANGED <<db, todo>>
      \/ db' = [db EXCEPT !.routes = moved] /\ AfterWrite(a)
  <2> HIDE DEF End
  <2> QED BY DEF UpdateRoute
<1> QED BY <1>2, <1>3, <1>4

\* The endpoints of the route are deleted ...
LEMMA DeleteEndpointsStep ==
  ASSUME IInv, NEW a \in Admins, DeleteEndpoints(a)
  PROVE  Summary(a)
<1> USE DEF Continue, To
<1> DEFINE es == db.endpoints \ ({call[a].name} \X Backends)
<1>1. Typed /\ step[a] = "endpoints"
  BY DEF DeleteEndpoints, IInv
<1>2. Control(a)
  BY <1>1, UnderWay DEF DeleteEndpoints, Control, Steps
<1>3. Tables
  <2>1. /\ es \in SUBSET (Models \X Backends) /\ db \in Config
        /\ db' = [db EXCEPT !.endpoints = es] /\ unborn' = unborn
    BY <1>1, UnderWay DEF DeleteEndpoints, Config
  <2> HIDE DEF es
  <2>2. db' \in Config /\ db'.routes = db.routes /\ db'.keys = db.keys
    BY <2>1 DEF Config
  <2> QED BY <1>1, <2>1, <2>2, SameRoutes
<1>4. Local(a)
  <2>1. call[a].endpoints \in SUBSET (Models \cup Backends)
    BY <1>1, UnderWay, CallShape DEF Typed, Serving, EndpointForm
  <2> QED BY <1>1, <2>1, LocalStep DEF DeleteEndpoints
<1>5. Serving(a)' /\ Validated(a)' /\ KeyMade(a)'
  BY <1>1, UnderWay
     DEF DeleteEndpoints, Typed, Serving, Validated, KeyMade, BridgeIsChat, Saves
<1>6. Announced(a) /\ Advanced(a)
  BY <1>1, UnderWay DEF DeleteEndpoints, Announced, Owed, Advanced, Cleaned, Enabled
<1> QED BY <1>2, <1>3, <1>4, <1>5, <1>6 DEF Summary

\* ... and inserted again, one by one.
LEMMA InsertEndpointStep ==
  ASSUME IInv, NEW a \in Admins, NEW b \in Backends, InsertEndpoint(a, b)
  PROVE  Summary(a)
<1> USE DEF End, To
<1> DEFINE es == db.endpoints \cup {<<call[a].name, b>>}
<1>1. Typed /\ step[a] = "insert"
  BY DEF InsertEndpoint, IInv
<1>2. Control(a)
  <2>1. \/ UNCHANGED <<step, outcome, at>>
        \/ End(a, "error")
    BY DEF InsertEndpoint
  <2> QED BY <1>1, <2>1, UnderWay DEF Control, Steps, Outcomes
<1>3. Tables
  <2>1. unborn' = unborn /\ (db' = db \/ db' = [db EXCEPT !.endpoints = es])
    BY DEF InsertEndpoint
  <2>2. es \in SUBSET (Models \X Backends) /\ db \in Config
    BY <1>1, UnderWay, CallShape DEF Typed, Serving, Config
  <2> HIDE DEF es
  <2>3. CASE db' = db
    BY <1>1, <2>1, <2>3, SameTables
  <2>4. CASE db' = [db EXCEPT !.endpoints = es]
    <3>1. db' \in Config /\ db'.routes = db.routes /\ db'.keys = db.keys
      BY <2>2, <2>4 DEF Config
    <3> QED BY <1>1, <2>1, <3>1, SameRoutes
  <2> QED BY <2>1, <2>3, <2>4
<1>4. Local(a)
  <2>1. todo[a] \ {b} \in SUBSET (Models \cup Backends)
    BY <1>1, UnderWay
  <2> QED BY <1>1, <2>1, LocalStep DEF InsertEndpoint
<1>5. Serving(a)' /\ Validated(a)' /\ KeyMade(a)'
  BY <1>1, UnderWay
     DEF InsertEndpoint, Typed, Serving, Validated, KeyMade, BridgeIsChat, Saves
<1>6. Announced(a) /\ Advanced(a)
  BY <1>1, UnderWay DEF InsertEndpoint, Announced, Owed, Advanced, Cleaned, Enabled
<1> QED BY <1>2, <1>3, <1>4, <1>5, <1>6 DEF Summary

\* After the last endpoint the backends are enabled, or the call reloads.
LEMMA EndpointsDoneStep ==
  ASSUME IInv, NEW a \in Admins, EndpointsDone(a)
  PROVE  Summary(a)
<1> USE DEF Reload, Continue, To, BeginLoad, Goto
<1>1. /\ Typed /\ step[a] = "insert" /\ UNCHANGED call
      /\ call[a].op \in Saves /\ call[a] \in Call
  BY UnderWay DEF EndpointsDone, IInv, Typed, Serving
<1>2. /\ call[a].row \in RouteRow /\ BridgeIsChat(call[a])
      /\ Refs(call[a].row) \in SUBSET (Models \cup Backends)
  BY <1>1, RefsAreBackends DEF Typed, Validated
<1>3. Control(a)
  BY <1>1, UnderWay DEF EndpointsDone, Control, Steps
<1>4. Tables /\ Local(a)
  BY <1>1, <1>2, SameTables, LocalStep DEF EndpointsDone
<1>5. Serving(a)' /\ Validated(a)' /\ KeyMade(a)'
  BY <1>1, <1>2, UnderWay
     DEF EndpointsDone, Serving, Validated, KeyMade, BridgeIsChat, Saves
<1>6. Announced(a)
  BY <1>1, UnderWay DEF EndpointsDone, Announced, Owed
<1>7. CASE call[a].row.enabled
  <2>1. step' = [step EXCEPT ![a] = "enable"]
        /\ todo' = [todo EXCEPT ![a] = Refs(call[a].row)]
    BY <1>7 DEF EndpointsDone
  <2>2. (Target(a))' = Refs(call[a].row)
    BY <1>1 DEF Target, Saves
  <2>3. Advanced(a)
    BY <1>1, <2>1, <2>2, UnderWay DEF Advanced, Cleaned, Enabled
  <2> QED BY <1>3, <1>4, <1>5, <1>6, <2>3 DEF Summary
<1>8. CASE ~call[a].row.enabled
  <2>1. step' = [step EXCEPT ![a] = "reload"]
    BY <1>8 DEF EndpointsDone
  <2>2. InEffect(call[a])'
    BY <1>1, <1>8 DEF InEffect, Saves
  <2>3. Advanced(a)
    BY <1>1, <2>1, <2>2, UnderWay DEF Advanced, Cleaned, Enabled
  <2> QED BY <1>3, <1>4, <1>5, <1>6, <2>3 DEF Summary
<1> QED BY <1>7, <1>8

\* One more of the backends is enabled, or has been deleted.
LEMMA EnableBackendStep ==
  ASSUME IInv, NEW a \in Admins, NEW b \in Backends, EnableBackend(a, b)
  PROVE  Summary(a)
<1> DEFINE new == IF db.backends[b] = NoRow THEN NoRow
                  ELSE Patched(db.backends[b], [enabled |-> TRUE])
<1>1. /\ Typed /\ step[a] = "enable" /\ Serial(a)
      /\ UNCHANGED <<call, step, read, outcome, at, unborn>>
      /\ todo' = [todo EXCEPT ![a] = @ \ {b}]
  BY DEF EnableBackend, IInv
<1>2. Control(a)
  BY <1>1, UnderWay DEF Control, Steps
<1>3. /\ db \in Config /\ db.backends \in Rows(Backends, BackendRow)
      /\ db' = [db EXCEPT !.backends[b] = new]
  BY <1>1, UnderWay DEF EnableBackend, Config
<1>4. new \in BackendRow \cup {NoRow} /\ (new # NoRow => new.enabled = TRUE)
  BY <1>3, PatchedBackend DEF Rows
<1> HIDE DEF new
<1>5. /\ db' \in Config /\ db'.routes = db.routes /\ db'.keys = db.keys
      /\ db'.backends = [db.backends EXCEPT ![b] = new]
  BY <1>3, <1>4 DEF Config, Rows
<1>6. Tables
  BY <1>1, <1>5, SameRoutes
<1>7. Local(a)
  <2>1. todo[a] \ {b} \in SUBSET (Models \cup Backends)
    BY <1>1, UnderWay
  <2> QED BY <1>1, <2>1, LocalStep DEF EnableBackend
<1>8. Serving(a)' /\ Validated(a)' /\ KeyMade(a)'
  BY <1>1, UnderWay DEF Typed, Serving, Validated, KeyMade, BridgeIsChat, Saves
<1>9. Announced(a)
  BY <1>1 DEF Announced, Owed
<1>10. Advanced(a)
  <2>1. (Target(a))' = Target(a)
    BY <1>1, <1>5 DEF Target
  <2>2. (todo[a])' = todo[a] \ {b}
    BY <1>1, UnderWay
  <2>3. ASSUME alone[a], NEW x \in Target(a) \ (todo[a] \ {b}), db'.backends[x] # NoRow
        PROVE  db'.backends[x].enabled
    <3>1. CASE x = b
      BY <1>3, <1>4, <1>5, <2>3, <3>1 DEF Rows
    <3>2. CASE x # b
      <4>1. db'.backends[x] = db.backends[x] /\ x \in Target(a) \ todo[a]
        BY <1>3, <1>5, <2>3, <3>2 DEF Rows
      <4> QED BY <1>1, <2>3, <4>1 DEF Serial, Enabled
    <3> QED BY <3>1, <3>2
  <2> QED BY <1>1, <2>1, <2>2, <2>3 DEF Advanced, Cleaned, Enabled
<1> QED BY <1>2, <1>6, <1>7, <1>8, <1>9, <1>10 DEF Summary

\* When nothing is left to enable, the call has its effect.
LEMMA EnableDoneStep ==
  ASSUME IInv, NEW a \in Admins, EnableDone(a)
  PROVE  Summary(a)
<1> USE DEF Reload, To, BeginLoad, Goto
<1>1. /\ Typed /\ step[a] = "enable" /\ Serial(a) /\ todo[a] = {}
      /\ UNCHANGED <<db, call, todo>>
  BY DEF EnableDone, IInv
<1>2. Control(a)
  BY <1>1, UnderWay DEF EnableDone, Control, Steps
<1>3. Tables /\ Local(a)
  BY <1>1, SameTables, LocalStep DEF EnableDone
<1>4. Serving(a)' /\ Validated(a)' /\ KeyMade(a)'
  BY <1>1, UnderWay
     DEF EnableDone, Typed, Serving, Validated, KeyMade, BridgeIsChat, Saves
<1>5. Announced(a)
  BY <1>1, UnderWay DEF EnableDone, Announced, Owed
<1>6. Advanced(a)
  <2>1. \/ call[a].op \in Saves
        \/ call[a].op = "toggle_route" /\ call[a].enabled
    BY <1>1 DEF Typed, Serving
  <2>2. ASSUME alone[a]
        PROVE  \A b \in Target(a) : db.backends[b] # NoRow => db.backends[b].enabled
    BY <1>1, <2>2 DEF Serial, Enabled
  <2>3. alone[a] => InEffect(call[a])
    BY <2>1, <2>2 DEF Target, InEffect, Saves
  <2>4. InEffect(call[a])' = InEffect(call[a])
    BY <1>1 DEF InEffect
  <2> QED BY <1>1, <2>3, <2>4, UnderWay DEF EnableDone, Advanced, Cleaned, Enabled
<1> QED BY <1>2, <1>3, <1>4, <1>5, <1>6 DEF Summary

\* delete_route removes the row and its endpoints.
LEMMA DeleteRouteStep ==
  ASSUME IInv, NEW a \in Admins, DeleteRoute(a)
  PROVE  Summary(a)
<1> USE DEF End, Reload, To, In, BeginLoad, Goto
<1> DEFINE m == call[a].id
           es == db.endpoints \ ({m} \X Backends)
<1>1. Typed /\ step[a] # "idle"
  BY DEF DeleteRoute, IInv
<1>2. Control(a)
  BY <1>1, UnderWay DEF DeleteRoute, Control, Steps, Outcomes
<1>3. Tables
  <2>1. /\ unborn' = unborn
        /\ \/ db' = db
           \/ db' = [db EXCEPT !.routes[m] = NoRow, !.endpoints = es]
    BY DEF DeleteRoute
  <2>2. /\ m \in Models /\ es \in SUBSET (Models \X Backends) /\ db \in Config
        /\ db.routes \in Rows(Models, RouteRow) /\ BridgesChat(db.routes)
    BY <1>1, UnderWay, CallShape DEF DeleteRoute, Config
  <2> HIDE DEF es
  <2>3. CASE db' = db
    BY <1>1, <2>1, <2>3, SameTables
  <2>4. CASE db' = [db EXCEPT !.routes[m] = NoRow, !.endpoints = es]
    <3>1. /\ db' \in Config /\ db'.keys = db.keys
          /\ db'.routes = [db.routes EXCEPT ![m] = NoRow]
      BY <2>2, <2>4 DEF Config, Rows
    <3> QED BY <2>1, <2>2, <3>1, ChatKept DEF Tables
  <2> QED BY <2>1, <2>3, <2>4
<1>4. Local(a)
  BY <1>1, LocalStep DEF DeleteRoute
<1>5. Serving(a)' /\ Validated(a)' /\ KeyMade(a)'
  BY <1>1, UnderWay DEF DeleteRoute, Serving, Validated, KeyMade, Saves
<1>6. Announced(a) /\ Advanced(a)
  BY <1>1, UnderWay
     DEF DeleteRoute, Announced, Owed, Advanced, Cleaned, Enabled, InEffect
<1> QED BY <1>2, <1>3, <1>4, <1>5, <1>6 DEF Summary

\* toggle_route_enabled changes the row, which is then still there.
LEMMA ToggleRouteStep ==
  ASSUME IInv, NEW a \in Admins, ToggleRoute(a)
  PROVE  Summary(a)
<1> USE DEF End, Reload, Continue, To, In, BeginLoad, Goto
<1> DEFINE m == call[a].id
           new == [db.routes[m] EXCEPT !.enabled = call[a].enabled]
<1>1. Typed /\ step[a] # "idle" /\ call[a].op = "toggle_route" /\ call' = call
  BY DEF ToggleRoute, IInv
<1>2. Control(a)
  BY <1>1, UnderWay DEF ToggleRoute, Control, Steps, Outcomes
<1>3. /\ m \in Models /\ call[a].enabled \in BOOLEAN /\ db \in Config
      /\ db.routes \in Rows(Models, RouteRow) /\ BridgesChat(db.routes)
  BY <1>1, UnderWay, CallShape DEF Config
<1>4. Local(a)
  BY <1>1, LocalStep DEF ToggleRoute
<1>5. Serving(a)' /\ Validated(a)' /\ KeyMade(a)'
  BY <1>1, UnderWay DEF ToggleRoute, Serving, Validated, KeyMade, Saves
<1>6. CASE db.routes[m] = NoRow
  <2>1. Tables
    BY <1>1, <1>6, SameTables DEF ToggleRoute
  <2>2. Announced(a) /\ Advanced(a)
    BY <1>1, <1>6, UnderWay
       DEF ToggleRoute, Announced, Owed, Advanced, Cleaned, Enabled
  <2> QED BY <1>2, <1>4, <1>5, <2>1, <2>2 DEF Summary
<1>7. CASE db.routes[m] # NoRow
  <2>1. db' = [db EXCEPT !.routes[m] = new] /\ unborn' = unborn
    BY <1>7 DEF ToggleRoute
  <2>2. db.routes[m] \in RouteRow
    BY <1>3, <1>7 DEF Rows
  <2>3. /\ new \in RouteRow
        /\ new.bridge = db.routes[m].bridge /\ new.shape = db.routes[m].shape
    BY <1>3, <2>2 DEF RouteRow
  <2>4. new # NoRow
    BY <2>3, AdminAssumptions
  <2>5. new.bridge => new.shape = "chat"
    BY <1>3, <1>7, <2>3 DEF BridgesChat
  <2> HIDE DEF new
  <2>6. /\ db' \in Config /\ db'.keys = db.keys
        /\ db'.routes = [db.routes EXCEPT ![m] = new]
    BY <1>3, <2>1, <2>3 DEF Config, Rows
  <2>7. Tables
    BY <1>3, <2>1, <2>3, <2>5, <2>6, ChatKept DEF Tables
  <2>8. (db.routes[call[a].id])' # NoRow
    BY <1>1, <1>3, <2>4, <2>6 DEF Rows
  <2>9. Announced(a)
    BY <1>1, <1>7, <2>8, UnderWay DEF ToggleRoute, Announced, Owed
  <2>10. Advanced(a)
    BY <1>1, <1>7, UnderWay DEF ToggleRoute, Advanced, Cleaned, Enabled, InEffect
  <2> QED BY <1>2, <1>4, <1>5, <2>7, <2>9, <2>10 DEF Summary
<1> QED BY <1>6, <1>7

\* A route that is gone when it is read again ends the call, which owes nothing.
LEMMA RereadRouteStep ==
  ASSUME IInv, NEW a \in Admins, RereadRoute(a)
  PROVE  Summary(a)
<1> USE DEF End, Continue, To, In
<1> DEFINE row == db.routes[call[a].id]
<1>1. /\ Typed /\ step[a] = "reread" /\ call[a].op = "toggle_route"
      /\ UNCHANGED <<db, call, read, unborn>>
  BY DEF RereadRoute, IInv
<1>2. Control(a)
  BY <1>1, UnderWay DEF RereadRoute, Control, Steps, Outcomes
<1>3. Tables
  BY <1>1, SameTables
<1>4. Local(a)
  <2>1. row = NoRow \/ Refs(row) \in SUBSET (Models \cup Backends)
    BY <1>1, UnderWay, CallShape, RefsAreBackends DEF Config, Rows
  <2> QED BY <1>1, <2>1, LocalStep DEF RereadRoute
<1>5. Serving(a)' /\ Validated(a)' /\ KeyMade(a)'
  BY <1>1, UnderWay DEF RereadRoute, Typed, Serving, Validated, KeyMade, Saves
<1>6. Announced(a)
  BY <1>1, UnderWay DEF RereadRoute, Announced, Owed
<1>7. Advanced(a)
  BY <1>1, UnderWay DEF RereadRoute, Advanced, Cleaned, Enabled, Target
<1> QED BY <1>2, <1>3, <1>4, <1>5, <1>6, <1>7 DEF Summary

\* The row that create or update writes.
LEMMA WrittenRow ==
  ASSUME NEW c \in Call, c.op \in {"insert", "update"},
         NEW old \in OnOff \cup {NoRow}, c.op = "insert" \/ old # NoRow
  PROVE  LET new == IF c.op = "insert" THEN c.set ELSE Patched(old, c.set)
         IN new \in OnOff /\ new # NoRow
BY CallShape, PatchedOnOff, AdminAssumptions

\* create_team and update_team write a row.
LEMMA WriteTeamStep ==
  ASSUME IInv, NEW a \in Admins, WriteTeam(a)
  PROVE  Summary(a)
<1> USE DEF End, Reload, To, BeginLoad, Goto, WriteTeam
<1> DEFINE old == db["teams"][call[a].id]
           new == IF call[a].op = "insert" THEN call[a].set
                  ELSE Patched(old, call[a].set)
<1>1. /\ Typed /\ step[a] = "check" /\ call[a].op \in {"insert", "update"}
      /\ call[a].table = "teams" /\ UNCHANGED <<call, read, todo, unborn>>
      /\ UNCHANGED Rest
  BY DEF WriteRow, IInv
<1>2. \/ /\ UNCHANGED db
         /\ \E r \in {"refused", "error"} : End(a, r)
      \/ /\ db' = [db EXCEPT !["teams"][call[a].id] = new] /\ Reload(a)
         /\ call[a].op = "insert" \/ old # NoRow
  BY DEF WriteRow
<1>3. Control(a)
  BY <1>1, <1>2, UnderWay DEF Control, Steps, Outcomes
<1>4. Tables
  <2>1. CASE UNCHANGED db
    BY <1>1, <2>1, SameTables
  <2>2. CASE /\ db' = [db EXCEPT !["teams"][call[a].id] = new]
             /\ call[a].op = "insert" \/ old # NoRow
    <3>1. call[a].id \in Teams /\ db \in Config /\ call[a] \in Call
      BY <1>1, UnderWay, CallShape
    <3>2. old \in OnOff \cup {NoRow}
      BY <3>1 DEF Config, Rows
    <3>3. new \in OnOff
      BY <1>1, <2>2, <3>1, <3>2, WrittenRow
    <3> HIDE DEF new
    <3> QED BY <1>1, <2>2, <3>1, <3>3, SetTeam, SameRoutes
  <2> QED BY <1>2, <2>1, <2>2
<1>5. Local(a)
  BY <1>1, LocalStep
<1>6. Serving(a)' /\ Validated(a)' /\ KeyMade(a)'
  BY <1>1, <1>2, UnderWay DEF Serving, Validated, KeyMade, Saves
<1>7. Announced(a) /\ Advanced(a)
  BY <1>1, <1>2, UnderWay
     DEF Announced, Owed, Advanced, Cleaned, Enabled, InEffect
<1> QED BY <1>3, <1>4, <1>5, <1>6, <1>7 DEF Summary

\* create_key, update_key and disable_key write a row, which stays.
LEMMA WriteKeyStep ==
  ASSUME IInv, NEW a \in Admins, WriteKey(a)
  PROVE  Summary(a)
<1> USE DEF End, Reload, To, BeginLoad, Goto, WriteKey
<1> DEFINE k == call[a].id
           old == db["keys"][k]
           new == IF call[a].op = "insert" THEN call[a].set
                  ELSE Patched(old, call[a].set)
<1>1. /\ Typed /\ step[a] = "check" /\ call[a].op \in {"insert", "update"}
      /\ call[a].table = "keys" /\ UNCHANGED <<call, read, todo, unborn>>
      /\ UNCHANGED Rest
  BY DEF WriteRow, IInv
<1>2. \/ /\ UNCHANGED db
         /\ \E r \in {"refused", "error"} : End(a, r)
      \/ /\ db' = [db EXCEPT !["keys"][k] = new] /\ Reload(a)
         /\ call[a].op = "insert" \/ old # NoRow
  BY DEF WriteRow
<1>3. Control(a)
  BY <1>1, <1>2, UnderWay DEF Control, Steps, Outcomes
<1>4. Local(a)
  BY <1>1, LocalStep
<1>5. Serving(a)' /\ Validated(a)'
  BY <1>1, <1>2, UnderWay DEF Serving, Validated, Saves
<1>6. Announced(a) /\ Advanced(a)
  BY <1>1, <1>2, UnderWay
     DEF Announced, Owed, Advanced, Cleaned, Enabled, InEffect
<1>7. CASE UNCHANGED db /\ \E r \in {"refused", "error"} : End(a, r)
  <2>1. Tables
    BY <1>1, <1>7, SameTables
  <2>2. KeyMade(a)'
    BY <1>1, <1>7, UnderWay DEF KeyMade
  <2> QED BY <1>3, <1>4, <1>5, <1>6, <2>1, <2>2 DEF Summary
<1>8. CASE /\ db' = [db EXCEPT !["keys"][k] = new]
           /\ call[a].op = "insert" \/ old # NoRow
  <2>1. /\ k \in Keys /\ db \in Config /\ call[a] \in Call
        /\ db.keys \in Rows(Keys, OnOff) /\ BridgesChat(db.routes)
    BY <1>1, UnderWay, CallShape DEF Config
  <2>2. old \in OnOff \cup {NoRow}
    BY <2>1 DEF Rows
  <2>3. new \in OnOff /\ new # NoRow
    BY <1>1, <1>8, <2>1, <2>2, WrittenRow
  <2> HIDE DEF new
  <2>4. /\ db' \in Config /\ db'.routes = db.routes
        /\ db'.keys = [db.keys EXCEPT ![k] = new]
    BY <1>8, <2>1, <2>3, SetKey
  <2>5. Tables
    BY <1>1, <2>1, <2>3, <2>4 DEF Tables, Rows
  <2>6. KeyMade(a)'
    BY <1>1, <2>1, <2>3, <2>4 DEF KeyMade, Rows
  <2> QED BY <1>3, <1>4, <1>5, <1>6, <2>5, <2>6 DEF Summary
<1> QED BY <1>2, <1>7, <1>8

\* The answer after the reload.
LEMMA AnswerStep ==
  ASSUME IInv, NEW a \in Admins, Answer(a)
  PROVE  Summary(a)
<1> USE DEF To, Goto
<1>1. Typed /\ step[a] # "idle"
  BY DEF Answer, IInv
<1>2. Control(a)
  BY <1>1, UnderWay DEF Answer, Control, Steps, Outcomes
<1>3. Tables /\ Local(a)
  BY <1>1, SameTables, LocalStep DEF Answer
<1>4. Serving(a)' /\ Validated(a)' /\ KeyMade(a)'
  BY <1>1, UnderWay DEF Answer, Serving, Validated, KeyMade
<1>5. Announced(a) /\ Advanced(a)
  BY <1>1, UnderWay DEF Answer, Announced, Owed, Advanced, Cleaned, Enabled
<1> QED BY <1>2, <1>3, <1>4, <1>5 DEF Summary

\* create_key takes back the key it has made.
LEMMA ReloadFailedStep ==
  ASSUME IInv, NEW a \in Admins, ReloadFailed(a)
  PROVE  Summary(a)
<1> USE DEF To, Goto
<1> DEFINE k == call[a].id
           new == [db.keys[k] EXCEPT !.enabled = FALSE]
<1>1. Typed /\ step[a] = "reload" /\ unborn' = unborn
  BY DEF ReloadFailed, IInv
<1>2. Control(a)
  BY <1>1, UnderWay DEF ReloadFailed, Control, Steps, Outcomes
<1>3. Tables
  <2>1. CASE db' = db
    BY <1>1, <2>1, SameTables
  <2>2. CASE IsCreateKey(call[a]) /\ db' = [db EXCEPT !.keys[k] = new]
    <3>1. /\ k \in Keys /\ db \in Config /\ BridgesChat(db.routes)
          /\ db.keys \in Rows(Keys, OnOff)
      BY <1>1, <2>2, UnderWay, CallShape DEF IsCreateKey, Config
    <3>2. db.keys[k] \in OnOff
      BY <1>1, <2>2, <3>1 DEF Typed, KeyMade, IsCreateKey, Rows
    <3>3. new \in OnOff /\ new # NoRow
      BY <3>2, AdminAssumptions DEF OnOff
    <3> HIDE DEF new
    <3>4. /\ db' \in Config /\ db'.routes = db.routes
          /\ db'.keys = [db.keys EXCEPT ![k] = new]
      BY <2>2, <3>1, <3>3 DEF Config, Rows
    <3> QED BY <1>1, <3>1, <3>3, <3>4 DEF Tables, Rows
  <2> QED BY <2>1, <2>2 DEF ReloadFailed
<1>4. Local(a)
  BY <1>1, LocalStep DEF ReloadFailed
<1>5. Serving(a)' /\ Validated(a)' /\ KeyMade(a)'
  BY <1>1, UnderWay DEF ReloadFailed, Serving, Validated, KeyMade
<1>6. Announced(a) /\ Advanced(a)
  BY <1>1, UnderWay DEF ReloadFailed, Announced, Owed, Advanced, Cleaned, Enabled
<1> QED BY <1>2, <1>3, <1>4, <1>5, <1>6 DEF Summary

\* Every step of a call.
LEMMA CallStepSummary ==
  ASSUME IInv, NEW a \in Admins, CallStep(a)
  PROVE  Summary(a)
BY StatementFailsStep, CreateBackendStep, UpdateBackendStep, FindBackendStep,
   PutBackendKeyStep, CheckUsageStep, FindRoutesStep, CleanRouteStep,
   DeleteBackendStep, CheckNameStep, KeepFlagStep, CheckBridgeStep,
   CheckRenameStep, InsertRouteStep, UpdateRouteStep, DeleteEndpointsStep,
   InsertEndpointStep, EndpointsDoneStep, EnableBackendStep, EnableDoneStep,
   DeleteRouteStep, ToggleRouteStep, RereadRouteStep, WriteTeamStep,
   WriteKeyStep, AnswerStep, ReloadFailedStep
   DEF CallStep

(***************************************************************************)
(* The steps of a call preserve the invariant                              *)
(***************************************************************************)

\* The step of a call keeps tables, calls and loads well-formed.
LEMMA CallTyped ==
  ASSUME IInv, NEW a \in Admins, Summary(a)
  PROVE  Typed'
<1>1. /\ Typed /\ Control(a) /\ Tables /\ Local(a)
      /\ a \in Loaders /\ a # Poll
      /\ Serving(a)' /\ Validated(a)' /\ KeyMade(a)'
  BY ReloadAssumptions DEF IInv, Summary, Loaders
<1>2. /\ call \in [Admins -> {Idle} \cup Call] /\ step \in [Admins -> Steps]
      /\ read \in [Admins -> Rows(Models, RouteRow)]
      /\ todo \in [Admins -> SUBSET (Models \cup Backends)]
      /\ outcome \in [Admins -> Outcomes] /\ alone \in [Admins -> BOOLEAN]
      /\ at \in [Loaders -> Labels]
  BY <1>1 DEF Typed, TasksOK, LoadsOK
<1>3. UNCHANGED <<dbUp, pool, budgets, cfg, snap, notified, last, pollOk, alone>>
  BY <1>1 DEF Local, Rest
<1>4. TasksOK'
  <2>1. step' \in [Admins -> Steps] /\ outcome' \in [Admins -> Outcomes]
    BY <1>1, <1>2 DEF Control, Steps, Outcomes
  <2>2. /\ call' \in [Admins -> {Idle} \cup Call]
        /\ read' \in [Admins -> Rows(Models, RouteRow)]
        /\ todo' \in [Admins -> SUBSET (Models \cup Backends)]
    BY <1>1, <1>2 DEF Local
  <2> QED BY <1>2, <1>3, <2>1, <2>2 DEF TasksOK
<1>5. /\ at' \in [Loaders -> Labels]
      /\ \A l \in Loaders \ {a} : at'[l] = at[l]
      /\ at'[a] \in {"backends", "idle", "loaded", "failed"}
  BY <1>1, <1>2 DEF Control, Labels, TableNames
<1>6. LoadsOK'
  <2>1. ASSUME NEW t \in TableNames PROVE snap[a][t] = NoSnap
    BY <1>1 DEF Typed, LoadsOK, Control, ReadBy, Wiring
  <2>2. ReadBy(at'[a]) = {}
    BY <1>5 DEF ReadBy, Wiring
  <2>3. ASSUME NEW l \in Loaders, NEW t \in TableNames
        PROVE  IF t \in ReadBy(at'[l]) THEN snap[l][t] \in TableOf[t]
                                       ELSE snap[l][t] = NoSnap
    BY <1>1, <1>5, <2>1, <2>2 DEF Typed, LoadsOK
  <2>4. snap = [l \in Loaders |-> [t \in TableNames |-> snap[l][t]]]
    BY <1>1 DEF Typed, LoadsOK
  <2> QED BY <1>3, <1>5, <2>3, <2>4 DEF LoadsOK, ReadBy
<1>7. ASSUME NEW x \in Admins
      PROVE  (at'[x] # "idle") = (step'[x] = "reload")
  BY <1>1, <1>2 DEF Typed, TypeOK, Control, Loaders, Steps
<1>8. TypeOK'
  <2>1. \A l \in Loaders : at'[l] \in Wiring => snap'[l] \in Config
    BY <1>1, <1>3, <1>5 DEF Typed, TypeOK, Wiring
  <2>2. unborn' \subseteq Unborn
    BY <1>1 DEF Typed, TypeOK, Tables
  <2>3. {db', cfg'} \subseteq Config
    BY <1>1, <1>3 DEF Typed, TypeOK, Tables
  <2> QED BY <1>1, <1>3, <1>5, <1>7, <2>1, <2>2, <2>3 DEF Typed, TypeOK, Labels
<1>9. BridgeRoutesChat'
  BY <1>1 DEF Tables, BridgeRoutesChat, BridgesChat
<1>10. ASSUME NEW x \in Admins, x # a
       PROVE  Serving(x)' /\ Validated(x)' /\ KeyMade(x)'
  <2>1. /\ call'[x] = call[x] /\ step'[x] = step[x] /\ read'[x] = read[x]
        /\ todo'[x] = todo[x] /\ outcome'[x] = outcome[x]
    BY <1>1, <1>2, <1>10 DEF Control, Local
  <2>2. Serving(x) /\ Validated(x) /\ KeyMade(x)
    BY <1>1 DEF Typed
  <2>3. Serving(x)' /\ Validated(x)'
    BY <2>1, <2>2 DEF Serving, Validated, BridgeIsChat
  <2>4. KeyMade(x)'
    <3>1. step[x] = "reload" /\ call[x].op = "insert" /\ call[x].table = "keys" =>
            call[x].id \in Keys
      BY <1>1, UnderWay, CallShape
    <3> QED BY <1>1, <2>1, <2>2, <3>1 DEF KeyMade, Tables
  <2> QED BY <2>3, <2>4
<1> QED BY <1>1, <1>4, <1>6, <1>8, <1>9, <1>10 DEF Typed

\* Whoever owes the poll loop a word still does: the step of one call does
\* not touch what the others have announced.
LEMMA CallTold ==
  ASSUME IInv, NEW a \in Admins, Summary(a)
  PROVE  Told'
<1>1. /\ Typed /\ Told /\ Control(a) /\ Local(a) /\ Announced(a)
      /\ a \in Loaders /\ Poll \in Loaders /\ a # Poll
  BY ReloadAssumptions DEF IInv, Summary, Loaders
<1>2. UNCHANGED <<pool, budgets, cfg, snap, notified, pollOk>> /\ at'[Poll] = at[Poll]
  BY <1>1 DEF Local, Rest, Control, Typed, LoadsOK
<1>3. CASE Owed(a)' \/ outcome'[a] \in {"error", "gone", "dropped"}
  BY <1>3 DEF Told
<1>4. CASE db' = db /\ ~Owed(a) /\ ~(outcome'[a] \in {"error", "gone", "dropped"})
  <2>1. PollFresh => PollFresh'
    BY <1>2, <1>4 DEF PollFresh, InSync
  <2>2. outcome[a] \notin {"error", "gone", "dropped"}
    <3>1. outcome[a] = "none"
      BY <1>1, UnderWay DEF Control, Outcomes
    <3> QED BY <3>1
  <2>3. ASSUME NEW x \in Admins, x # a
        PROVE  /\ Owed(x) => Owed(x)'
               /\ outcome'[x] = outcome[x]
    <3>1. /\ call'[x] = call[x] /\ step'[x] = step[x] /\ at'[x] = at[x]
          /\ outcome'[x] = outcome[x]
      BY <1>1, <2>3 DEF Control, Local, Typed, TasksOK, LoadsOK, Loaders
    <3> QED BY <1>4, <3>1 DEF Owed
  <2>4. ASSUME NEW x \in Admins, Owed(x) \/ outcome[x] \in {"error", "gone", "dropped"}
        PROVE  Owed(x)' \/ outcome'[x] \in {"error", "gone", "dropped"}
    BY <1>4, <2>2, <2>3, <2>4
  <2> QED BY <1>1, <1>2, <2>1, <2>4 DEF Told
<1> QED BY <1>1, <1>3, <1>4 DEF Announced

\* A call that is alone is the only one under way, so no other step concerns it.
LEMMA CallSerial ==
  ASSUME IInv, NEW a \in Admins, Summary(a), NEW x \in Admins
  PROVE  Serial(x)'
<1>1. /\ Typed /\ Control(a) /\ Local(a) /\ Advanced(a)
      /\ Serial(a) /\ Serial(x) /\ alone' = alone
  BY DEF IInv, Summary, Local, Rest
<1>2. \A y \in Admins \ {a} : step'[y] = step[y]
  BY <1>1 DEF Control, Typed, TasksOK
<1>3. CASE x = a
  BY <1>1, <1>2, <1>3 DEF Serial, Advanced, Control
<1>4. CASE x # a
  BY <1>1, <1>2, <1>4 DEF Serial, Control
<1> QED BY <1>3, <1>4

\* The steps of the calls preserve the invariant.
LEMMA CallIInv ==
  ASSUME IInv, NEW a \in Admins, CallStep(a)
  PROVE  IInv'
BY CallStepSummary, CallTyped, CallTold, CallSerial DEF IInv

\* A new call: those that are under way are not alone any more.
LEMMA BeginIInv ==
  ASSUME IInv, NEW a \in Admins, NEW c \in Calls[a], Begin(a, c)
  PROVE  IInv'
<1> USE DEF To
<1> DEFINE others == {x \in Admins \ {a} : step[x] \notin {"idle", "done"}}
<1>1. /\ Typed /\ Told /\ \A x \in Admins : Serial(x)
      /\ step[a] = "idle" /\ c \in Call
  BY AdminAssumptions DEF IInv, Begin
<1>2. /\ call' = [call EXCEPT ![a] = c] /\ step' = [step EXCEPT ![a] = "check"]
      /\ alone' = [x \in Admins |-> IF x = a THEN others = {}
                                    ELSE alone[x] /\ x \notin others]
      /\ UNCHANGED reloadVars /\ UNCHANGED <<read, todo, outcome, pollOk, unborn>>
  BY DEF Begin
<1>3. /\ call \in [Admins -> {Idle} \cup Call] /\ step \in [Admins -> Steps]
      /\ alone \in [Admins -> BOOLEAN]
  BY <1>1 DEF Typed, TasksOK
<1>4. /\ call'[a] = c /\ step'[a] = "check"
      /\ \A x \in Admins \ {a} : call'[x] = call[x] /\ step'[x] = step[x]
  BY <1>2, <1>3
<1>5. TasksOK'
  <2>1. call' \in [Admins -> {Idle} \cup Call] /\ step' \in [Admins -> Steps]
    BY <1>1, <1>2, <1>3 DEF Steps
  <2>2. alone' \in [Admins -> BOOLEAN]
    <3>1. /\ (others = {}) \in BOOLEAN
          /\ \A x \in Admins : (alone[x] /\ x \notin others) \in BOOLEAN
      OBVIOUS
    <3> QED BY <1>2, <3>1
  <2> QED BY <1>1, <1>2, <2>1, <2>2 DEF Typed, TasksOK
<1>6. LoadsOK' /\ BridgeRoutesChat'
  BY <1>1, <1>2 DEF Typed, LoadsOK, BridgeRoutesChat, BridgesChat, reloadVars
<1>7. TypeOK'
  <2>1. \A x \in Admins : (at[x] # "idle") = (step'[x] = "reload")
    BY <1>1, <1>4 DEF Typed, TypeOK
  <2> QED BY <1>1, <1>2, <2>1 DEF Typed, TypeOK, reloadVars
<1>8. ASSUME NEW x \in Admins
      PROVE  Serving(x)' /\ Validated(x)' /\ KeyMade(x)'
  <2>1. Serving(x) /\ Validated(x) /\ KeyMade(x)
    BY <1>1 DEF Typed
  <2>2. CASE x = a
    BY <1>1, <1>2, <1>4, <2>1, <2>2 DEF Serving, Validated, KeyMade
  <2>3. CASE x # a
    BY <1>2, <1>4, <2>1, <2>3
       DEF Serving, Validated, KeyMade, BridgeIsChat, reloadVars
  <2> QED BY <2>2, <2>3
<1>9. Told'
  <2>1. ASSUME NEW x \in Admins, Owed(x)
        PROVE  Owed(x)'
    BY <1>1, <1>2, <1>4, <2>1 DEF Owed, reloadVars
  <2>2. PollFresh => PollFresh'
    BY <1>2 DEF PollFresh, InSync, reloadVars
  <2> QED BY <1>1, <1>2, <2>1, <2>2 DEF Told, reloadVars
<1>10. ASSUME NEW x \in Admins, alone'[x], step'[x] \notin {"idle", "done"}
       PROVE  x = a /\ \A y \in Admins \ {x} : step'[y] \in {"idle", "done"}
  BY <1>2, <1>4, <1>10
<1>11. ASSUME NEW x \in Admins PROVE Serial(x)'
  BY <1>4, <1>10 DEF Serial, Cleaned, Enabled
<1> QED BY <1>5, <1>6, <1>7, <1>8, <1>9, <1>11 DEF IInv, Typed

(***************************************************************************)
(* The loads preserve it                                                   *)
(***************************************************************************)

\* What has all tables is a configuration.
LEMMA WholeConfig ==
  ASSUME NEW s, s = [t \in TableNames |-> s[t]],
         \A t \in TableNames : s[t] \in TableOf[t]
  PROVE  s \in Config
BY DEF Config, TableOf, TableNames

\* A configuration has all tables.
LEMMA ConfigTables ==
  ASSUME NEW c \in Config
  PROVE  /\ c = [t \in TableNames |-> c[t]]
         /\ \A t \in TableNames : c[t] \in TableOf[t]
BY DEF Config, TableOf, TableNames

\* One query adds one table.
LEMMA QueryLoads ==
  ASSUME Typed, NEW l \in Loaders, NEW t \in TableNames, NEW next \in Labels,
         ReadBy(next) = ReadBy(t) \cup {t}, Query(l, t, next)
  PROVE  LoadsOK'
<1> USE DEF Goto
<1>1. /\ at \in [Loaders -> Labels] /\ at[l] = t
      /\ at' = [at EXCEPT ![l] = next]
      /\ snap' = [snap EXCEPT ![l][t] = db[t]]
      /\ snap = [k \in Loaders |-> [u \in TableNames |-> snap[k][u]]]
      /\ db[t] \in TableOf[t]
  BY ConfigTables DEF Query, Typed, TypeOK, LoadsOK
<1>2. /\ at' \in [Loaders -> Labels] /\ at'[l] = next
      /\ \A k \in Loaders \ {l} : at'[k] = at[k] /\ snap'[k] = snap[k]
      /\ snap'[l][t] = db[t]
      /\ \A u \in TableNames \ {t} : snap'[l][u] = snap[l][u]
      /\ snap' = [k \in Loaders |-> [u \in TableNames |-> snap'[k][u]]]
  BY <1>1
<1>3. ASSUME NEW k \in Loaders, NEW u \in TableNames
      PROVE  IF u \in ReadBy(at'[k]) THEN snap'[k][u] \in TableOf[u]
                                     ELSE snap'[k][u] = NoSnap
  <2>1. IF u \in ReadBy(at[k]) THEN snap[k][u] \in TableOf[u]
                               ELSE snap[k][u] = NoSnap
    BY DEF Typed, LoadsOK
  <2>2. CASE k # l
    BY <1>2, <2>1, <2>2
  <2>3. CASE k = l /\ u # t
    BY <1>1, <1>2, <2>1, <2>3
  <2>4. CASE k = l /\ u = t
    BY <1>1, <1>2, <2>4
  <2> QED BY <2>2, <2>3, <2>4
<1> QED BY <1>2, <1>3 DEF LoadsOK, ReadBy

\* The steps that start again from nothing, or only move on.
LEMMA MoveLoads ==
  ASSUME Typed, NEW l \in Loaders, NEW next \in Labels,
         at' = [at EXCEPT ![l] = next],
         \/ snap' = snap /\ ReadBy(next) = ReadBy(at[l])
         \/ snap' = [snap EXCEPT ![l] = Nothing] /\ ReadBy(next) = {}
  PROVE  LoadsOK'
<1>1. /\ at \in [Loaders -> Labels]
      /\ snap = [k \in Loaders |-> [u \in TableNames |-> snap[k][u]]]
  BY DEF Typed, LoadsOK
<1>2. /\ at' \in [Loaders -> Labels] /\ at'[l] = next
      /\ \A k \in Loaders \ {l} : at'[k] = at[k] /\ snap'[k] = snap[k]
      /\ snap' = [k \in Loaders |-> [u \in TableNames |-> snap'[k][u]]]
  BY <1>1 DEF Nothing
<1>3. \/ snap'[l] = snap[l] /\ ReadBy(next) = ReadBy(at[l])
      \/ (\A u \in TableNames : snap'[l][u] = NoSnap) /\ ReadBy(next) = {}
  BY <1>1 DEF Nothing
<1>4. ASSUME NEW k \in Loaders, NEW u \in TableNames
      PROVE  IF u \in ReadBy(at'[k]) THEN snap'[k][u] \in TableOf[u]
                                     ELSE snap'[k][u] = NoSnap
  <2>1. IF u \in ReadBy(at[k]) THEN snap[k][u] \in TableOf[u]
                               ELSE snap[k][u] = NoSnap
    BY DEF Typed, LoadsOK
  <2>2. CASE k # l
    BY <1>2, <2>1, <2>2
  <2>3. CASE k = l
    BY <1>2, <1>3, <2>1, <2>3
  <2> QED BY <2>2, <2>3
<1> QED BY <1>2, <1>4 DEF LoadsOK, ReadBy

\* Five queries, the failure, the wiring, the publication and what follows.
LEMMA LoaderLoads ==
  ASSUME Typed, NEW l \in Loaders, LoaderStep(l)
  PROVE  LoadsOK'
<1> USE DEF Goto
<1>1. CASE LoadBackends(l)
  BY <1>1, QueryLoads DEF LoadBackends, ReadBy, Labels, TableNames, Wiring
<1>2. CASE LoadRouteEndpoints(l)
  BY <1>2, QueryLoads DEF LoadRouteEndpoints, ReadBy, Labels, TableNames, Wiring
<1>3. CASE LoadRoutes(l)
  BY <1>3, QueryLoads DEF LoadRoutes, ReadBy, Labels, TableNames, Wiring
<1>4. CASE LoadTeams(l)
  BY <1>4, QueryLoads DEF LoadTeams, ReadBy, Labels, TableNames, Wiring
<1>5. CASE LoadApiKeys(l)
  BY <1>5, QueryLoads DEF LoadApiKeys, ReadBy, Labels, TableNames, Wiring
<1>6. CASE LoadFails(l)
  BY <1>6, MoveLoads DEF LoadFails, ReadBy, Labels, Wiring
<1>7. CASE SyncBackends(l)
  BY <1>7, MoveLoads DEF SyncBackends, ReadBy, Labels, Wiring
<1>8. CASE SyncTeams(l)
  BY <1>8, MoveLoads DEF SyncTeams, ReadBy, Labels, Wiring
<1>9. CASE Publish(l)
  BY <1>9, MoveLoads DEF Publish, ReadBy, Labels, Wiring
<1>10. CASE Notify(l)
  BY <1>10, MoveLoads DEF Notify, ReadBy, Labels, Wiring
<1>11. CASE StoreOk(l)
  BY <1>11, MoveLoads DEF StoreOk, ReadBy, Labels, Wiring
<1> QED BY <1>1, <1>2, <1>3, <1>4, <1>5, <1>6, <1>7, <1>8, <1>9, <1>10, <1>11
        DEF LoaderStep

\* What a load stores, and where it leads.
LEMMA LoaderMemory ==
  ASSUME Typed, NEW l \in Loaders, LoaderStep(l)
  PROVE  /\ UNCHANGED <<db, dbUp>>
         /\ pool' \in Rows(Backends, BackendRow) /\ budgets' \in Rows(Teams, OnOff)
         /\ cfg' \in Config /\ notified' \in BOOLEAN /\ last' \in {"ok", "err"}
         /\ at[l] # "idle" /\ (l # Poll => at'[l] # "idle")
         /\ \A k \in Loaders \ {l} : at'[k] = at[k] /\ snap'[k] = snap[k]
<1> USE DEF Goto
<1>1. /\ at \in [Loaders -> Labels]
      /\ snap = [k \in Loaders |-> [u \in TableNames |-> snap[k][u]]]
      /\ pool \in Rows(Backends, BackendRow) /\ budgets \in Rows(Teams, OnOff)
      /\ cfg \in Config /\ notified \in BOOLEAN /\ last \in {"ok", "err"}
      /\ at[l] \in Wiring => snap[l] \in Config
  BY DEF Typed, TypeOK, LoadsOK
<1>2. ASSUME NEW t \in TableNames, NEW next \in Labels \ {"idle"}, Query(l, t, next)
      PROVE  /\ UNCHANGED <<db, dbUp, pool, budgets, cfg, notified, last>>
             /\ at[l] # "idle" /\ at'[l] # "idle"
             /\ \A k \in Loaders \ {l} : at'[k] = at[k] /\ snap'[k] = snap[k]
  BY <1>1, <1>2 DEF Query, TableNames
<1>3. CASE LoadBackends(l)
  BY <1>1, <1>2, <1>3 DEF LoadBackends, Labels, TableNames
<1>4. CASE LoadRouteEndpoints(l)
  BY <1>1, <1>2, <1>4 DEF LoadRouteEndpoints, Labels, TableNames
<1>5. CASE LoadRoutes(l)
  BY <1>1, <1>2, <1>5 DEF LoadRoutes, Labels, TableNames
<1>6. CASE LoadTeams(l)
  BY <1>1, <1>2, <1>6 DEF LoadTeams, Labels, TableNames
<1>7. CASE LoadApiKeys(l)
  BY <1>1, <1>2, <1>7 DEF LoadApiKeys, Labels, TableNames, Wiring
<1>8. CASE LoadFails(l)
  BY <1>1, <1>8 DEF LoadFails, TableNames
<1>9. CASE SyncBackends(l)
  BY <1>1, <1>9 DEF SyncBackends, Wiring, Config
<1>10. CASE SyncTeams(l)
  BY <1>1, <1>10 DEF SyncTeams, Wiring, Config
<1>11. CASE Publish(l)
  BY <1>1, <1>11 DEF Publish, Wiring
<1>12. CASE Notify(l)
  BY <1>1, <1>12 DEF Notify
<1>13. CASE StoreOk(l)
  BY <1>1, <1>13 DEF StoreOk
<1> QED BY <1>3, <1>4, <1>5, <1>6, <1>7, <1>8, <1>9, <1>10, <1>11, <1>12, <1>13
        DEF LoaderStep

\* A step outside the calls keeps the types if it keeps those of the memory.
LEMMA LoadTyped ==
  ASSUME Typed, LoadsOK', UNCHANGED <<db, unborn>>, UNCHANGED callVars,
         pool' \in Rows(Backends, BackendRow), budgets' \in Rows(Teams, OnOff),
         cfg' \in Config, {dbUp', notified', pollOk'} \subseteq BOOLEAN,
         last' \in {"ok", "err"},
         \A a \in Admins : (at'[a] # "idle") = (at[a] # "idle")
  PROVE  Typed'
<1>1. TasksOK' /\ BridgeRoutesChat'
  BY DEF Typed, TasksOK, BridgeRoutesChat, BridgesChat, callVars
<1>2. \A a \in Admins : Serving(a)' /\ Validated(a)' /\ KeyMade(a)'
  BY DEF Typed, Serving, Validated, KeyMade, BridgeIsChat, callVars
<1>3. ASSUME NEW l \in Loaders, at'[l] \in Wiring
      PROVE  snap'[l] \in Config
  <2>1. \A t \in TableNames : snap'[l][t] \in TableOf[t]
    BY <1>3 DEF LoadsOK, ReadBy, Wiring
  <2>2. snap'[l] = [t \in TableNames |-> snap'[l][t]]
    BY DEF LoadsOK
  <2> QED BY <2>1, <2>2, WholeConfig
<1>4. \A l \in Loaders : at'[l] \in Labels
  BY DEF LoadsOK
<1>5. \A a \in Admins : (at'[a] # "idle") = (step'[a] = "reload")
  BY DEF Typed, TypeOK, callVars
<1>6. {db', cfg'} \subseteq Config /\ unborn' \subseteq Unborn
  BY DEF Typed, TypeOK
<1>7. TypeOK'
  BY <1>3, <1>4, <1>5, <1>6 DEF TypeOK, Labels
<1> QED BY <1>1, <1>2, <1>7 DEF Typed

\* What is no step of a call does not undo what calls have achieved.
LEMMA SameSerial ==
  ASSUME IInv, UNCHANGED db, UNCHANGED callVars, NEW a \in Admins
  PROVE  Serial(a)'
BY DEF IInv, Serial, Cleaned, Enabled, Target, InEffect, callVars

\* The load of a call: until it has notified, the call itself owes the word.
LEMMA AdminLoadIInv ==
  ASSUME IInv, NEW a \in Admins, AdminLoad(a)
  PROVE  IInv'
<1> USE DEF Goto
<1>1. /\ Typed /\ Told /\ LoaderStep(a) /\ UNCHANGED callVars
      /\ UNCHANGED <<pollOk, unborn>>
      /\ a \in Loaders /\ Poll \in Loaders /\ a # Poll
      /\ at \in [Loaders -> Labels]
  BY ReloadAssumptions DEF IInv, AdminLoad, Loaders, Typed, LoadsOK
<1>2. /\ UNCHANGED <<db, dbUp>> /\ cfg' \in Config
      /\ pool' \in Rows(Backends, BackendRow) /\ budgets' \in Rows(Teams, OnOff)
      /\ notified' \in BOOLEAN /\ last' \in {"ok", "err"}
      /\ at[a] # "idle" /\ at'[a] # "idle"
      /\ \A k \in Loaders \ {a} : at'[k] = at[k] /\ snap'[k] = snap[k]
  BY <1>1, LoaderMemory
<1>3. Typed'
  <2>1. LoadsOK'
    BY <1>1, LoaderLoads
  <2>2. {dbUp', notified', pollOk'} \subseteq BOOLEAN
    BY <1>1, <1>2 DEF Typed, TypeOK
  <2>3. \A x \in Admins : (at'[x] # "idle") = (at[x] # "idle")
    BY <1>2 DEF Loaders
  <2> QED BY <1>1, <1>2, <2>1, <2>2, <2>3, LoadTyped
<1>4. step[a] = "reload" /\ step' = step /\ outcome' = outcome /\ call' = call
  BY <1>1, <1>2 DEF Typed, TypeOK, callVars
<1>5. Told'
  <2>1. CASE StoreOk(a)
    <3>1. /\ at[a] = "ok" /\ at' = [at EXCEPT ![a] = "loaded"]
          /\ UNCHANGED <<db, pool, budgets, cfg, snap, notified>>
      BY <1>1, <2>1 DEF StoreOk
    <3>2. \A x \in Admins : Owed(x) => Owed(x)'
      BY <1>1, <1>4, <3>1 DEF Owed, Loaders
    <3>3. PollFresh => PollFresh'
      BY <1>1, <1>2, <3>1 DEF PollFresh, InSync
    <3> QED BY <1>1, <1>2, <1>4, <3>1, <3>2, <3>3 DEF Told
  <2>2. CASE Notify(a)
    BY <2>2 DEF Notify, Told
  <2>3. CASE at'[a] \notin {"ok", "loaded"}
    BY <1>4, <2>3 DEF Told, Owed
  <2>4. \/ StoreOk(a) \/ Notify(a) \/ at'[a] \notin {"ok", "loaded"}
    BY <1>1 DEF LoaderStep, LoadBackends, LoadRouteEndpoints, LoadRoutes, LoadTeams,
                LoadApiKeys, Query, LoadFails, SyncBackends, SyncTeams, Publish
  <2> QED BY <2>1, <2>2, <2>3, <2>4
<1>6. \A x \in Admins : Serial(x)'
  BY <1>1, <1>2, SameSerial
<1> QED BY <1>3, <1>5, <1>6 DEF IInv

\* A load of the poll loop that read what the tables hold, and still does,
\* ends with the memory in step with them.
LEMMA PollFreshStep ==
  ASSUME Typed, PollFresh, LoaderStep(Poll), ~LoadFails(Poll)
  PROVE  PollFresh'
<1> USE DEF Goto
<1>1. /\ Poll \in Loaders /\ at \in [Loaders -> Labels]
      /\ snap = [k \in Loaders |-> [u \in TableNames |-> snap[k][u]]]
      /\ db \in Config
  BY DEF Typed, TypeOK, LoadsOK, Loaders
<1>2. ASSUME NEW t \in TableNames, NEW next \in TableNames \cup {"sync_backends"},
             ReadBy(next) = ReadBy(t) \cup {t}, Query(Poll, t, next)
      PROVE  PollFresh'
  <2>1. /\ at[Poll] = t /\ at'[Poll] = next /\ db' = db
        /\ snap'[Poll][t] = db[t]
        /\ \A u \in TableNames \ {t} : snap'[Poll][u] = snap[Poll][u]
    BY <1>1, <1>2 DEF Query
  <2>2. ReadBy(t) \subseteq TableNames
    BY DEF ReadBy, TableNames
  <2>3. \A u \in ReadBy(next) : snap'[Poll][u] = db[u]
    BY <1>2, <2>1, <2>2 DEF PollFresh
  <2>4. (ReadBy(at[Poll]))' = ReadBy(next)
    BY <2>1 DEF ReadBy
  <2>5. /\ at'[Poll] \in TableNames \cup Wiring
        /\ at'[Poll] \notin {"sync_teams", "publish"}
    BY <1>2, <2>1 DEF TableNames, Wiring
  <2> QED BY <2>1, <2>3, <2>4, <2>5 DEF PollFresh
<1>3. CASE LoadBackends(Poll)
  BY <1>2, <1>3 DEF LoadBackends, ReadBy, TableNames, Wiring
<1>4. CASE LoadRouteEndpoints(Poll)
  BY <1>2, <1>4 DEF LoadRouteEndpoints, ReadBy, TableNames, Wiring
<1>5. CASE LoadRoutes(Poll)
  BY <1>2, <1>5 DEF LoadRoutes, ReadBy, TableNames, Wiring
<1>6. CASE LoadTeams(Poll)
  BY <1>2, <1>6 DEF LoadTeams, ReadBy, TableNames, Wiring
<1>7. CASE LoadApiKeys(Poll)
  BY <1>2, <1>7 DEF LoadApiKeys, ReadBy, TableNames, Wiring
<1>8. ASSUME at[Poll] \in Wiring
      PROVE  \A t \in TableNames : snap[Poll][t] = db[t]
  BY <1>8 DEF PollFresh, ReadBy, Wiring
<1>9. CASE SyncBackends(Poll)
  <2>1. /\ at'[Poll] = "sync_teams" /\ UNCHANGED <<db, snap>>
        /\ pool' = snap[Poll].backends /\ at[Poll] \in Wiring
    BY <1>1, <1>9 DEF SyncBackends, Wiring
  <2>2. pool' = db.backends
    BY <1>8, <2>1 DEF TableNames
  <2> QED BY <1>8, <2>1, <2>2 DEF PollFresh, ReadBy, Wiring
<1>10. CASE SyncTeams(Poll)
  <2>1. /\ at'[Poll] = "publish" /\ UNCHANGED <<db, snap, pool>>
        /\ budgets' = snap[Poll].teams /\ at[Poll] = "sync_teams"
    BY <1>1, <1>10 DEF SyncTeams
  <2>2. budgets' = db.teams /\ pool = db.backends
    BY <1>8, <2>1 DEF TableNames, Wiring, PollFresh
  <2> QED BY <1>8, <2>1, <2>2 DEF PollFresh, ReadBy, Wiring
<1>11. CASE Publish(Poll)
  <2>1. /\ at'[Poll] = "ok" /\ UNCHANGED <<db, pool, budgets>>
        /\ cfg' = snap[Poll] /\ at[Poll] = "publish"
    BY <1>1, <1>11 DEF Publish
  <2>2. pool = db.backends /\ budgets = db.teams
    BY <2>1 DEF PollFresh, Wiring
  <2>3. snap[Poll] = db
    BY <1>1, <1>8, <2>1, ConfigTables DEF Wiring
  <2> QED BY <2>1, <2>2, <2>3 DEF PollFresh, InSync, TableNames, Wiring
<1>12. CASE Notify(Poll)
  BY <1>12 DEF Notify, PollFresh, TableNames, Wiring
<1>13. CASE StoreOk(Poll)
  BY <1>1, <1>13 DEF StoreOk, PollFresh, InSync, TableNames, Wiring
<1> QED BY <1>3, <1>4, <1>5, <1>6, <1>7, <1>9, <1>10, <1>11, <1>12, <1>13
        DEF LoaderStep

\* The poll loop wakes with nothing read, so it is fresh; it then stays so, or
\* fails.
LEMMA PollIInv ==
  ASSUME IInv, PollLoop
  PROVE  IInv'
<1> USE DEF Goto, BeginLoad
<1>1. /\ Typed /\ Told /\ UNCHANGED callVars /\ UNCHANGED unborn
      /\ Poll \in Loaders /\ Poll \notin Admins /\ at \in [Loaders -> Labels]
      /\ pollOk \in BOOLEAN
  BY ReloadAssumptions DEF IInv, PollLoop, Loaders, Typed, TypeOK, LoadsOK
<1>2. pollOk' \in BOOLEAN
  BY <1>1 DEF PollLoop
<1>3. CASE PollWake
  <2>1. /\ at[Poll] = "idle" /\ at' = [at EXCEPT ![Poll] = "backends"]
        /\ UNCHANGED <<db, dbUp, pool, budgets, cfg, snap, last>>
        /\ notified' \in BOOLEAN
    BY <1>1, <1>3 DEF PollWake, Typed, TypeOK
  <2>2. LoadsOK'
    BY <1>1, <2>1, MoveLoads DEF ReadBy, Labels, TableNames, Wiring
  <2>3. /\ pool' \in Rows(Backends, BackendRow) /\ budgets' \in Rows(Teams, OnOff)
        /\ cfg' \in Config /\ {dbUp', notified', pollOk'} \subseteq BOOLEAN
        /\ last' \in {"ok", "err"}
    BY <1>1, <1>2, <2>1 DEF Typed, TypeOK
  <2>4. \A x \in Admins : (at'[x] # "idle") = (at[x] # "idle")
    BY <1>1, <2>1
  <2>5. Typed'
    BY <1>1, <2>1, <2>2, <2>3, <2>4, LoadTyped
  <2>6. PollFresh'
    BY <1>1, <2>1 DEF PollFresh, ReadBy, TableNames, Wiring
  <2>7. \A x \in Admins : Serial(x)'
    BY <1>1, <2>1, SameSerial
  <2> QED BY <2>5, <2>6, <2>7 DEF IInv, Told
<1>4. CASE LoaderStep(Poll)
  <2>1. /\ UNCHANGED <<db, dbUp>> /\ cfg' \in Config
        /\ pool' \in Rows(Backends, BackendRow) /\ budgets' \in Rows(Teams, OnOff)
        /\ notified' \in BOOLEAN /\ last' \in {"ok", "err"} /\ at[Poll] # "idle"
        /\ \A x \in Admins : at'[x] = at[x]
    BY <1>1, <1>4, LoaderMemory DEF Loaders
  <2>2. Typed'
    <3>1. LoadsOK'
      BY <1>1, <1>4, LoaderLoads
    <3>2. {dbUp', notified', pollOk'} \subseteq BOOLEAN
      BY <1>1, <1>2, <2>1 DEF Typed, TypeOK
    <3>3. \A x \in Admins : (at'[x] # "idle") = (at[x] # "idle")
      BY <2>1
    <3> QED BY <1>1, <2>1, <3>1, <3>2, <3>3, LoadTyped
  <2>3. notified => notified'
    BY <1>4 DEF LoaderStep, LoadBackends, LoadRouteEndpoints, LoadRoutes, LoadTeams,
                LoadApiKeys, Query, LoadFails, SyncBackends, SyncTeams, Publish,
                Notify, StoreOk
  <2>4. \A x \in Admins : /\ Owed(x) => Owed(x)'
                          /\ outcome'[x] = outcome[x]
    BY <1>1, <2>1 DEF Owed, callVars
  <2>5. Told'
    <3>1. CASE LoadFails(Poll)
      <4>1. at'[Poll] = "idle" /\ ~StoreOk(Poll)
        BY <1>1, <3>1 DEF LoadFails, StoreOk, TableNames
      <4>2. pollOk' = FALSE
        BY <3>1, <4>1 DEF PollLoop
      <4> QED BY <4>1, <4>2 DEF Told
    <3>2. CASE ~LoadFails(Poll)
      <4>1. PollFresh => PollFresh'
        BY <1>1, <1>4, <3>2, PollFreshStep
      <4> QED BY <1>1, <2>1, <2>3, <2>4, <4>1 DEF Told
    <3> QED BY <3>1, <3>2
  <2>6. \A x \in Admins : Serial(x)'
    BY <1>1, <2>1, SameSerial
  <2> QED BY <2>2, <2>5, <2>6 DEF IInv
<1> QED BY <1>3, <1>4 DEF PollLoop, PollStep

\* The database going and coming back preserves the invariant.
LEMMA DatabaseIInv ==
  ASSUME IInv, Database
  PROVE  IInv'
<1>1. /\ Typed /\ Told /\ UNCHANGED callVars
      /\ UNCHANGED <<db, pool, budgets, cfg, at, snap, notified, last>>
      /\ UNCHANGED <<pollOk, unborn>> /\ dbUp' \in BOOLEAN
  BY DEF IInv, Database, FlipDb
<1>2. Typed'
  <2>1. LoadsOK'
    BY <1>1 DEF Typed, LoadsOK, ReadBy
  <2>2. /\ pool' \in Rows(Backends, BackendRow) /\ budgets' \in Rows(Teams, OnOff)
        /\ cfg' \in Config /\ {dbUp', notified', pollOk'} \subseteq BOOLEAN
        /\ last' \in {"ok", "err"}
    BY <1>1 DEF Typed, TypeOK
  <2> QED BY <1>1, <2>1, <2>2, LoadTyped
<1>3. Told'
  BY <1>1 DEF Told, Owed, PollFresh, InSync, callVars
<1>4. \A a \in Admins : Serial(a)'
  BY <1>1, SameSerial
<1> QED BY <1>2, <1>3, <1>4 DEF IInv

(***************************************************************************)
(* The theorems                                                            *)
(***************************************************************************)

\* The invariant holds when the router starts: it has just loaded the tables.
LEMMA InitIInv == Init => IInv
<1> SUFFICES ASSUME Init PROVE IInv
  OBVIOUS
<1> USE DEF Init, ReloadInit
<1>1. /\ Boot \in Config /\ BridgesChat(Boot.routes)
      /\ Boot.routes \in Rows(Models, RouteRow)
      /\ Boot.backends \in Rows(Backends, BackendRow)
      /\ Boot.teams \in Rows(Teams, OnOff)
  BY AdminAssumptions DEF Config
<1>2. TypeOK
  <2>1. \A l \in Loaders : at[l] = "idle" /\ "idle" \notin Wiring
    BY DEF Wiring
  <2> QED BY <1>1, <2>1 DEF TypeOK, Loaders
<1>3. TasksOK
  BY <1>1 DEF TasksOK, Steps, Outcomes
<1>4. LoadsOK
  BY DEF LoadsOK, Labels, Nothing, ReadBy, Wiring
<1>5. \A a \in Admins : Serving(a) /\ Validated(a) /\ KeyMade(a)
  BY DEF Serving, Validated, KeyMade, Idle, Saves
<1>6. Told
  BY DEF Told, PollFresh, InSync, Loaders, TableNames, Wiring
<1> QED BY <1>1, <1>2, <1>3, <1>4, <1>5, <1>6
        DEF IInv, Typed, BridgeRoutesChat, Serial

\* A call that is dropped leaves the tables as they are and its load behind.
LEMMA DroppedIInv ==
  ASSUME IInv, NEW a \in Admins, Dropped(a)
  PROVE  IInv'
<1> USE DEF To, Goto
<1>1. /\ Typed /\ \A x \in Admins : Serial(x)
      /\ a \in Loaders /\ a # Poll /\ step[a] # "idle"
      /\ UNCHANGED <<db, dbUp, pool, budgets, cfg, notified, last, call, read, todo,
                     alone, pollOk, unborn>>
  BY ReloadAssumptions DEF IInv, Dropped, Loaders
<1>2. /\ step' = [step EXCEPT ![a] = "done"] /\ at' = [at EXCEPT ![a] = "idle"]
      /\ outcome' = [outcome EXCEPT ![a] = "dropped"]
      /\ snap' = [snap EXCEPT ![a] = Nothing]
  BY DEF Dropped
<1>3. /\ step \in [Admins -> Steps] /\ outcome \in [Admins -> Outcomes]
      /\ at \in [Loaders -> Labels]
      /\ snap = [l \in Loaders |-> [t \in TableNames |-> snap[l][t]]]
  BY <1>1 DEF Typed, TasksOK, LoadsOK
<1>4. /\ at'[a] = "idle" /\ snap'[a] = Nothing
      /\ step'[a] = "done" /\ outcome'[a] = "dropped"
      /\ \A l \in Loaders \ {a} : at'[l] = at[l] /\ snap'[l] = snap[l]
      /\ \A x \in Admins \ {a} : step'[x] = step[x] /\ outcome'[x] = outcome[x]
  BY <1>1, <1>2, <1>3
<1>5. TasksOK'
  <2>1. step' \in [Admins -> Steps] /\ outcome' \in [Admins -> Outcomes]
    BY <1>2, <1>3 DEF Steps, Outcomes
  <2> QED BY <1>1, <2>1 DEF Typed, TasksOK
<1>6. LoadsOK'
  <2>1. at' \in [Loaders -> Labels]
    BY <1>2, <1>3 DEF Labels
  <2>2. snap' = [l \in Loaders |-> [t \in TableNames |-> snap'[l][t]]]
    BY <1>1, <1>2, <1>3, <1>4 DEF Nothing
  <2>3. ASSUME NEW l \in Loaders, NEW t \in TableNames
        PROVE  IF t \in ReadBy(at'[l]) THEN snap'[l][t] \in TableOf[t]
                                       ELSE snap'[l][t] = NoSnap
    <3>1. CASE l = a
      <4>1. ReadBy(at'[l]) = {} /\ snap'[l][t] = NoSnap
        BY <1>4, <3>1 DEF ReadBy, Wiring, Nothing
      <4> QED BY <4>1
    <3>2. CASE l # a
      BY <1>1, <1>4, <3>2 DEF Typed, LoadsOK
    <3> QED BY <3>1, <3>2
  <2> QED BY <2>1, <2>2, <2>3 DEF LoadsOK, ReadBy
<1>7. TypeOK'
  <2>1. ASSUME NEW l \in Loaders
        PROVE  at'[l] \in Labels /\ (at'[l] \in Wiring => snap'[l] \in Config)
    BY <1>1, <1>3, <1>4 DEF Typed, TypeOK, Labels, Wiring
  <2>2. ASSUME NEW x \in Admins
        PROVE  (at'[x] # "idle") = (step'[x] = "reload")
    BY <1>1, <1>4 DEF Typed, TypeOK, Loaders
  <2> QED BY <1>1, <2>1, <2>2 DEF Typed, TypeOK, Labels
<1>8. BridgeRoutesChat'
  BY <1>1 DEF Typed, BridgeRoutesChat, BridgesChat
<1>9. ASSUME NEW x \in Admins
      PROVE  Serving(x)' /\ Validated(x)' /\ KeyMade(x)'
  <2>1. Serving(x) /\ Validated(x) /\ KeyMade(x)
    BY <1>1 DEF Typed
  <2>2. CASE x = a
    BY <1>1, <1>4, <2>1, <2>2 DEF Serving, Validated, KeyMade
  <2>3. CASE x # a
    BY <1>1, <1>4, <2>1, <2>3 DEF Serving, Validated, KeyMade, BridgeIsChat
  <2> QED BY <2>2, <2>3
<1>10. Told'
  BY <1>4 DEF Told
<1>11. ASSUME NEW x \in Admins PROVE Serial(x)'
  <2>1. CASE x = a
    BY <1>4, <2>1 DEF Serial
  <2>2. CASE x # a
    <3>1. Serial(x) /\ step'[x] = step[x] /\ \A y \in Admins :
            step[y] \in {"idle", "done"} => step'[y] \in {"idle", "done"}
      BY <1>1, <1>4, <2>2
    <3>2. (Cleaned(x) => Cleaned(x)') /\ (Enabled(x) => Enabled(x)')
      BY <1>1, <3>1 DEF Cleaned, Enabled, Target, Refs
    <3>3. InEffect(call[x]) => InEffect(call[x])'
      BY <1>1 DEF InEffect, Refs
    <3> QED BY <1>1, <3>1, <3>2, <3>3 DEF Serial
  <2> QED BY <2>1, <2>2
<1> QED BY <1>5, <1>6, <1>7, <1>8, <1>9, <1>10, <1>11 DEF IInv, Typed

\* Every step preserves it.
LEMMA NextIInv == IInv /\ [Next]_vars => IInv'
<1> SUFFICES ASSUME IInv, [Next]_vars PROVE IInv'
  OBVIOUS
<1>1. CASE Next
  BY <1>1, BeginIInv, CallIInv, AdminLoadIInv, DroppedIInv, PollIInv, DatabaseIInv
     DEF Next
<1>2. CASE UNCHANGED vars
  <2>1. /\ Typed /\ Told /\ UNCHANGED callVars /\ UNCHANGED <<pollOk, unborn>>
        /\ UNCHANGED <<db, dbUp, pool, budgets, cfg, at, snap, notified, last>>
    BY <1>2 DEF IInv, vars, reloadVars
  <2>2. Typed'
    <3>1. LoadsOK'
      BY <2>1 DEF Typed, LoadsOK, ReadBy
    <3>2. /\ pool' \in Rows(Backends, BackendRow) /\ budgets' \in Rows(Teams, OnOff)
          /\ cfg' \in Config /\ {dbUp', notified', pollOk'} \subseteq BOOLEAN
          /\ last' \in {"ok", "err"}
      BY <2>1 DEF Typed, TypeOK
    <3> QED BY <2>1, <3>1, <3>2, LoadTyped
  <2>3. Told'
    BY <2>1 DEF Told, Owed, PollFresh, InSync, callVars
  <2>4. \A a \in Admins : Serial(a)'
    BY <2>1, SameSerial
  <2> QED BY <2>2, <2>3, <2>4 DEF IInv
<1> QED BY <1>1, <1>2

\* It holds in every state.
LEMMA Invariance == Spec => []IInv
BY InitIInv, NextIInv, PTL DEF Spec

\* Type correctness: the tables, the snapshots that are wired and published and
\* the router's memory are well-formed, whatever calls and loads overlap
\* (admin/mod.rs, config/mod.rs).
THEOREM TypeCorrect == Spec => []TypeOK
<1>1. IInv => TypeOK
  BY DEF IInv, Typed
<1> QED BY <1>1, Invariance, PTL

\* A bridge route speaks OpenAI chat, for any number of calls that save, patch,
\* rename, toggle and clean routes at the same time (admin/mod.rs:2810-2831).
THEOREM BridgeRoutesChatHolds == Spec => []BridgeRoutesChat
<1>1. IInv => BridgeRoutesChat
  BY DEF IInv, Typed
<1> QED BY <1>1, Invariance, PTL

\* Once the calls are answered, a configuration that is stale, or is about to be
\* made so by a load under way, has been announced to the poll loop
\* (admin/mod.rs:91-110, main.rs:165-187).
THEOREM StaleIsNotifiedHolds == Spec => []StaleIsNotified
<1>1. IInv => StaleIsNotified
  <2> SUFFICES ASSUME IInv, Quiet PROVE StaleIsNotified
    BY DEF StaleIsNotified
  <2>1. Told /\ Typed /\ Poll \in Loaders
    BY DEF IInv, Loaders
  <2>2. notified \/ PollFresh
    <3>1. \A a \in Admins : ~Owed(a) /\ outcome[a] \notin {"error", "gone", "dropped"}
      BY DEF Quiet, Owed
    <3> QED BY <2>1, <3>1 DEF Told, Quiet
  <2>3. ASSUME PollFresh, at[Poll] \in TableNames \cup Wiring
        PROVE  Current(Poll)
    <3>1. ASSUME NEW t \in TableNames PROVE snap[Poll][t] \in {NoSnap, db[t]}
      <4>1. CASE t \in ReadBy(at[Poll])
        BY <2>3, <4>1 DEF PollFresh
      <4>2. CASE t \notin ReadBy(at[Poll])
        BY <2>1, <4>2 DEF Typed, LoadsOK
      <4> QED BY <4>1, <4>2
    <3> QED BY <3>1 DEF Current
  <2>4. ASSUME PollFresh, at[Poll] \notin TableNames \cup Wiring
        PROVE  at[Poll] \in {"idle", "ok"} /\ InSync
    BY <2>4 DEF PollFresh
  <2> QED BY <2>2, <2>3, <2>4 DEF StaleIsNotified
<1> QED BY <1>1, Invariance, PTL

\* A call that no other overlaps with leaves behind what it reports: no route
\* refers to the backend it deleted, the backends of the route it saved or
\* switched on are enabled (admin/mod.rs:1323-1415, 2702-2717, 2950-2986).
THEOREM SerialCallsTakeEffectHolds == Spec => []SerialCallsTakeEffect
<1>1. IInv => SerialCallsTakeEffect
  BY DEF IInv, Serial, SerialCallsTakeEffect
<1> QED BY <1>1, Invariance, PTL
=============================================================================
