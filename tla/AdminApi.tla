------------------------------ MODULE AdminApi ------------------------------
(***************************************************************************)
(* The admin API (src/src/admin/mod.rs): the calls that change the tables  *)
(* of the configuration, composed with the reloads of ConfigReload.        *)
(*                                                                         *)
(* A call is a task: every SQL statement is a step, none of them shares a  *)
(* transaction with another, and each call ends in reload_now.  When the   *)
(* database is down a statement fails and the call ends with an error,     *)
(* leaving behind what it did before.                                      *)
(*                                                                         *)
(* Of a row the model keeps what other statements, the loader or the proxy *)
(* decide on.  The usage ledger is not part of it: the count of a model's  *)
(* or backend's rows may be zero or not whenever a call asks.              *)
(***************************************************************************)
EXTENDS ConfigReload

CONSTANTS
  Backends,  \* ids of backends
  Unborn,    \* ids the sequence has not given out when the router starts
  Models,    \* public model names
  Teams, Keys,
  NoRow,     \* no row with that key
  None,      \* an optional field that is absent
  Boot,      \* the tables when the router starts
  Calls      \* the calls each task may serve, one of them (bound)

VARIABLES
  call,      \* the call each task serves
  step,      \* where it is
  read,      \* the rows of model_routes delete_backend has selected
  todo,      \* what a loop of statements has still to do
  outcome,   \* how the call ended: "ok", "refused" (4xx), "gone" (the 404 of a
             \* delete_backend that has cleaned routes), "error" (5xx) or
             \* "dropped" (no answer)
  alone,     \* history: no other call has overlapped with this one
  pollOk,    \* history: has the poll loop's last attempt succeeded?
  unborn     \* ids not given out yet

callVars == <<call, step, read, todo, outcome, alone>>
vars == <<reloadVars, callVars, pollOk, unborn>>

Idle == [op |-> "none"]

(***************************************************************************)
(* The shape of the rows and of the calls                                  *)
(***************************************************************************)

Rows(key, row) == [key -> row \cup {NoRow}]
BackendRow == [enabled : BOOLEAN, format : {"openai", "anthropic"},
               key : {"env", "file"}]
RouteRow == [ids : SUBSET Backends, fallback : Backends \cup {None},
             enabled : BOOLEAN, bridge : BOOLEAN, shape : {"chat", "anthropic"}]
OnOff == [enabled : BOOLEAN]

Config == [backends  : Rows(Backends, BackendRow),
           endpoints : SUBSET (Models \X Backends),
           routes    : Rows(Models, RouteRow),
           teams     : Rows(Teams, OnOff),
           keys      : Rows(Keys, OnOff)]

\* An UPDATE sets some of the columns, and a new row is of the same kind.
BackendPatch ==
  UNION {{[f \in fs |-> row[f]] : row \in BackendRow} :
           fs \in SUBSET {"enabled", "format", "key"}}

\* The form of a route may omit the bridge flag when it patches one.
RouteForm == [ids : SUBSET Backends, fallback : Backends \cup {None},
              enabled : BOOLEAN, bridge : BOOLEAN \cup {None},
              shape : {"chat", "anthropic"}]
EndpointForm == {None} \cup SUBSET Backends

BackendCall ==
       [op : {"create_backend"}, row : BackendRow]
  \cup [op : {"update_backend"}, id : Backends, set : BackendPatch]
  \cup [op : {"put_backend_key", "delete_backend"}, id : Backends]

RouteCall ==
       [op : {"upsert_route"}, id : {None}, name : Models, row : RouteRow,
        endpoints : EndpointForm]
  \cup [op : {"patch_route"}, id : Models, name : Models, row : RouteForm,
        endpoints : EndpointForm]
  \cup [op : {"delete_route"}, id : Models]
  \cup [op : {"toggle_route"}, id : Models, enabled : BOOLEAN]

TableCall ==
       [op : {"insert", "update"}, table : {"teams"}, id : Teams, set : OnOff]
  \cup [op : {"insert", "update"}, table : {"keys"}, id : Keys, set : OnOff]

Call == BackendCall \cup RouteCall \cup TableCall

\* A bridge route speaks OpenAI chat.
BridgesChat(routes) ==
  \A m \in Models :
    routes[m] # NoRow /\ routes[m].bridge => routes[m].shape = "chat"

\* NoRow is not a row; the router starts on tables that earlier calls
\* have left, and every call has been parsed (serde).
ASSUME AdminAssumptions ==
  /\ NoRow \notin BackendRow \cup RouteRow \cup OnOff
  /\ Unborn \subseteq Backends
  /\ Boot \in Config /\ BridgesChat(Boot.routes)
  /\ \A a \in Admins : Calls[a] \subseteq Call

(***************************************************************************)
(* Control                                                                 *)
(***************************************************************************)

\* The backends a route refers to.
Refs(row) == row.ids \cup (IF row.fallback = None THEN {} ELSE {row.fallback})

\* A row with some fields replaced.
Patched(row, set) ==
  [f \in DOMAIN row |-> IF f \in DOMAIN set THEN set[f] ELSE row[f]]

To(a, label) == step' = [step EXCEPT ![a] = label]

\* Task a is at `label` of a call of one of the kinds `ops`.
In(a, ops, label) == call[a].op \in ops /\ step[a] = label

\* reload_now, the last thing a call does that has gone well.
Reload(a) == To(a, "reload") /\ BeginLoad(a) /\ UNCHANGED outcome

\* The call ends here.
End(a, result) ==
  /\ To(a, "done")
  /\ outcome' = [outcome EXCEPT ![a] = result]
  /\ UNCHANGED at

\* The next statement.
Continue(a, label) == To(a, label) /\ UNCHANGED <<outcome, at>>

Rest == <<dbUp, pool, budgets, cfg, snap, notified, last, pollOk, alone>>

\* The call is accepted (check_admin_auth); a call that is not changes nothing.
Begin(a, c) ==
  /\ step[a] = "idle"
  /\ call' = [call EXCEPT ![a] = c]
  /\ To(a, "check")
  /\ LET others == {x \in Admins \ {a} : step[x] \notin {"idle", "done"}}
     IN alone' = [x \in Admins |-> IF x = a THEN others = {}
                                   ELSE alone[x] /\ x \notin others]
  /\ UNCHANGED <<reloadVars, read, todo, outcome, pollOk, unborn>>

\* A statement fails because the database does.
StatementFails(a) ==
  /\ step[a] \notin {"idle", "done", "reload"} /\ ~dbUp
  /\ End(a, "error")
  /\ UNCHANGED <<db, call, read, todo, unborn, Rest>>

(***************************************************************************)
(* Backends                                                                *)
(***************************************************************************)

CreateBackend(a) ==
  /\ In(a, {"create_backend"}, "check") /\ dbUp
  /\ \E b \in unborn : /\ db' = [db EXCEPT !.backends[b] = call[a].row]
                       /\ unborn' = unborn \ {b}
  /\ Reload(a)
  /\ UNCHANGED <<call, read, todo, Rest>>

UpdateBackend(a) ==
  /\ In(a, {"update_backend"}, "check") /\ dbUp
  /\ LET b == call[a].id
     IN IF db.backends[b] = NoRow
        THEN End(a, "refused") /\ UNCHANGED db
        ELSE /\ db' = [db EXCEPT !.backends[b] = Patched(@, call[a].set)]
             /\ Reload(a)
  /\ UNCHANGED <<call, read, todo, unborn, Rest>>

\* put_backend_key: the row is looked up, the file written, the row updated,
\* whether it is still there or not.
FindBackend(a) ==
  /\ In(a, {"put_backend_key"}, "check") /\ dbUp
  /\ IF db.backends[call[a].id] = NoRow THEN End(a, "refused")
                                        ELSE Continue(a, "write")
  /\ UNCHANGED <<db, call, read, todo, unborn, Rest>>

PutBackendKey(a) ==
  /\ In(a, {"put_backend_key"}, "write") /\ dbUp
  /\ db' = [db EXCEPT !.backends[call[a].id] =
                        IF @ = NoRow THEN NoRow ELSE Patched(@, [key |-> "file"])]
  /\ Reload(a)
  /\ UNCHANGED <<call, read, todo, unborn, Rest>>

\* The usage check that guards deleting and renaming.
CheckUsage(a) ==
  /\ In(a, {"delete_backend", "delete_route"}, "check") /\ dbUp
  /\ \/ End(a, "refused")
     \/ Continue(a, IF call[a].op = "delete_backend" THEN "look" ELSE "write")
  /\ UNCHANGED <<db, call, read, todo, unborn, Rest>>

\* delete_backend selects all routes: an enabled one that refers to the backend
\* forbids the deletion, the disabled ones are to be cleaned.
FindRoutes(a) ==
  /\ In(a, {"delete_backend"}, "look") /\ dbUp
  /\ LET using == {m \in Models : /\ db.routes[m] # NoRow
                                  /\ call[a].id \in Refs(db.routes[m])}
     IN IF \E m \in using : db.routes[m].enabled
        THEN End(a, "refused") /\ UNCHANGED <<read, todo>>
        ELSE /\ read' = [read EXCEPT ![a] = db.routes]
             /\ todo' = [todo EXCEPT ![a] = using]
             /\ Continue(a, "clean")
  /\ UNCHANGED <<db, call, unborn, Rest>>

\* What is left of a route without the backend.
Without(row, b) ==
  [row EXCEPT !.ids = @ \ {b}, !.enabled = FALSE,
              !.fallback = IF @ = b THEN None ELSE @]

\* One disabled route is cleaned, as it was when it was selected: a route left
\* without backends is deleted, endpoints and all.
CleanRoute(a, m) ==
  /\ In(a, {"delete_backend"}, "clean") /\ dbUp /\ m \in todo[a]
  /\ LET left == Without(read[a][m], call[a].id)
     IN db' = CASE Refs(left) = {} ->
                     [db EXCEPT !.routes[m] = NoRow,
                                !.endpoints = @ \ ({m} \X Backends)]
                [] Refs(left) # {} /\ db.routes[m] # NoRow ->
                     [db EXCEPT !.routes[m] = Patched(@, [ids |-> left.ids,
                        fallback |-> left.fallback, enabled |-> FALSE])]
                [] OTHER -> db
  /\ todo' = [todo EXCEPT ![a] = @ \ {m}]
  /\ UNCHANGED <<call, step, read, outcome, at, unborn, Rest>>

\* A row that another call has deleted since is a 404, without a reload: the
\* routes cleaned for it stay cleaned.
DeleteBackend(a) ==
  /\ In(a, {"delete_backend"}, "clean") /\ dbUp /\ todo[a] = {}
  /\ LET b == call[a].id
     IN IF db.backends[b] = NoRow
        THEN End(a, "gone") /\ UNCHANGED db
        ELSE /\ db' = [db EXCEPT !.backends[b] = NoRow,
                                 !.endpoints = @ \ (Models \X {b})]
             /\ Reload(a)
  /\ UNCHANGED <<call, read, todo, unborn, Rest>>

(***************************************************************************)
(* Routes                                                                  *)
(***************************************************************************)

\* validate_route, as far as the model keeps the fields.
NamesBackends(p) == p.row.ids # {}
BridgeIsChat(p) == p.row.bridge => p.row.shape = "chat"
EndpointsListed(p) == p.endpoints # None => p.endpoints \subseteq p.row.ids
ValidRoute(p) == NamesBackends(p) /\ BridgeIsChat(p) /\ EndpointsListed(p)

\* upsert_route: the name must be free, the route valid.
CheckName(a) ==
  /\ In(a, {"upsert_route"}, "check") /\ dbUp
  /\ IF db.routes[call[a].name] # NoRow \/ ~ValidRoute(call[a])
     THEN End(a, "refused")
     ELSE Continue(a, IF call[a].row.bridge THEN "bridge" ELSE "write")
  /\ UNCHANGED <<db, call, read, todo, unborn, Rest>>

\* Mutant of KeepFlag: the flag is kept after the validation.
KeepFlagLate(a) ==
  /\ In(a, {"patch_route"}, "check") /\ dbUp
  /\ LET old == db.routes[call[a].id]
         p == [call[a] EXCEPT !.row.bridge =
                 IF @ # None THEN @ ELSE old # NoRow /\ old.bridge]
         q == [call[a] EXCEPT !.row.bridge = IF @ # None THEN @ ELSE FALSE]
     IN /\ call' = [call EXCEPT ![a] = p]
        /\ IF ValidRoute(q)
           THEN Continue(a, IF q.row.bridge THEN "bridge" ELSE "rename")
           ELSE End(a, "refused")
  /\ UNCHANGED <<db, read, todo, unborn, Rest>>

\* patch_route: an omitted bridge flag is taken from the row, then the route is
\* validated.
KeepFlag(a) ==
  /\ In(a, {"patch_route"}, "check") /\ dbUp
  /\ LET old == db.routes[call[a].id]
         p == [call[a] EXCEPT !.row.bridge =
                 IF @ # None THEN @ ELSE old # NoRow /\ old.bridge]
     IN /\ call' = [call EXCEPT ![a] = p]
        /\ IF ValidRoute(p)
           THEN Continue(a, IF p.row.bridge THEN "bridge" ELSE "rename")
           ELSE End(a, "refused")
  /\ UNCHANGED <<db, read, todo, unborn, Rest>>

\* validate_bridge_backends: all of them exist and speak the OpenAI format.
CheckBridge(a) ==
  /\ In(a, {"upsert_route", "patch_route"}, "bridge") /\ dbUp
  /\ IF \A b \in Refs(call[a].row) :
          db.backends[b] # NoRow /\ db.backends[b].format = "openai"
     THEN Continue(a, IF call[a].op = "upsert_route" THEN "write" ELSE "rename")
     ELSE End(a, "refused")
  /\ UNCHANGED <<db, call, read, todo, unborn, Rest>>

\* A new name must be free and the old one without usage.
CheckRename(a) ==
  /\ In(a, {"patch_route"}, "rename") /\ dbUp
  /\ \/ /\ call[a].name # call[a].id
        /\ End(a, "refused")
     \/ /\ call[a].name = call[a].id \/ db.routes[call[a].name] = NoRow
        /\ Continue(a, "write")
  /\ UNCHANGED <<db, call, read, todo, unborn, Rest>>

\* What follows the write of a route: its endpoints, the activation of the
\* backends it refers to, the reload.
AfterWrite(a) ==
  LET c == call[a]
  IN CASE c.endpoints # None ->
            /\ Continue(a, "endpoints")
            /\ UNCHANGED todo
       [] c.endpoints = None /\ c.row.enabled ->
            /\ Continue(a, "enable")
            /\ todo' = [todo EXCEPT ![a] = Refs(c.row)]
       [] OTHER -> Reload(a) /\ UNCHANGED todo

\* The INSERT: another call may have taken the name since.
InsertRoute(a) ==
  /\ In(a, {"upsert_route"}, "write") /\ dbUp
  /\ IF db.routes[call[a].name] # NoRow
     THEN End(a, "error") /\ UNCHANGED <<db, todo>>
     ELSE /\ db' = [db EXCEPT !.routes[call[a].name] = call[a].row]
          /\ AfterWrite(a)
  /\ UNCHANGED <<call, read, unborn, Rest>>

\* The UPDATE: the row may be gone, and a rename fails if the new name has been
\* taken since or if rows hold on to the old one: those of
\* model_route_endpoints or that of model_route_counters, which is not modelled
\* here and may be there for any route.
UpdateRoute(a) ==
  /\ In(a, {"patch_route"}, "write") /\ dbUp
  /\ LET old == call[a].id
         new == call[a].name
         free == /\ db.routes[new] = NoRow
                 /\ \A b \in Backends : <<old, b>> \notin db.endpoints
     IN \/ /\ db.routes[old] = NoRow
           /\ End(a, "refused") /\ UNCHANGED <<db, todo>>
        \/ /\ db.routes[old] # NoRow /\ old # new
           /\ End(a, "error") /\ UNCHANGED <<db, todo>>
        \/ /\ db.routes[old] # NoRow /\ (old = new \/ free)
           /\ db' = [db EXCEPT !.routes = [@ EXCEPT ![old] = NoRow,
                                                   ![new] = call[a].row]]
           /\ AfterWrite(a)
  /\ UNCHANGED <<call, read, unborn, Rest>>

\* replace_route_endpoints: the DELETE, then one INSERT for each.
DeleteEndpoints(a) ==
  /\ step[a] = "endpoints" /\ dbUp
  /\ db' = [db EXCEPT !.endpoints = @ \ ({call[a].name} \X Backends)]
  /\ todo' = [todo EXCEPT ![a] = call[a].endpoints]
  /\ Continue(a, "insert")
  /\ UNCHANGED <<call, read, unborn, Rest>>

\* The foreign keys: route and backend must be there.
InsertEndpoint(a, b) ==
  /\ step[a] = "insert" /\ dbUp /\ b \in todo[a]
  /\ IF db.routes[call[a].name] = NoRow \/ db.backends[b] = NoRow
     THEN End(a, "error") /\ UNCHANGED <<db, todo>>
     ELSE /\ db' = [db EXCEPT !.endpoints = @ \cup {<<call[a].name, b>>}]
          /\ todo' = [todo EXCEPT ![a] = @ \ {b}]
          /\ UNCHANGED <<step, outcome, at>>
  /\ UNCHANGED <<call, read, unborn, Rest>>

EndpointsDone(a) ==
  /\ step[a] = "insert" /\ todo[a] = {}
  /\ IF call[a].row.enabled
     THEN /\ Continue(a, "enable")
          /\ todo' = [todo EXCEPT ![a] = Refs(call[a].row)]
     ELSE Reload(a) /\ UNCHANGED todo
  /\ UNCHANGED <<db, call, read, unborn, Rest>>

\* enable_referenced_backends: one UPDATE for each.
EnableBackend(a, b) ==
  /\ step[a] = "enable" /\ dbUp /\ b \in todo[a]
  /\ db' = [db EXCEPT !.backends[b] =
                        IF @ = NoRow THEN NoRow ELSE Patched(@, [enabled |-> TRUE])]
  /\ todo' = [todo EXCEPT ![a] = @ \ {b}]
  /\ UNCHANGED <<call, step, read, outcome, at, unborn, Rest>>

EnableDone(a) ==
  /\ step[a] = "enable" /\ todo[a] = {}
  /\ Reload(a)
  /\ UNCHANGED <<db, call, read, todo, unborn, Rest>>

DeleteRoute(a) ==
  /\ In(a, {"delete_route"}, "write") /\ dbUp
  /\ LET m == call[a].id
     IN IF db.routes[m] = NoRow
        THEN End(a, "refused") /\ UNCHANGED db
        ELSE /\ db' = [db EXCEPT !.routes[m] = NoRow,
                                 !.endpoints = @ \ ({m} \X Backends)]
             /\ Reload(a)
  /\ UNCHANGED <<call, read, todo, unborn, Rest>>

\* toggle_route_enabled: the UPDATE ...
ToggleRoute(a) ==
  /\ In(a, {"toggle_route"}, "check") /\ dbUp
  /\ LET m == call[a].id
     IN IF db.routes[m] = NoRow
        THEN End(a, "refused") /\ UNCHANGED db
        ELSE /\ db' = [db EXCEPT !.routes[m].enabled = call[a].enabled]
             /\ IF call[a].enabled THEN Continue(a, "reread") ELSE Reload(a)
  /\ UNCHANGED <<call, read, todo, unborn, Rest>>

\* Mutant of RereadRoute: the fallback is not activated.
RereadRoutePrimary(a) ==
  /\ In(a, {"toggle_route"}, "reread") /\ dbUp
  /\ LET row == db.routes[call[a].id]
     IN IF row = NoRow THEN End(a, "refused") /\ UNCHANGED todo
        ELSE todo' = [todo EXCEPT ![a] = row.ids] /\ Continue(a, "enable")
  /\ UNCHANGED <<db, call, read, unborn, Rest>>

\* ... and, when it was switched on, the backends of the row as it is now.
RereadRoute(a) ==
  /\ In(a, {"toggle_route"}, "reread") /\ dbUp
  /\ LET row == db.routes[call[a].id]
     IN IF row = NoRow THEN End(a, "refused") /\ UNCHANGED todo
        ELSE todo' = [todo EXCEPT ![a] = Refs(row)] /\ Continue(a, "enable")
  /\ UNCHANGED <<db, call, read, unborn, Rest>>

(***************************************************************************)
(* Teams and keys                                                          *)
(***************************************************************************)

\* create_team, create_key, update_team, disable_key, update_key: one statement.
\* An UPDATE wants a row.  Teams are never deleted: that of a key is there.
WriteRow(a, table) ==
  /\ call[a].op \in {"insert", "update"} /\ call[a].table = table
  /\ step[a] = "check" /\ dbUp
  /\ LET old == db[table][call[a].id]
         new == IF call[a].op = "insert" THEN call[a].set ELSE Patched(old, call[a].set)
     IN CASE call[a].op = "update" /\ old = NoRow ->
               End(a, "refused") /\ UNCHANGED db
          [] call[a].op = "insert" /\ old # NoRow ->
               End(a, "error") /\ UNCHANGED db
          [] OTHER -> db' = [db EXCEPT ![table][call[a].id] = new] /\ Reload(a)
  /\ UNCHANGED <<call, read, todo, unborn, Rest>>

WriteTeam(a) == WriteRow(a, "teams")
WriteKey(a) == WriteRow(a, "keys")

(***************************************************************************)
(* The end of a call                                                       *)
(***************************************************************************)

IsCreateKey(c) == c.op = "insert" /\ c.table = "keys"

\* reload_now has succeeded: 200 or 204.
Answer(a) ==
  /\ step[a] = "reload" /\ at[a] = "loaded"
  /\ To(a, "done")
  /\ outcome' = [outcome EXCEPT ![a] = "ok"]
  /\ Goto(a, "idle")
  /\ UNCHANGED <<db, call, read, todo, unborn, Rest>>

\* reload_now has failed.  create_key disables the key it has made, if it can.
ReloadFailed(a) ==
  /\ step[a] = "reload" /\ at[a] = "failed"
  /\ To(a, "done")
  /\ outcome' = [outcome EXCEPT ![a] = "error"]
  /\ Goto(a, "idle")
  /\ db' = IF IsCreateKey(call[a]) /\ dbUp
           THEN [db EXCEPT !.keys[call[a].id].enabled = FALSE] ELSE db
  /\ UNCHANGED <<call, read, todo, unborn, Rest>>

\* The client disconnects and the task is dropped where it awaits: a statement,
\* a query of the reload, or the one that disables a key whose reload failed.
\* From the last query to the answer nothing awaits.  The step stands for the
\* moment the database is done with the statement the task was in.
Dropped(a) ==
  /\ \/ step[a] \notin {"idle", "done", "reload"}
     \/ step[a] = "reload" /\ at[a] \in TableNames
     \/ step[a] = "reload" /\ at[a] = "failed" /\ IsCreateKey(call[a])
  /\ To(a, "done")
  /\ outcome' = [outcome EXCEPT ![a] = "dropped"]
  /\ Goto(a, "idle")
  /\ snap' = [snap EXCEPT ![a] = Nothing]
  /\ UNCHANGED <<db, dbUp, pool, budgets, cfg, notified, last, call, read, todo,
                 alone, pollOk, unborn>>

(***************************************************************************)
(* The specification                                                       *)
(***************************************************************************)

Init ==
  /\ db = Boot
  /\ ReloadInit
  /\ call = [a \in Admins |-> Idle]
  /\ step = [a \in Admins |-> "idle"]
  /\ read = [a \in Admins |-> Boot.routes]
  /\ todo = [a \in Admins |-> {}]
  /\ outcome = [a \in Admins |-> "none"]
  /\ alone = [a \in Admins |-> FALSE]
  /\ pollOk = TRUE
  /\ unborn = Unborn

CallStep(a) ==
  \/ StatementFails(a)
  \/ CreateBackend(a) \/ UpdateBackend(a)
  \/ FindBackend(a) \/ PutBackendKey(a)
  \/ CheckUsage(a) \/ FindRoutes(a)
  \/ \E m \in Models : CleanRoute(a, m)
  \/ DeleteBackend(a)
  \/ CheckName(a) \/ KeepFlag(a) \/ CheckBridge(a) \/ CheckRename(a)
  \/ InsertRoute(a) \/ UpdateRoute(a)
  \/ DeleteEndpoints(a)
  \/ \E b \in Backends : InsertEndpoint(a, b)
  \/ EndpointsDone(a)
  \/ \E b \in Backends : EnableBackend(a, b)
  \/ EnableDone(a)
  \/ DeleteRoute(a)
  \/ ToggleRoute(a) \/ RereadRoute(a)
  \/ WriteTeam(a) \/ WriteKey(a)
  \/ Answer(a) \/ ReloadFailed(a)

\* The reload of a call, which leaves the call itself alone.
AdminLoad(a) == LoaderStep(a) /\ UNCHANGED <<callVars, pollOk, unborn>>

\* The poll loop; pollOk follows what it stores.
PollLoop ==
  /\ PollStep
  /\ pollOk' = CASE LoadFails(Poll) -> FALSE
                 [] StoreOk(Poll)   -> TRUE
                 [] OTHER           -> pollOk
  /\ UNCHANGED <<callVars, unborn>>

Database == FlipDb /\ UNCHANGED <<callVars, pollOk, unborn>>

Next ==
  \/ \E a \in Admins : \E c \in Calls[a] : Begin(a, c)
  \/ \E a \in Admins : CallStep(a)
  \/ \E a \in Admins : AdminLoad(a)
  \/ \E a \in Admins : Dropped(a)
  \/ PollLoop
  \/ Database

Spec == Init /\ [][Next]_vars

\* The runtime polls every task, and the sleep of the poll loop ends.
Fairness ==
  /\ WF_vars(PollLoop)
  /\ \A a \in Admins : WF_vars(CallStep(a) \/ AdminLoad(a))

FairSpec == Spec /\ Fairness

(***************************************************************************)
(* Properties                                                              *)
(***************************************************************************)

\* The steps between the last query and the publication.
Wiring == {"sync_backends", "sync_teams", "publish"}

\* Type invariant of the tables, the router's memory and the tasks.
TypeOK ==
  /\ {db, cfg} \subseteq Config
  /\ pool \in Rows(Backends, BackendRow) /\ budgets \in Rows(Teams, OnOff)
  /\ {dbUp, notified, pollOk} \subseteq BOOLEAN
  /\ last \in {"ok", "err"}
  /\ \A l \in Loaders :
       /\ at[l] \in TableNames \cup Wiring
                     \cup {"idle", "notify", "ok", "loaded", "failed"}
       /\ at[l] \in Wiring => snap[l] \in Config
  /\ \A a \in Admins : (at[a] # "idle") = (step[a] = "reload")
  /\ unborn \subseteq Unborn

\* No call is under way, none has failed or was dropped after it changed a row,
\* and the last poll went well.
Quiet ==
  /\ \A a \in Admins : /\ step[a] \in {"idle", "done"}
                       /\ outcome[a] \notin {"error", "gone", "dropped"}
  /\ pollOk

\* The poll loop or an admin call may publish a snapshot it began to read
\* before another call changed the tables, over the newer one.  Whenever that
\* has happened, or is about to, the poll loop has been told to load again, or
\* is loading what the tables hold now: once the calls are answered, a stale
\* configuration never waits for the timer (admin/mod.rs:91-110 and
\* main.rs:165-187).
StaleIsNotified ==
  Quiet =>
    \/ notified
    \/ at[Poll] \in TableNames \cup Wiring /\ Current(Poll)
    \/ at[Poll] \in {"idle", "ok"} /\ InSync

\* Once the database stays up, the memory of the router ends up with what the
\* tables hold, whatever torn and stale snapshots were published and whatever
\* calls and loads failed before (main.rs:165-187, config/mod.rs:26-43).
Converges == <>[]dbUp => <>[]InSync

\* readyz turns to 503 for good when the database stays away, and to 200 for
\* good when it stays (handlers.rs:497-520).
ReadinessFollows == (<>[]dbUp => <>[]Ready) /\ (<>[]~dbUp => <>[]~Ready)

\* A route that accepts Anthropic messages speaks OpenAI chat to its backends:
\* patch_route validates the flag it keeps, whatever other patches do to the
\* row in between (admin/mod.rs:2810-2831).
BridgeRoutesChat == BridgesChat(db.routes)

\* The effect a call reports: a deleted backend is referred to by no route,
\* and the backends of a route that was saved or switched on are enabled.
InEffect(c) ==
  CASE c.op = "delete_backend" ->
         \A m \in Models : db.routes[m] # NoRow => c.id \notin Refs(db.routes[m])
    [] c.op = "toggle_route" /\ c.enabled ->
         \A b \in Refs(db.routes[c.id]) :
           db.backends[b] # NoRow => db.backends[b].enabled
    [] c.op \in {"upsert_route", "patch_route"} /\ c.row.enabled ->
         \A b \in Refs(c.row) : db.backends[b] # NoRow => db.backends[b].enabled
    [] OTHER -> TRUE

\* What a call leaves in the tables, if no other call overlaps with it, is the
\* effect it reports (admin/mod.rs:1323-1415, 2702-2717 and 2950-2986).
SerialCallsTakeEffect ==
  \A a \in Admins : alone[a] /\ step[a] = "reload" => InEffect(call[a])
=============================================================================
