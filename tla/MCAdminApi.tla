----------------------------- MODULE MCAdminApi -----------------------------
(***************************************************************************)
(* Instances of AdminApi for TLC.                                         *)
(***************************************************************************)
EXTENDS AdminApi, TLC

CONSTANTS a1, a2, b1, b2, b3, m1, m2, t1, k1

OpenAi == [enabled |-> TRUE, format |-> "openai", key |-> "env"]
Route(ids, fallback, enabled, bridge, shape) ==
  [ids |-> ids, fallback |-> fallback, enabled |-> enabled, bridge |-> bridge,
   shape |-> shape]

\* Two backends, the second disabled as templates are, and a disabled bridge
\* route over both.
MCBoot ==
  [backends  |-> (b1 :> OpenAi) @@ (b2 :> [OpenAi EXCEPT !.enabled = FALSE])
                  @@ (b3 :> NoRow),
   endpoints |-> {<<m1, b1>>},
   routes    |-> (m1 :> Route({b1}, b2, FALSE, TRUE, "chat")) @@ (m2 :> NoRow),
   teams     |-> (t1 :> [enabled |-> TRUE]),
   keys      |-> (k1 :> NoRow)]

Save(op, id, name, row, endpoints) ==
  [op |-> op, id |-> id, name |-> name, row |-> row, endpoints |-> endpoints]

Toggle == [op |-> "toggle_route", id |-> m1, enabled |-> TRUE]
Delete == [op |-> "delete_backend", id |-> b2]
Create == Save("upsert_route", None, m2, Route({b1}, b2, TRUE, TRUE, "chat"), {b1})
Reshape == Save("patch_route", m1, m1, Route({b1}, None, TRUE, None, "anthropic"), None)
Unbridge == Save("patch_route", m1, m1, Route({b1}, b2, TRUE, FALSE, "anthropic"), {b1})
Rename == Save("patch_route", m1, m2, Route({b1}, None, FALSE, None, "chat"), None)
Remove == [op |-> "delete_route", id |-> m1]

\* Every kind of call, one at a time.
OneCall ==
  a1 :> {Toggle, Delete, Create, Reshape, Rename, Remove,
         [op |-> "create_backend", row |-> [OpenAi EXCEPT !.enabled = FALSE]],
         [op |-> "update_backend", id |-> b1, set |-> [enabled |-> FALSE]],
         [op |-> "put_backend_key", id |-> b2],
         [op |-> "insert", table |-> "keys", id |-> k1, set |-> [enabled |-> TRUE]],
         [op |-> "update", table |-> "teams", id |-> t1, set |-> [enabled |-> FALSE]]}

\* Two calls on the same routes and backends.
TwoCalls ==
  (a1 :> {Delete, Create, Reshape, Remove}) @@ (a2 :> {Toggle, Unbridge, Delete})
=============================================================================
