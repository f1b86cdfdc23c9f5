--------------------------- MODULE MCBackendPool ---------------------------
(***************************************************************************)
(* Instances of BackendPool for TLC.                                       *)
(***************************************************************************)
EXTENDS BackendPool, TLC

CONSTANTS r1, r2, r3, s1, s2, b1, b2

Unlimited == [b \in Backends |-> 0]
LimitOne == [b \in Backends |-> 1]
LimitTwo == [b \in Backends |-> 2]

Setting(requests, syncers, edited, flaky) ==
  [requests |-> requests, syncers |-> syncers, edited |-> edited, flaky |-> flaky]

\* Three requests beside two parallel syncs of a row that is edited, and two
\* requests to a failing upstream beside one sync.
Races == {Setting({r1, r2, r3}, {s1, s2}, {b1}, {}),
          Setting({r1, r2}, {s1}, {b1}, {b1})}

\* One request to an upstream that fails now and then, and a fixed pool.
Alone == {Setting({r1}, {}, {}, {b1})}

\* One request to such an upstream, whose row is edited.
AloneEdited == {Setting({r1}, {s1}, {b1}, {b1})}

\* Both settings are the same for r1 and r2.
RequestSymmetry == Permutations({r1, r2})
=============================================================================
