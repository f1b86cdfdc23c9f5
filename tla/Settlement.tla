----------------------------- MODULE Settlement -----------------------------
(***************************************************************************)
(* What a request promises to the budget store and the usage ledger,       *)
(* whatever happens to the client, the upstream and the tasks in between:  *)
(* a reservation is settled once; while it is held and only then, the      *)
(* request may hold a slot; and what the budget is charged in the end is   *)
(* what the row of the ledger says.  Module Request implements it.         *)
(***************************************************************************)
EXTENDS Naturals

CONSTANT None

VARIABLES
  reservation,  \* "none", "held", "committed" or "rolledback"
  slot,         \* is a concurrency slot held?
  charge,       \* tokens the budget is charged for good
  row           \* tokens of the row in the ledger, or None

vars == <<reservation, slot, charge, row>>

Init == reservation = "none" /\ slot = FALSE /\ charge = 0 /\ row = None

Reserve ==
  /\ reservation = "none"
  /\ reservation' = "held"
  /\ UNCHANGED <<slot, charge, row>>

Acquire ==
  /\ reservation = "held" /\ ~slot
  /\ slot' = TRUE
  /\ UNCHANGED <<reservation, charge, row>>

\* The tokens come back; a request the upstream has answered leaves a row.
RollBack ==
  /\ reservation = "held"
  /\ reservation' = "rolledback"
  /\ slot' = FALSE
  /\ row' \in IF slot THEN {None, 0} ELSE {None}
  /\ UNCHANGED charge

Commit ==
  /\ reservation = "held" /\ slot
  /\ reservation' = "committed"
  /\ slot' = FALSE
  /\ charge' \in Nat
  /\ row' = charge'

Next == Reserve \/ Acquire \/ RollBack \/ Commit

Spec == Init /\ [][Next]_vars
=============================================================================
