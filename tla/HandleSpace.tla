---------------------------- MODULE HandleSpace ----------------------------
(***************************************************************************)
(* What the guest handle table promises its clients: integer ids name      *)
(* guest values, an id is issued once, and an id that has been dropped     *)
(* never names anything again.  A late message that still carries an old   *)
(* id is therefore harmless (docs/design.md: "Late replies carry           *)
(* generation IDs and cannot access freed state").                         *)
(***************************************************************************)
CONSTANT Ids
VARIABLES issued,   \* every id that has ever named a value
          bound     \* the ids that name a value now

vars == <<issued, bound>>

Init == /\ issued = {}
        /\ bound = {}

(* Some ids are dropped, and some that were never issued become bound. *)
Next ==
    /\ bound' \subseteq Ids
    /\ (bound' \ bound) \cap issued = {}
    /\ issued' = issued \cup bound'

Spec == Init /\ [][Next]_vars
=============================================================================
