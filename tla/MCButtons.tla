----------------------------- MODULE MCButtons ------------------------------
(***************************************************************************)
(* Instances of Buttons for TLC.                                           *)
(***************************************************************************)
EXTENDS Buttons

CONSTANTS k1, k2

TwoKeys == {k1, k2}

\* Every kind occurs, and every two that can meet.
KindsOf(m) == CASE m = {k1} -> {"long", "short_long"}
                [] m = {k2} -> {"short", "repeat"}
                [] OTHER    -> {"combined"}
KindsHere == [m \in Masks |-> KindsOf(m)]
=============================================================================
