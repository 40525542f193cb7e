-------------------------- MODULE MCPositionLedger --------------------------
(* Values for the constants of PositionLedger. *)
EXTENDS PositionLedger, TLC

CONSTANTS i1, i2, i3

SmallLots == {1, 2}

(* Nothing tells one row id from another. *)
AnyRow == Permutations(Rows)
=============================================================================
