-------------------------- MODULE MCExitEvaluator --------------------------
(* Values for the constants of ExitEvaluator. *)
EXTENDS ExitEvaluator, TLC

CONSTANTS p1, p2, p3, r1, r2

(* p1 has tranches of 3 and 2 shares; 30% of the 3 shares of p2 is less    *)
(* than one share; p3 is a row of the bot, without targets.                *)
BigAndSmall == p1 :> 10 @@ p2 :> 3 @@ p3 :> 10
OnlyBig == p1 :> 10
OnlySmall == p1 :> 3

NoNullTargets == {}
OneNullTarget == {p3}

(* Day 0 is a Friday: the exchange opens again on day 3. *)
FridayToMonday == {0, 3}
EveryDay == Days

(* Nothing tells one process from another; the runs that use this check no *)
(* liveness property.                                                      *)
Interchangeable == Permutations(Runners)
=============================================================================
