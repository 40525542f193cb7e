---------------------------- MODULE ExitLadder ----------------------------
(***************************************************************************)
(* What graduated profit-taking promises of one holding on the books: 30%  *)
(* of what is held, then 30% of what is left, then nothing.  Each tranche  *)
(* goes at most once and in this order; the holder can close what is left  *)
(* at any time, and that is final.                                         *)
(***************************************************************************)
EXTENDS Integers

CONSTANTS Positions, Quantity

VARIABLES
  rung,     \* rung[p]: how far up the ladder the holding is
  shares    \* shares[p]: shares the books still show

ladder == <<rung, shares>>

Rungs == {"none", "full", "first", "second", "closed"}

LadderInit ==
  /\ rung = [p \in Positions |-> "none"]
  /\ shares = [p \in Positions |-> 0]

Buy(p) ==
  /\ rung[p] = "none"
  /\ rung' = [rung EXCEPT ![p] = "full"]
  /\ shares' = [shares EXCEPT ![p] = Quantity[p]]

SellTranche(p, from, to) ==
  /\ rung[p] = from
  /\ (30 * shares[p]) \div 100 > 0
  /\ rung' = [rung EXCEPT ![p] = to]
  /\ shares' = [shares EXCEPT ![p] = @ - (30 * @) \div 100]

CloseOut(p) ==
  /\ rung[p] \in {"full", "first", "second"}
  /\ rung' = [rung EXCEPT ![p] = "closed"]
  /\ shares' = [shares EXCEPT ![p] = 0]

LadderNext ==
  \E p \in Positions :
    \/ Buy(p)
    \/ SellTranche(p, "full", "first")
    \/ SellTranche(p, "first", "second")
    \/ CloseOut(p)

LadderSpec == LadderInit /\ [][LadderNext]_ladder
=============================================================================
