----------------------------- MODULE StopEngine -----------------------------
(***************************************************************************)
(* The rules that raise the stop of a long position                        *)
(* (internal/position/stop_engine.go with the default rules of             *)
(* stop_rules.go).  Prices count in units of 100 VND, to which stops are   *)
(* rounded; levels before rounding count in thousandths of that unit, so   *)
(* that every percentage of the rules is exact.  Short positions, which no *)
(* caller opens, are left out.                                             *)
(***************************************************************************)
EXTENDS Integers, FiniteSets

CONSTANT TrailingMethod   \* how the third rule trails

TrailingMethods == {"atr", "ema", "percentage", "swing"}

ASSUME TrailingMethodAssumption == TrailingMethod \in TrailingMethods

Level(price) == 1000 * price

(* roundToHundred: half a unit rounds up.                                  *)
RoundToHundred(level) == (2 * level + 1000) \div 2000

(* The profit is at least h halves of R; without risk R is 0.              *)
ReachesHalfR(pos, price, h) ==
  pos.risk > 0 /\ 2 * (price - pos.entry) >= h * pos.risk

(* Each rule yields a set of at most one level.  Raise drops a level that  *)
(* is not above the stop or not below the price.                           *)
Above(pos, levels) == {l \in levels : l > Level(pos.stop)}
Raise(pos, price, levels) == {l \in Above(pos, levels) : l < Level(price)}

Least(a, b) == IF a < b THEN a ELSE b

(* Entry plus 0.5%, from 1R on; 1% below the price if that is not below it. *)
CalculateBreakevenStop(pos, price) ==
  IF ~ReachesHalfR(pos, price, 2) THEN {}
  ELSE {IF l >= Level(price) THEN 990 * price ELSE l : l \in Above(pos, {1005 * pos.entry})}

(* One target reached: half way to it; two: the first target.              *)
CalculateTargetBasedStop(pos, price) ==
  LET hit == {i \in DOMAIN pos.targets : price >= pos.targets[i]}
  IN  IF hit = {} THEN {}
      ELSE IF Cardinality(hit) >= 2 THEN Above(pos, {Level(pos.targets[1])})
      ELSE Above(pos, {500 * (pos.entry + pos.targets[i]) : i \in hit})

(* 1.5 ATR below the highest price and 2% below the price.                 *)
TrailByATR(pos, price, atr) ==
  IF atr <= 0 THEN {}
  ELSE Raise(pos, price, {Least(Level(pos.highest) - 1500 * atr, 980 * price)})

TrailByEMA(pos, price, ema) ==
  IF ema <= 0 THEN {} ELSE Raise(pos, price, {990 * ema})

TrailByPercentage(pos, price) == Raise(pos, price, {950 * pos.highest})

TrailBySwing(pos, price, swingLow) ==
  IF swingLow <= 0 THEN {} ELSE Raise(pos, price, {990 * swingLow})

CalculateTrailingStop(pos, price, ind) ==
  CASE TrailingMethod = "atr"        -> TrailByATR(pos, price, ind.atr)
    [] TrailingMethod = "ema"        -> TrailByEMA(pos, price, ind.ema)
    [] TrailingMethod = "percentage" -> TrailByPercentage(pos, price)
    [] TrailingMethod = "swing"      -> TrailBySwing(pos, price, ind.swingLow)

(* 30 days or more, and at least 0.5R: 1% below the price.                 *)
CalculateTimeStop(pos, price, old) ==
  IF old /\ ReachesHalfR(pos, price, 1) THEN {990 * price} ELSE {}

(* 1, 1.5, 2 or 2.5 ATR below the highest price, by the share of the ATR.  *)
CalculateVolatilityStop(pos, price, atr) ==
  LET multiplier == CASE 100 * atr > 8 * price -> 2500
                      [] 100 * atr > 5 * price -> 2000
                      [] 100 * atr > 3 * price -> 1500
                      [] OTHER                 -> 1000
  IN  IF atr <= 0 THEN {}
      ELSE Raise(pos, price, {Level(pos.highest) - multiplier * atr})

(* Seeded fault: the check against widening is left out.                   *)
ValidateAdjustment_Widens(stop, newStop, price) ==
  (newStop - stop >= 5 \/ stop - newStop >= 5) /\ newStop < price

(* At least 500 VND, never down, below the price.                          *)
ValidateAdjustment(stop, newStop, price) ==
  /\ newStop - stop >= 5 \/ stop - newStop >= 5
  /\ newStop >= stop
  /\ newStop < price

(* The highest of the proposals, if it is valid: a set of at most one stop. *)
EvaluateStopAdjustment(pos, price, ind) ==
  LET levels == CalculateBreakevenStop(pos, price)
                \cup CalculateTargetBasedStop(pos, price)
                \cup CalculateTrailingStop(pos, price, ind)
                \cup CalculateTimeStop(pos, price, ind.old)
                \cup CalculateVolatilityStop(pos, price, ind.atr)
      stops == {RoundToHundred(l) : l \in levels}
  IN  {s \in stops : /\ \A t \in stops : t <= s
                     /\ ValidateAdjustment(pos.stop, s, price)}
=============================================================================
