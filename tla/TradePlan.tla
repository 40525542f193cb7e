----------------------------- MODULE TradePlan -----------------------------
(***************************************************************************)
(* From a signal to a plan (internal/risk): the stop (stop_loss.go), the   *)
(* size (position_sizing.go), the targets (targets*.go) and the trailing   *)
(* stop (targets_trailing.go).  Prices count tens of dong, the smallest    *)
(* tick; sizes count lots of 100 shares and money what a lot costs per     *)
(* unit of price, so that RoundToLotSize is a whole number.  Shares of a   *)
(* whole are per mille or basis points.                                    *)
(***************************************************************************)
EXTENDS Integers, SequencesExt

CONSTANTS
  PlanEntry,       \* entry price
  PlanCapital,     \* TotalCapital
  StopInputs,      \* StopParams: long, low, level, buffer, atr, percent, reference
  SizeInputs,      \* score, regime, atr, correlation
  TargetInputs,    \* atr, levels, fib, measured
  TrailInputs      \* highest, current, stop of the chosen method

ASSUME PlanAssumption == PlanEntry \in Nat \ {0} /\ PlanCapital \in Nat \ {0}
ASSUME StopInputsAssumption ==
  StopInputs \subseteq [long : BOOLEAN, low : Int, level : Int, buffer : Int, atr : Int,
                        percent : Int, reference : Int]
ASSUME TargetInputsAssumption ==
  /\ \A t \in TargetInputs :
       /\ t.atr \in Int /\ IsFiniteSet(t.levels) /\ t.levels \subseteq Int
       /\ {t.fib.base, t.fib.size, t.measured.base, t.measured.size} \subseteq Int
  /\ \A x \in TrailInputs : x.raw \in Int /\ x.current \in Int

VARIABLES
  stage,    \* "stop", "size", "targets" or "trail": what is worked out next
  isLong,
  stopAt,   \* StopResult: price, validity, alerts; or NoStop
  positionLots,     \* PositionSize
  strategy, \* TargetStrategy: price and percentage of each target
  trailing  \* TrailingStopResult: stop, price and advice

planVars == <<stage, isLong, stopAt, positionLots, strategy, trailing>>

NoStop == [price |-> 0, valid |-> FALSE, alerts |-> <<>>]
NoTrail == [stop |-> 0, price |-> 0, exit |-> FALSE]

PlanInit ==
  /\ stage = "stop" /\ isLong \in BOOLEAN
  /\ stopAt = NoStop /\ positionLots = 0 /\ strategy = <<>> /\ trailing = NoTrail

Distance(a, b) == IF a < b THEN b - a ELSE a - b
Smaller(a, b) == IF a < b THEN a ELSE b

(* Halves are rounded away from zero.                                      *)
Nearest(num, den) ==
  IF num >= 0 THEN (2 * num + den) \div (2 * den) ELSE -((den - 2 * num) \div (2 * den))

(* To 10 dong under 10,000 dong, to 50 under 50,000, to 100 from there on. *)
RoundToTick(num, den) ==
  LET tick == IF num < 1000 * den THEN 1 ELSE IF num < 5000 * den THEN 5 ELSE 10
  IN  tick * Nearest(num, tick * den)

RoundToNearest100(num, den) == 10 * Nearest(num, 10 * den)

-----------------------------------------------------------------------------
(* CalculateStopDetailed *)

(* What lies `d` per mille of `price` on the losing side of it.            *)
Beyond(long, price, d) == RoundToTick(price * (IF long THEN 1000 - d ELSE 1000 + d), 1000)

(* validateStopInternal: the right side, positive, at most 7%, at least 1% *)
(* and 500 dong away.                                                      *)
StopIsValid(long, stop) ==
  LET d == Distance(PlanEntry, stop)
  IN  /\ IF long THEN stop < PlanEntry ELSE stop > PlanEntry
      /\ stop > 0
      /\ d * 1000 <= 70 * PlanEntry /\ d * 1000 >= 10 * PlanEntry /\ d >= 50

(* TechnicalStop and ValidateMaxStop: within 7%, on whichever side.        *)
TechnicalFits(p) ==
  Distance(1000 * PlanEntry, p.level * (IF p.long THEN 1000 - p.buffer ELSE 1000 + p.buffer))
    <= 70 * PlanEntry

SwingStop(p) == Beyond(p.long, p.low, IF p.buffer > 0 THEN p.buffer ELSE 5)
ATRStop(p) == RoundToTick(IF p.long THEN PlanEntry - p.atr * 2 ELSE PlanEntry + p.atr * 2, 1)

(* Swing low, technical level, ATR, percentage: the first that there is.   *)
(* A swing low has to be valid and a technical level within 7%.            *)
StopMethod(p) ==
  IF p.low > 0 /\ StopIsValid(p.long, SwingStop(p))
  THEN [price |-> SwingStop(p), valid |-> TRUE]
  ELSE IF p.level > 0 /\ TechnicalFits(p)
  THEN [price |-> Beyond(p.long, p.level, p.buffer), valid |-> TRUE]
  ELSE IF p.atr > 0 THEN [price |-> ATRStop(p), valid |-> StopIsValid(p.long, ATRStop(p))]
  ELSE IF p.percent > 0
  THEN LET s == Beyond(p.long, PlanEntry, p.percent)
       IN  [price |-> s, valid |-> StopIsValid(p.long, s)]
  ELSE [price |-> 0, valid |-> FALSE]

(* FloorAwareStop: a stop under today's floor is raised to it, whatever    *)
(* side of the entry that is.                                              *)
FloorAware(p, stop) ==
  LET floor == RoundToTick(p.reference * 930, 1000)
  IN  IF p.reference > 0 /\ stop < floor THEN floor ELSE stop

(* Half and seven tenths of the way to the stop, below the entry for a     *)
(* short position too.                                                     *)
PreemptiveAlerts(stop) ==
  <<RoundToTick(2 * PlanEntry - Distance(PlanEntry, stop), 2),
    RoundToTick(10 * PlanEntry - 7 * Distance(PlanEntry, stop), 10)>>

CalculateStop(p) ==
  /\ stage = "stop" /\ p.long = isLong
  /\ LET found == StopMethod(p)
         price == FloorAware(p, found.price)
     IN  stopAt' = IF found.price = 0 THEN NoStop
                   ELSE [price |-> price, valid |-> found.valid,
                         alerts |-> PreemptiveAlerts(price)]
  /\ stage' = "size"
  /\ UNCHANGED <<isLong, positionLots, strategy, trailing>>

-----------------------------------------------------------------------------
(* PositionSizer *)

(* Fixed risk, in lots; an entry at or below the stop is refused.          *)
FixedRisk(riskBp) ==
  IF PlanEntry <= stopAt.price THEN 0
  ELSE (PlanCapital * riskBp) \div (10000 * (PlanEntry - stopAt.price))

(* GetRiskPercentByScore, in basis points.                                 *)
RiskByScore(score, regime) ==
  LET base == IF score < 7 THEN 0 ELSE IF score >= 11 THEN 200 ELSE IF score >= 9 THEN 150 ELSE 100
      quarters == CASE regime \in {"bear", "transition"} -> 2
                    [] regime = "range" -> 3
                    [] OTHER -> 4
  IN  (base * quarters) \div 4

(* CalculateVolatilityFactor, in tenths; boundaries at 3, 5 and 8%.        *)
VolatilityFactor(atr) ==
  IF atr * 100 < 3 * PlanEntry THEN 12 ELSE IF atr * 100 < 5 * PlanEntry THEN 10
  ELSE IF atr * 100 < 8 * PlanEntry THEN 8 ELSE 6

(* GetCorrelationFactor, in tenths; the correlation in percent.            *)
CorrelationFactor(c) ==
  IF c >= 85 THEN 0 ELSE IF c >= 70 THEN 5 ELSE IF c >= 50 THEN 8 ELSE 10

(* ApplyMaxPositionLimit: 20% of the capital.                              *)
MaxPosition(n) == Smaller(n, (PlanCapital * 20) \div (100 * PlanEntry))

(* Seeded fault: the position is capped before it is scaled.               *)
Calculate_CapFirst(s) ==
  LET base == FixedRisk(RiskByScore(s.score, s.regime))
  IN  (((MaxPosition((base * 4) \div 13) * VolatilityFactor(s.atr)) \div 10)
         * CorrelationFactor(s.correlation)) \div 10

(* Calculate: risk by score, the gap divisor 3.25, volatility, the cap,    *)
(* correlation.                                                            *)
Calculate(s) ==
  LET base == FixedRisk(RiskByScore(s.score, s.regime))
      scaled == (((base * 4) \div 13) * VolatilityFactor(s.atr)) \div 10
  IN  (MaxPosition(scaled) * CorrelationFactor(s.correlation)) \div 10

SizePosition(s) ==
  /\ stage = "size"
  /\ positionLots' = IF stopAt = NoStop THEN 0 ELSE Calculate(s)
  /\ stage' = IF stopAt = NoStop THEN "done" ELSE "targets"
  /\ UNCHANGED <<isLong, stopAt, strategy, trailing>>

-----------------------------------------------------------------------------
(* CalculateComprehensiveTargets *)

Ahead(d) == IF isLong THEN PlanEntry + d ELSE PlanEntry - d
PlanRisk == IF isLong THEN PlanEntry - stopAt.price ELSE stopAt.price - PlanEntry

(* CalculateTechnicalTargets: the next three levels.                       *)
TechnicalTargets(levels) ==
  LET ahead == {l \in levels : IF isLong THEN l > PlanEntry ELSE l < PlanEntry}
  IN  {l \in ahead : Cardinality({k \in ahead : Distance(k, PlanEntry) < Distance(l, PlanEntry)}) < 3}

(* The targets of every method, with the method's name and the number of   *)
(* the target.  fib and measured give a base and a size; a size of zero    *)
(* gives none.                                                             *)
MethodTargets(t) ==
  {<<"r", m, RoundToNearest100(Ahead(PlanRisk * m), 1)>> : m \in IF PlanRisk > 0 THEN 2..4 ELSE {}}
  \cup {<<"atr", m, RoundToNearest100(Ahead(t.atr * m), 1)>> : m \in IF t.atr > 0 THEN 2..4 ELSE {}}
  \cup {<<"technical", l, RoundToNearest100(l, 1)>> : l \in TechnicalTargets(t.levels)}
  \cup {<<"fib", m, RoundToNearest100(1000 * t.fib.base + t.fib.size * m, 1000)>> :
          m \in IF t.fib.size > 0 THEN {618, 1000, 1618, 2618} ELSE {}}
  \cup {<<"measured", m, RoundToNearest100(2 * t.measured.base + t.measured.size * m, 2)>> :
          m \in IF t.measured.size > 0 THEN {2, 3, 4} ELSE {}}

(* The prices of the targets, the lowest first.                            *)
ByPrice(T) ==
  FoldSet(LAMBDA x, s : InsertAt(s, 1 + Cardinality({i \in DOMAIN s : s[i] <= x[3]}), x[3]),
          <<>>, T)

(* findConsensusTargets: a target joins the group while it is within 3% of *)
(* the group's average, a share of that average: below zero anything is.   *)
WithinGroup(g, price) ==
  LET total == SumFunction(g)
  IN  total < 0 \/ (total > 0 /\ 100 * Distance(Len(g) * price, total) <= 3 * total)

KeepGroup(groups, g) == IF Len(g) >= 2 THEN Append(groups, g) ELSE groups

PlaceTarget(f, price) ==
  IF f.current = <<>> \/ WithinGroup(f.current, price)
  THEN [f EXCEPT !.current = Append(@, price)]
  ELSE [groups |-> KeepGroup(f.groups, f.current), current |-> <<price>>]

Groups(T) ==
  LET f == FoldLeft(PlaceTarget, [groups |-> <<>>, current |-> <<>>], ByPrice(T))
  IN  KeepGroup(f.groups, f.current)

ConsensusTargets(T) ==
  LET agreeing == Groups(T)
  IN  [i \in DOMAIN agreeing |-> RoundToNearest100(SumFunction(agreeing[i]), Len(agreeing[i]))]

(* generateTargetStrategy: a quarter at each of up to three consensus      *)
(* targets, the rest trails (price 0); without one, 2R and 3R upwards.     *)
TargetStrategy(T) ==
  LET consensus == ConsensusTargets(T)
      risk == Distance(PlanEntry, stopAt.price)
      prices == IF consensus = <<>>
                THEN <<RoundToNearest100(PlanEntry + 2 * risk, 1),
                       RoundToNearest100(PlanEntry + 3 * risk, 1)>>
                ELSE SubSeq(consensus, 1, Smaller(3, Len(consensus)))
  IN  [i \in DOMAIN prices |-> [price |-> prices[i], sell |-> 25]]
        \o <<[price |-> 0, sell |-> 100 - 25 * Len(prices)]>>

PlanTargets(t) ==
  /\ stage = "targets"
  /\ strategy' = TargetStrategy(MethodTargets(t))
  /\ stage' = "trail"
  /\ UNCHANGED <<isLong, stopAt, positionLots, trailing>>

-----------------------------------------------------------------------------
(* CalculateTrailingStop, of a long position.  x.raw is the stop of the    *)
(* chosen method; at or above the price it is cut to 98% of the price,     *)
(* then it is kept at or above the entry.  Thousandths until it is rounded.*)

TrailingStop(x) ==
  LET cut == IF x.raw >= x.current THEN 980 * x.current ELSE 1000 * x.raw
  IN  IF cut < 1000 * PlanEntry THEN 1000 * PlanEntry ELSE cut

Trail(x) ==
  /\ stage = "trail" /\ isLong /\ trailing = NoTrail
  /\ trailing' = [stop |-> RoundToNearest100(TrailingStop(x), 1000), price |-> x.current,
                  exit |-> 1000 * x.current <= TrailingStop(x)]
  /\ UNCHANGED <<stage, isLong, stopAt, positionLots, strategy>>

PlanNext ==
  \/ \E p \in StopInputs : CalculateStop(p)
  \/ \E s \in SizeInputs : SizePosition(s)
  \/ \E t \in TargetInputs : PlanTargets(t)
  \/ \E x \in TrailInputs : Trail(x)

PlanSpec == PlanInit /\ [][PlanNext]_planVars
-----------------------------------------------------------------------------
(* The plan is well formed: only a stop above zero is called valid, and    *)
(* every target sells something.                                           *)
PlanTypeOK ==
  /\ stage \in {"stop", "size", "targets", "trail", "done"} /\ isLong \in BOOLEAN
  /\ stopAt.price \in Int /\ stopAt.valid \in BOOLEAN /\ (stopAt.valid => stopAt.price > 0)
  /\ positionLots \in Nat
  /\ \A i \in DOMAIN strategy : strategy[i].price \in Int /\ strategy[i].sell \in 1..100
  /\ trailing.stop \in Nat /\ trailing.exit \in BOOLEAN

(* A size is only given to a stop below the entry, although a technical    *)
(* level above it passes as a valid stop and the floor can raise a stop    *)
(* past it; and a position is worth at most a fifth of the capital and     *)
(* risks, with the volatility factor 1.2 and the gap divisor 3.25, at most *)
(* 0.74% of it (Calculate, criterion 6.2).                                 *)
SizedWithinBudget ==
  positionLots > 0 =>
    /\ stopAt.price < PlanEntry
    /\ 100 * positionLots * PlanEntry <= 20 * PlanCapital
    /\ 10000 * positionLots * (PlanEntry - stopAt.price) <= 74 * PlanCapital
=============================================================================
