----------------------------- MODULE TradeScore -----------------------------
(***************************************************************************)
(* The scorer of a trade setup (internal/scoring): up to 13 points decide  *)
(* whether to trade and what share of the capital to risk.  A comparison   *)
(* of two indicators is a Boolean of the setup; what the code compares     *)
(* with a threshold is a number: distances and shares per mille, the R:R   *)
(* ratio and multiples of the ATR in tenths, turnover in billions of dong  *)
(* and volume in thousands of shares.                                      *)
(***************************************************************************)
EXTENDS Integers, SequencesExt

CONSTANT Setups      \* the setups that are offered, records

SetupRecord ==
  [volume : Int, turnover : Int, zeroDays : Int,
   aboveEMA20 : BOOLEAN, aboveEMA50 : BOOLEAN, aboveSMA200 : BOOLEAN, structure : STRING,
   support : STRING, supportAway : Int, consolidation : Int, volumes : Seq(Int),
   rsi : Int, macd : Int, aboveSignal : BOOLEAN, histogramGrows : BOOLEAN,
   entry : Int, stop : Int, target : Int, atr : Int,
   indexAboveMA50 : BOOLEAN, sectorRS : Int,
   news : {"positive", "neutral", "negative", "very_negative", ""}]

(* The unit of prices is small: one of it is within 7% of any entry.       *)
ASSUME SetupsAssumption ==
  Setups \subseteq SetupRecord /\ \A s \in Setups : 70 * s.entry >= 1000

VARIABLES
  setup,    \* the TradeSetup last scored
  verdict   \* its ScoreResult

scoreVars == <<setup, verdict>>

NoSetup == [volume |-> 0]
NoVerdict == [total |-> 0, trade |-> FALSE, risk |-> 0, quality |-> "Poor",
              strengths |-> {}, weaknesses |-> {}]

Points(facts) == Cardinality({f \in DOMAIN facts : facts[f]})

(* CheckLiquidityStrict: the issues found; a spread of 0 is not known.     *)
LiquidityIssues(s, spread) ==
  {i \in {"volume", "turnover", "zeroDays", "spread"} :
     CASE i = "volume"   -> s.volume < 1000
       [] i = "turnover" -> s.turnover < 50
       [] i = "zeroDays" -> s.zeroDays > 0
       [] i = "spread"   -> spread > 5}

CheckLiquidity(s) == LiquidityIssues(s, 0)

-----------------------------------------------------------------------------
(* The five components *)

ScoreTrendAlignment(s) ==
  Points(<<s.aboveEMA20, s.aboveEMA50,
           s.aboveSMA200 /\ s.structure = "higher_highs_lows">>)

(* CheckVolumeConfirmation: the volume of the second half of the pullback  *)
(* is below that of the first, and the bar after it is over 1.2 times the  *)
(* average of the pullback.  `from` and `to` count from 1.                 *)
VolumeConfirms(volumes, from, to) ==
  LET sum(a, b) == FoldFunctionOnSet(+, 0, volumes, a .. b)
      len == to - from + 1
      mid == len \div 2
  IN  /\ Len(volumes) >= to + 1 /\ from < to
      /\ sum(from + mid, to) * mid < sum(from, from + mid - 1) * (len - mid)
      /\ volumes[to + 1] * 10 * len > 12 * sum(from, to)

ScoreSetupQuality(s) ==
  Points(<<s.support # "none" /\ s.supportAway <= 30,
           s.consolidation >= 5,
           VolumeConfirms(s.volumes, 1, 4)>>)

(* ScoreMomentum; Score always asks for the trend "up".                    *)
ScoreMomentum(s, trend) ==
  IF trend = "up"
  THEN Points(<<s.rsi \in 40 .. 70,
                s.macd > 0 \/ (s.aboveSignal /\ s.histogramGrows)>>)
  ELSE Points(<<s.rsi \in 30 .. 60,
                s.macd < 0 \/ (~s.aboveSignal /\ ~s.histogramGrows)>>)

Spread(a, b) == IF a < b THEN b - a ELSE a - b

(* ScoreRiskReward: a reward of twice the risk, and a stop within 7% or,   *)
(* where the ATR is known, within two of it.                               *)
ScoreRiskReward(s) ==
  LET risk == Spread(s.entry, s.stop)
      reward == Spread(s.target, s.entry)
  IN  Points(<<risk > 0 /\ reward >= 2 * risk,
               \/ risk * 1000 <= 70 * s.entry
               \/ s.atr > 0 /\ risk <= 2 * s.atr>>)

NewsPoints(news) ==
  CASE news = "positive" -> 1 [] news = "negative" -> -1
    [] news = "very_negative" -> -2 [] OTHER -> 0

ScoreContext(s) ==
  Points(<<s.indexAboveMA50, s.sectorRS > 1050>>) + NewsPoints(s.news)

-----------------------------------------------------------------------------
(* TradeScorer *)

(* Seeded fault: the best score is missing in the table.                   *)
GetRiskPercent_NoTop(score) ==
  CASE score < 7 -> 0 [] score \in {7, 8} -> 100 [] score \in {9, 10} -> 150
    [] score \in 11 .. 12 -> 200 [] OTHER -> 100

(* getRiskPercent, in basis points.                                        *)
GetRiskPercent(score) ==
  CASE score < 7 -> 0 [] score \in {7, 8} -> 100 [] score \in {9, 10} -> 150
    [] score \in 11 .. 13 -> 200 [] OTHER -> 100

AssessQuality(score) ==
  CASE score >= 11 -> "Excellent" [] score >= 9 -> "Good"
    [] score >= 7 -> "Acceptable" [] OTHER -> "Poor"

Components(s) ==
  [trend |-> ScoreTrendAlignment(s), setup |-> ScoreSetupQuality(s),
   momentum |-> ScoreMomentum(s, "up"), riskReward |-> ScoreRiskReward(s),
   context |-> ScoreContext(s)]

(* generateSummary: the components at their best, and those close to none. *)
Strengths(c) ==
  {x \in DOMAIN c : c[x] >= CASE x \in {"trend", "setup"} -> 3 [] OTHER -> 2}
Weaknesses(c) ==
  {x \in DOMAIN c : c[x] <= CASE x \in {"trend", "setup"} -> 1
                              [] x = "context" -> -1 [] OTHER -> 0}

(* Score: the liquidity first; what fails it gets no points.               *)
Verdict(s) ==
  LET c == Components(s)
      sum == c.trend + c.setup + c.momentum + c.riskReward + c.context
      total == IF sum < 0 THEN 0 ELSE sum
  IN  IF CheckLiquidity(s) # {} THEN [NoVerdict EXCEPT !.weaknesses = CheckLiquidity(s)]
      ELSE [total |-> total, trade |-> total >= 7,
            risk |-> IF total >= 7 THEN GetRiskPercent(total) ELSE 0,
            quality |-> AssessQuality(total),
            strengths |-> Strengths(c), weaknesses |-> Weaknesses(c)]

Score(s) == setup' = s /\ verdict' = Verdict(s)

ScoreInit == setup = NoSetup /\ verdict = NoVerdict
ScoreNext == setup = NoSetup /\ \E s \in Setups : Score(s)
ScoreSpec == ScoreInit /\ [][ScoreNext]_scoreVars

-----------------------------------------------------------------------------
ScoreTypeOK ==
  /\ setup \in Setups \cup {NoSetup}
  /\ verdict.total \in 0 .. 13 /\ verdict.trade \in BOOLEAN
  /\ verdict.risk \in {0, 100, 150, 200}

(* A setup that is better in one respect is never risked less: neither a   *)
(* component nor the table of scorer.go:16-24, whose default for a score   *)
(* it lacks is 1%, takes back what a better trend, a better market, better *)
(* news or a closer stop is worth, and no score is above the best.         *)
Improved ==
  {[setup EXCEPT ![f] = TRUE] : f \in {"aboveEMA20", "aboveEMA50", "aboveSMA200",
                                       "indexAboveMA50"}}
  \cup {[setup EXCEPT !.news = "positive"], [setup EXCEPT !.stop = setup.entry - 1]}
BetterRisksNoLess ==
  setup # NoSetup => \A s \in Improved : Verdict(s).risk >= verdict.risk
=============================================================================
