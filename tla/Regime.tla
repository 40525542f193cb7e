------------------------------- MODULE Regime -------------------------------
(***************************************************************************)
(* The market regime (internal/regime): a day's readings are scored, the   *)
(* score is classified with hysteresis against the regime of the day       *)
(* before, and a run of unlike regimes counts as a transition.             *)
(*                                                                         *)
(* Ratios are per mille, DI and ADX whole numbers, ATR per mille of the    *)
(* price.  A regime score is doubled where it meets the hysteresis margin  *)
(* of half a point.                                                        *)
(***************************************************************************)
EXTENDS Integers, FiniteSets, Sequences

CONSTANTS
  Readings,         \* a day: ratio, golden, highs, lows, adx, di, atr, volume
  TransitionWindow, \* regimes that are looked back at; 10 in the code
  RegimeDays        \* bound: days

ASSUME RegimeAssumption == TransitionWindow \in Nat \ {0} /\ RegimeDays \in Nat

RegimeTypes == {"strong_bull", "mild_bull", "range_bound", "mild_bear", "strong_bear"}

VARIABLES
  score,      \* RegimeScore
  regime,     \* Regime, "" before the first day
  confidence,
  history,    \* RegimeHistory
  transition, \* TransitionScore
  market,     \* the regime of the VN-Index
  needed      \* the score a signal needs with these two regimes

regimeVars == <<score, regime, confidence, history, transition, market, needed>>

RegimeInit ==
  /\ score = 0 /\ regime = "" /\ confidence = "Low"
  /\ history = <<>> /\ transition = 0 /\ market = "" /\ needed = 8

-----------------------------------------------------------------------------
(* DetectRegime *)

(* AnalyzeTrendStructure: the highs and the lows of the three thirds of    *)
(* the last 60 days.                                                       *)
TrendStructure(highs, lows) ==
  LET rising(s) == s[1] < s[2] /\ s[2] < s[3]
      falling(s) == s[1] > s[2] /\ s[2] > s[3]
  IN  IF rising(highs) THEN IF rising(lows) THEN "higher_highs_lows" ELSE "higher_highs_only"
      ELSE IF falling(highs) THEN IF falling(lows) THEN "lower_highs_lows" ELSE "lower_highs_only"
      ELSE "choppy"

(* ClassifyBasicRegime: price against the 200-day average, the averages    *)
(* against each other, and the structure of the last 60 days.              *)
BasicScore(x) ==
  LET price == IF x.ratio >= 1100 THEN 3 ELSE IF x.ratio >= 1000 THEN 1
               ELSE IF x.ratio >= 900 THEN 0 ELSE -2
      structure == CASE TrendStructure(x.highs, x.lows) = "higher_highs_lows" -> 2
                     [] TrendStructure(x.highs, x.lows) = "lower_highs_lows" -> -2
                     [] OTHER -> 0
  IN  price + (IF x.golden THEN 1 ELSE -1) + structure

ADXScore(x) ==
  IF x.adx >= 50 THEN 2 ELSE IF x.adx >= 40 THEN 1 ELSE IF x.adx >= 25 THEN 0
  ELSE IF x.adx >= 20 THEN -1 ELSE -2

DirectionScore(x) ==
  IF x.di > 20 THEN 2 ELSE IF x.di > 10 THEN 1 ELSE IF x.di > -10 THEN 0
  ELSE IF x.di > -20 THEN -1 ELSE -2

VolatilityScore(x) == IF x.atr < 50 THEN 0 ELSE IF x.atr < 80 THEN -1 ELSE -2

(* Volume of up days against that of down days.                            *)
VolumeScore(x) ==
  IF x.volume > 1300 THEN 1 ELSE IF x.volume > 900 THEN 0 ELSE IF x.volume > 700 THEN -1 ELSE -2

RegimeScore(x) ==
  LET sum == BasicScore(x) + ADXScore(x) + DirectionScore(x) + VolatilityScore(x) + VolumeScore(x)
  IN  IF sum > 10 THEN 10 ELSE IF sum < -10 THEN -10 ELSE sum

(* classifyWithoutHysteresis *)
PlainRegime(s) ==
  IF s >= 6 THEN "strong_bull" ELSE IF s >= 3 THEN "mild_bull" ELSE IF s >= -2 THEN "range_bound"
  ELSE IF s >= -5 THEN "mild_bear" ELSE "strong_bear"

AssignConfidence(s) ==
  IF s >= 7 \/ s <= -7 THEN "High" ELSE IF s \in 4..6 \cup -6..-4 THEN "Moderate" ELSE "Low"

(* Seeded fault: every day is classified afresh.                           *)
ClassifyWithHysteresis_Plain(s, previous) == <<PlainRegime(s), AssignConfidence(s)>>

(* A regime is entered at one threshold and left at another; a bull market *)
(* that falls through all of its own is classified afresh.                 *)
ClassifyWithHysteresis(s, previous) ==
  CASE previous = "" -> <<PlainRegime(s), AssignConfidence(s)>>
    [] previous = "strong_bull" /\ 2 * s >= 9 -> <<"strong_bull", "High">>
    [] previous = "strong_bull" /\ s \in 2..4 -> <<"mild_bull", "Moderate">>
    [] previous = "mild_bull" /\ s >= 7 -> <<"strong_bull", "Moderate">>
    [] previous = "mild_bull" /\ 2 * s \in 3..13 -> <<"mild_bull", "Moderate">>
    [] previous = "mild_bull" /\ s \in -1..1 -> <<"range_bound", "Moderate">>
    [] previous = "range_bound" /\ s >= 4 -> <<"mild_bull", "Moderate">>
    [] previous = "range_bound" /\ 2 * s \in -7..7 -> <<"range_bound", "Moderate">>
    [] previous = "range_bound" /\ 2 * s < -7 -> <<"mild_bear", "Moderate">>
    [] previous = "mild_bear" /\ s >= -1 -> <<"range_bound", "Moderate">>
    [] previous = "mild_bear" /\ 2 * s \in -11..-3 -> <<"mild_bear", "Moderate">>
    [] previous = "mild_bear" /\ 2 * s < -11 -> <<"strong_bear", "Moderate">>
    [] previous = "strong_bear" /\ s >= -4 -> <<"mild_bear", "Moderate">>
    [] previous = "strong_bear" /\ s < -4 -> <<"strong_bear", "High">>
    [] OTHER -> <<PlainRegime(s), "Low">>

-----------------------------------------------------------------------------
(* DetectTransition, on the history before today: how many regimes there   *)
(* were, a spike of volatility, low confidence and price against trend.    *)
TransitionScore(x, spike, conf) ==
  LET n == Len(history)
      recent == {history[i] : i \in (n - TransitionWindow + 1)..n}
      unlike == IF n < TransitionWindow THEN 0 ELSE Cardinality(recent)
      conflict == (BasicScore(x) > 0 /\ ADXScore(x) < 0) \/ (BasicScore(x) < 0 /\ ADXScore(x) > 0)
  IN  (IF unlike >= 4 THEN 3 ELSE IF unlike = 3 THEN 2 ELSE 0) + (IF spike THEN 2 ELSE 0)
        + (IF conf = "Low" THEN 2 ELSE 0) + (IF conflict THEN 1 ELSE 0)

-----------------------------------------------------------------------------
(* DetectVNMarketRegime.  MildBullLower and MildBearUpper are both the     *)
(* 200-day average, so the mild bear market has no room of its own.        *)
MarketRegime(x) ==
  LET byRatio == IF x.ratio >= 1100 THEN "strong_bull" ELSE IF x.ratio >= 1000 THEN "mild_bull"
                 ELSE "strong_bear"
  IN  IF x.adx <= 20 /\ byRatio = "mild_bull" THEN "range_bound" ELSE byRatio

Bullish(r) == r \in {"strong_bull", "mild_bull"}
Bearish(r) == r \in {"mild_bear", "strong_bear"}

(* AdjustScoreForRegime: the adjustment of a score.                        *)
Alignment(stock, mkt) ==
  CASE stock = "strong_bull" /\ mkt = "strong_bull" -> 2
    [] Bullish(stock) /\ Bullish(mkt) /\ {stock, mkt} # {"strong_bull"} -> 1
    [] {stock, mkt} \subseteq {"mild_bull", "range_bound"} /\ ~(Bullish(stock) /\ Bullish(mkt)) -> 0
    [] Bullish(stock) /\ Bearish(mkt) -> -2
    [] OTHER -> -1

(* GetMinScoreByRegime *)
GetMinScoreByRegime(mkt) ==
  CASE Bullish(mkt) -> 7 [] mkt = "range_bound" -> 8 [] mkt = "mild_bear" -> 9
    [] mkt = "strong_bear" -> 10 [] OTHER -> 8

(* A signal trades from this score on.                                     *)
NeededScore(stock, mkt) == GetMinScoreByRegime(mkt) - Alignment(stock, mkt)

(* A day's readings are taken.                                             *)
DetectRegime(x, spike) ==
  /\ Len(history) < RegimeDays
  /\ LET found == ClassifyWithHysteresis(RegimeScore(x), regime)
     IN  /\ regime' = found[1] /\ confidence' = found[2]
         /\ history' = Append(history, found[1])
         /\ transition' = TransitionScore(x, spike, found[2])
         /\ needed' = NeededScore(found[1], MarketRegime(x))
  /\ score' = RegimeScore(x) /\ market' = MarketRegime(x)

RegimeNext == \E x \in Readings, spike \in BOOLEAN : DetectRegime(x, spike)

RegimeSpec == RegimeInit /\ [][RegimeNext]_regimeVars
-----------------------------------------------------------------------------
RegimeTypeOK ==
  /\ score \in -10..10 /\ regime \in RegimeTypes \cup {""} /\ market \in RegimeTypes \cup {""}
  /\ confidence \in {"High", "Moderate", "Low"} /\ transition \in 0..8
  /\ needed \in 5..12
  /\ Len(history) <= RegimeDays

(* Hysteresis prevents whipsaws: after a day that changed the regime, a    *)
(* day whose score is within one point of that day's does not change it    *)
(* back (types.go:58, "prevent whipsaws").                                 *)
NoWhipsaw ==
  [][LET n == Len(history)
     IN  n >= 2 /\ history[n] # history[n - 1] /\ score' - score \in -1..1
           => history'[n + 1] # history[n - 1]]_regimeVars
=============================================================================
