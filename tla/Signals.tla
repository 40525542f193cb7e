------------------------------- MODULE Signals -------------------------------
(***************************************************************************)
(* Signal detection (internal/signals): a scan takes a list of symbols,    *)
(* asks a data provider for the chart of each, runs the four detectors on  *)
(* it, and ranks what they found.  Indicators are taken as readings of the *)
(* chart; bars are kept, because the detectors look back at them.  Stops   *)
(* are in hundredths of the price unit.                                    *)
(***************************************************************************)
EXTENDS Integers, Sequences, FiniteSets, FiniteSetsExt, SequencesExt

CONSTANTS
  ScannedSymbols,    \* the list of symbols of a scan
  Charts,            \* charts a symbol may have
  Providers,         \* "live" (service/scanner/data_provider_adapter.go),
                     \* "analysis" (signals/data_provider.go), "complete" (a
                     \* provider that fills every field, as neither does)
  Windows,           \* bars looked back at: [scan |-> 60, consolidation |-> 20,
                     \* recent |-> 20, high |-> 30, ema20 |-> 20, ema50 |-> 50,
                     \* slope |-> 5, swing |-> 5, cross |-> 10]
  RoundNumbers       \* magnitudes of round prices

ASSUME SignalsAssumption ==
  /\ ScannedSymbols \in Seq(ToSet(ScannedSymbols))
  /\ \A w \in DOMAIN Windows : Windows[w] \in Nat \ {0}
  /\ \A c \in Charts : \A i \in 1..Len(c.bars) :
       LET b == c.bars[i] IN b.l <= b.o /\ b.l <= b.c /\ b.o <= b.h /\ b.c <= b.h

VARIABLES
  scan,     \* where ScanForSignals is, the provider, the symbols left, i and j
  charts,   \* the chart of each symbol
  found,    \* signals in the order they were found
  ranked    \* the copy RankSignals sorts

signalVars == <<scan, charts, found, ranked>>

-----------------------------------------------------------------------------
(* Sequences of bars.                                                      *)

Recent(s, n) == SubSeq(s, IF Len(s) > n THEN Len(s) - n + 1 ELSE 1, Len(s))
Field(bars, f) == [i \in DOMAIN bars |-> bars[i][f]]
Added(s) == FoldLeft(LAMBDA x, y : x + y, 0, s)
Current(chart) == chart.bars[Len(chart.bars)]
Previous(chart) == chart.bars[Len(chart.bars) - 1]
Apart(a, b) == IF a > b THEN a - b ELSE b - a
Near(a, b, percent, of) == Apart(a, b) * 100 <= percent * of
Nearest100(stop) == ((stop + 5000) \div 10000) * 10000

(* Position of the first highest of the last n values, from the end.       *)
DaysSinceHigh(s, n) ==
  LET r == Recent(s, n)
      top == Max(ToSet(r))
  IN  Len(r) - Min({i \in DOMAIN r : r[i] = top})

(* calculateEMASlope compares averages; "unknown" is not negative.         *)
SlopeNegative(closes, period) ==
  LET n == Len(closes)
      past == SubSeq(closes, n - period - Windows.slope + 1, n - Windows.slope)
  IN  n >= period + Windows.slope /\ Added(Recent(closes, period)) <= Added(past)

CalculateVolumePercentile(volume, history) ==
  IF history = <<>> THEN 50
  ELSE (100 * Cardinality({i \in DOMAIN history : history[i] < volume})) \div Len(history)

(* DetectBullishCandle: a hammer or an engulfing candle is strong, a doji  *)
(* or a long lower wick moderate; the colour of the candle matters to the  *)
(* engulfing one only.                                                     *)
CandleStrength(b, p) ==
  LET body == Apart(b.c, b.o)
      range == b.h - b.l
      upper == b.h - Max({b.o, b.c})
      lower == Min({b.o, b.c}) - b.l
      hammer == 10 * body < 3 * range /\ 2 * lower > range /\ 10 * upper < range
      engulfing == b.c > b.o /\ p.c < p.o /\ b.c > p.o /\ b.o < p.c
  IN  IF range = 0 THEN "none"
      ELSE IF hammer \/ engulfing THEN "strong"
      ELSE IF 1000 * body < b.c \/ lower > 2 * body THEN "moderate" ELSE "none"

-----------------------------------------------------------------------------
(* Support levels (support.go), tagged so that equal prices count twice.   *)

SwingPoints(s, higher) ==
  LET w == Windows.swing IN
  {i \in (w + 1)..(Len(s) - w) :
     \A j \in (i - w)..(i + w) : IF higher THEN s[j] <= s[i] ELSE s[j] >= s[i]}

Fibonacci(bars, ratios, up) ==
  LET high == Max(ToSet(Field(bars, "h")))
      low == Min(ToSet(Field(bars, "l")))
  IN  {<<"fib", r, IF up THEN high + ((high - low) * (r - 1000)) \div 1000
                          ELSE high - ((high - low) * r) \div 1000>> : r \in ratios}

RoundLevels(price) ==
  LET down(m) == (price \div m) * m
      up(m) == ((price + m - 1) \div m) * m
  IN  {<<"down", m, down(m)>> : m \in {n \in RoundNumbers : Near(price, down(n), 10, price)}}
      \cup {<<"up", m, up(m)>> :
              m \in {n \in RoundNumbers : up(n) # down(n) /\ Near(price, up(n), 10, price)}}

FindSupportLevels(bars) ==
  IF Len(bars) < Windows.scan THEN {}
  ELSE LET recent == Recent(bars, Windows.scan)
           lows == Field(recent, "l")
       IN  {<<"swing", i, lows[i]>> : i \in SwingPoints(lows, FALSE)}
           \cup Fibonacci(recent, {236, 382, 500, 618}, FALSE)
           \cup RoundLevels(bars[Len(bars)].c)

CheckSupportConfluence(price, supports) ==
  Cardinality({s \in supports : Near(price, s[3], 3, price)}) >= 2

-----------------------------------------------------------------------------
(* What a provider gives of a chart: the adapter of the live scanner has   *)
(* no series, no weekly readings and names the regime under another key;   *)
(* the other provider copies EMA20 into EMA50.  Neither says that the      *)
(* ceiling was hit.                                                        *)

GetDailyData(provider, chart) ==
  CASE provider = "live" -> [chart EXCEPT !.weekly = "none", !.ceiling = FALSE]
    [] provider = "analysis" -> [chart EXCEPT !.ema50 = chart.ema20, !.ceiling = FALSE]
    [] OTHER -> chart

HasSeries(provider) == provider # "live"

GetVolumePercentile(provider, chart) ==
  LET volumes == Field(chart.bars, "v")
      last == volumes[Len(volumes)]
  IN  IF provider = "live" THEN CalculateVolumePercentile(last, volumes)
      ELSE CalculateVolumePercentile(last, Front(Recent(volumes, Windows.scan)))

(* The live adapter takes the latest strict turning points of the recent   *)
(* bars.  The other takes the first of the list, a Fibonacci level of any  *)
(* ratio (the order of a map) when there is no swing point.                *)
TurningPoints(s, higher) ==
  {i \in 2..(Len(s) - 1) :
     /\ Len(s) - i < Windows.recent
     /\ \A j \in {i - 1, i + 1} : IF higher THEN s[i] > s[j] ELSE s[i] < s[j]}
LatestTurn(s, higher) ==
  LET t == TurningPoints(s, higher) IN IF t = {} THEN 0 ELSE s[Max(t)]
FirstLevel(s, swings, fib) == IF swings = {} THEN {f[3] : f \in fib} ELSE {s[Min(swings)]}

GetSupportResistance(provider, chart) ==
  IF provider = "live"
  THEN {<<LatestTurn(Field(chart.bars, "l"), FALSE), LatestTurn(Field(chart.bars, "h"), TRUE)>>}
  ELSE LET recent == Recent(chart.bars, Windows.scan)
           lows == Field(recent, "l")
           highs == Field(recent, "h")
       IN  IF Len(recent) < Windows.scan THEN {<<0, 0>>}
           ELSE FirstLevel(lows, SwingPoints(lows, FALSE),
                           Fibonacci(recent, {236, 382, 500, 618}, FALSE))
                \X FirstLevel(highs, SwingPoints(highs, TRUE),
                              Fibonacci(recent, {1272, 1618}, TRUE))

Ranging(provider, chart) ==
  chart.adx <= 20 /\ (provider # "live" => chart.adx < 20)

-----------------------------------------------------------------------------
(* The pullback detector (pullback.go).                                    *)

PullbackPrerequisites(chart) ==
  LET closes == Field(chart.bars, "c")
      highs == Field(chart.bars, "h")
      high == Max(ToSet(Recent(highs, Windows.recent)))
      close == Current(chart).c
  IN  /\ close > chart.ema20 /\ chart.ema20 > chart.ema50
      /\ Len(closes) >= Windows.ema20 + Windows.slope =>
           ~SlopeNegative(closes, Windows.ema20) /\ ~SlopeNegative(closes, Windows.ema50)
      /\ chart.adx >= 25
      /\ chart.weekly # "none" => chart.weekly = "up" /\ chart.weeklyRsi > 50
      /\ Len(highs) >= Windows.high =>
           /\ (high - chart.ema20) * 100 \in (5 * chart.ema20)..(20 * chart.ema20)
           /\ DaysSinceHigh(highs, Windows.high) \in 2..10
      /\ Near(close, chart.ema20, 3, chart.ema20)
      /\ chart.rsi \in 40..60

VolumeSpike(chart) ==
  LET volumes == Field(chart.bars, "v")
      recent == Front(Recent(volumes, Windows.recent))
      last == volumes[Len(volumes)]
  IN  /\ Len(volumes) >= Windows.recent
      /\ 2 * last * Len(recent) > 3 * Added(recent)
      /\ CalculateVolumePercentile(last, recent) >= 75

PullbackTriggers(chart) ==
  LET now == Current(chart)
      prev == Previous(chart)
  IN  {t \in {"candle", "volume", "stochastic", "support", "gap"} :
         CASE t = "candle" -> CandleStrength(now, prev) # "none"
           [] t = "volume" -> VolumeSpike(chart)
           [] t = "stochastic" -> chart.d > 0 /\ chart.k > chart.d /\ chart.k < 50
           [] t = "support" -> CheckSupportConfluence(now.c, FindSupportLevels(chart.bars))
           [] t = "gap" -> /\ (now.o - prev.c) * 100 > prev.c
                           /\ Apart(prev.c, chart.ema20) * 100 < 2 * chart.ema20}

Signal(symbol, type, chart, stop, direction, confidence) ==
  [symbol |-> symbol, type |-> type, entry |-> Current(chart).c, stop |-> stop,
   direction |-> direction, confidence |-> confidence]

PullbackSignal(symbol, chart) ==
  LET n == Cardinality(PullbackTriggers(chart)) IN
  IF Len(chart.bars) < 2 \/ ~PullbackPrerequisites(chart) \/ n < 2 THEN <<>>
  ELSE <<Signal(symbol, "Pullback", chart, chart.ema20 * 97, "long",
                IF n >= 4 THEN "Very High" ELSE IF n = 3 THEN "High" ELSE "Moderate")>>

-----------------------------------------------------------------------------
(* The breakout detector (breakout.go).  The consolidation is looked for   *)
(* in the last bars, the current one included.                             *)

Consolidation(chart) == Recent(chart.bars, Windows.scan)
Top(bars) == Max(ToSet(Field(bars, "h")))
Bottom(bars) == Min(ToSet(Field(bars, "l")))

(* A test starts at a bar near the resistance that follows one that is not. *)
ResistanceTests(bars) ==
  LET near(b) == Near(b.h, Top(bars), 1, Top(bars)) \/ 100 * b.c >= 99 * Top(bars)
  IN  Cardinality({i \in DOMAIN bars : near(bars[i]) /\ (i > 1 => ~near(bars[i - 1]))})

IsConsolidation(bars) ==
  LET total == Added(Field(bars, "c"))
      range == (Top(bars) - Bottom(bars)) * 100 * Len(bars)
  IN  /\ Len(bars) >= Windows.consolidation
      /\ range >= 8 * total /\ range <= 25 * total
      /\ ResistanceTests(bars) \in 2..3

(* Twice the median of the last 30 volumes.                                *)
TwiceMedian(volumes) ==
  LET s == Recent(volumes, Windows.high)
      n == Len(s)
      at(k) == CHOOSE v \in ToSet(s) :
                 /\ Cardinality({i \in DOMAIN s : s[i] < v}) < k
                 /\ Cardinality({i \in DOMAIN s : s[i] <= v}) >= k
  IN  IF n % 2 = 0 THEN at(n \div 2) + at(n \div 2 + 1) ELSE 2 * at(n \div 2 + 1)

BreakoutSignal(symbol, chart, percentile) ==
  LET bars == Consolidation(chart)
      above == Current(chart).c - Top(bars)
  IN  IF /\ IsConsolidation(bars) /\ ~chart.ceiling
         /\ above > 0 /\ 2 * above >= chart.atr
         /\ percentile >= 90 /\ Current(chart).v >= TwiceMedian(Field(chart.bars, "v"))
      THEN <<Signal(symbol, "Breakout", chart, Bottom(bars) * 98, "long",
                    IF percentile >= 95 \/ chart.weekly = "up" THEN "High" ELSE "Moderate")>>
      ELSE <<>>

-----------------------------------------------------------------------------
(* The crossover detector (crossover.go); when the averages crossed is not *)
(* looked up but taken to be a fixed number of bars ago.                   *)

SinceCross(bars) == Recent(bars, Windows.cross)

CrossoverPullback(chart) ==
  LET close == Current(chart).c IN
  /\ Near(close, chart.ema20, 3, close)
  /\ DaysSinceHigh(Field(SinceCross(chart.bars), "c"), Windows.cross) \in 2..7

VolumeDeclined(chart) ==
  LET days == DaysSinceHigh(Field(SinceCross(chart.bars), "c"), Windows.cross)
      recent == Field(Recent(chart.bars, days + 1), "v")
      half == Len(recent) \div 2
      early == SubSeq(recent, 1, half)
      late == SubSeq(recent, half + 1, Len(recent))
  IN  Len(recent) >= 3 /\ 10 * Added(late) * Len(early) < 9 * Added(early) * Len(late)

CrossoverTriggers(chart) ==
  LET volumes == Field(chart.bars, "v")
      recent == Recent(volumes, Windows.recent)
  IN  {t \in {"candle", "volume", "rsi", "stochastic", "macd"} :
         CASE t = "candle" -> CandleStrength(Current(chart), Previous(chart)) # "none"
           [] t = "volume" -> 10 * Current(chart).v * Len(recent) > 13 * Added(recent)
           [] t = "rsi" -> chart.rsi \in 40..60
           [] t = "stochastic" -> chart.k > chart.d /\ chart.k < 60
           [] t = "macd" -> chart.hist > 0}

CrossoverConfidence(chart) ==
  LET n == Cardinality(CrossoverTriggers(chart))
      score == 2 + (IF VolumeDeclined(chart) THEN 2 ELSE 0)
                 + (IF n >= 4 THEN 2 ELSE IF n = 3 THEN 1 ELSE 0)
  IN  IF score >= 5 THEN "Very High" ELSE IF score >= 3 THEN "Moderate" ELSE "Low"

CrossoverSignal(symbol, chart, series) ==
  IF /\ chart.ema20 > chart.ema50 /\ Current(chart).c > chart.ema50 /\ chart.adx >= 20
     /\ series /\ Len(chart.bars) >= Windows.scan
     /\ CrossoverPullback(chart) /\ Cardinality(CrossoverTriggers(chart)) >= 2
  THEN <<Signal(symbol, "Crossover", chart, Nearest100(chart.ema50 * 97), "long",
                CrossoverConfidence(chart))>>
  ELSE <<>>

-----------------------------------------------------------------------------
(* The mean reversion detector (mean_reversion.go).                        *)

LevelTests(s, level) ==
  LET r == Recent(s, Windows.scan) IN
  Cardinality({i \in DOMAIN r : Apart(r[i], level) * 100 < 2 * level})

RangeTests(bars, sr) ==
  Min({LevelTests(Field(bars, "l"), sr[1]), LevelTests(Field(bars, "h"), sr[2])})

ValidRange(bars, sr) ==
  LET width == (sr[2] - sr[1]) * 200 IN
  /\ sr[1] > 0 /\ sr[2] > 0
  /\ width >= 8 * (sr[1] + sr[2]) /\ width <= 25 * (sr[1] + sr[2])
  /\ RangeTests(bars, sr) >= 3

(* Support is looked at before resistance.                                 *)
Direction(price, sr) ==
  IF Near(price, sr[1], 3, sr[1]) THEN "long"
  ELSE IF Near(price, sr[2], 3, sr[2]) THEN "short" ELSE "none"

OscillatorsConfirm(chart, direction) ==
  IF direction = "long" THEN chart.rsi < 30 /\ chart.k < 20 ELSE chart.rsi > 70 /\ chart.k > 80

ReversalStrength(chart, direction) ==
  LET b == Current(chart) IN
  IF direction = "long"
  THEN LET candle == CandleStrength(b, Previous(chart)) IN
       IF candle # "none" THEN candle ELSE IF b.c > b.o THEN "moderate" ELSE "none"
  ELSE IF b.c >= b.o THEN "none"
       ELSE IF b.h - b.o > 2 * (b.o - b.c) THEN "strong" ELSE "moderate"

MeanReversionSignal(symbol, provider, chart, sr) ==
  LET way == Direction(Current(chart).c, sr)
      reversal == ReversalStrength(chart, way)
      score == (IF RangeTests(chart.bars, sr) >= 4 THEN 2 ELSE 1) + 1
               + (IF reversal = "strong" THEN 2 ELSE 1)
  IN  IF /\ Ranging(provider, chart) /\ ValidRange(chart.bars, sr) /\ way # "none"
         /\ OscillatorsConfirm(chart, way) /\ Len(chart.bars) >= 2 /\ reversal # "none"
      THEN <<Signal(symbol, "MeanReversion", chart,
                    IF way = "long" THEN Nearest100(sr[1] * 97) ELSE Nearest100(sr[2] * 103),
                    way, IF score >= 5 THEN "High" ELSE "Moderate")>>
      ELSE <<>>

-----------------------------------------------------------------------------
(* ScanForSignals.  Support levels are looked for in the series as soon as *)
(* the prerequisites of a pullback hold; a nil series is a panic nobody    *)
(* recovers from.                                                          *)

Panics(provider, chart) == ~HasSeries(provider) /\ PullbackPrerequisites(chart)

SignalsOf(symbol, provider, chart, sr) ==
  PullbackSignal(symbol, chart)
  \o BreakoutSignal(symbol, chart, GetVolumePercentile(provider, chart))
  \o CrossoverSignal(symbol, chart, HasSeries(provider))
  \o MeanReversionSignal(symbol, provider, chart, sr)

ScanSymbol ==
  /\ scan.at = "scan" /\ scan.left # <<>>
  /\ LET symbol == Head(scan.left)
         chart == GetDailyData(scan.provider, charts[symbol])
     IN  IF Panics(scan.provider, chart)
         THEN scan' = [scan EXCEPT !.at = "panic"] /\ UNCHANGED found
         ELSE /\ scan' = [scan EXCEPT !.left = Tail(@)]
              /\ \E sr \in GetSupportResistance(scan.provider, chart) :
                   found' = found \o SignalsOf(symbol, scan.provider, chart, sr)
  /\ UNCHANGED <<charts, ranked>>

(* A symbol without data is skipped.                                       *)
SymbolUnavailable ==
  /\ scan.at = "scan" /\ scan.left # <<>>
  /\ scan' = [scan EXCEPT !.left = Tail(@)]
  /\ UNCHANGED <<charts, found, ranked>>

StartRanking ==
  /\ scan.at = "scan" /\ scan.left = <<>>
  /\ ranked' = found
  /\ scan' = [scan EXCEPT !.at = IF Len(found) < 2 THEN "done" ELSE "rank", !.i = 1, !.j = 2]
  /\ UNCHANGED <<charts, found>>

ConfidenceToScore(c) ==
  CASE c = "Very High" -> 4 [] c = "High" -> 3 [] c = "Moderate" -> 2 [] c = "Low" -> 1
SignalTypeToScore(t) ==
  CASE t = "Pullback" -> 4 [] t = "Breakout" -> 3 [] t = "Crossover" -> 2
    [] t = "MeanReversion" -> 1

ShouldSwap(a, b) ==
  \/ ConfidenceToScore(b.confidence) > ConfidenceToScore(a.confidence)
  \/ /\ ConfidenceToScore(b.confidence) = ConfidenceToScore(a.confidence)
     /\ SignalTypeToScore(b.type) > SignalTypeToScore(a.type)

(* One comparison of the two loops of RankSignals.                         *)
RankStep ==
  /\ scan.at = "rank"
  /\ LET i == scan.i
         j == scan.j
     IN  /\ ranked' = IF ShouldSwap(ranked[i], ranked[j])
                      THEN [ranked EXCEPT ![i] = ranked[j], ![j] = ranked[i]] ELSE ranked
         /\ scan' = IF j < Len(ranked) THEN [scan EXCEPT !.j = j + 1]
                    ELSE IF i + 1 < Len(ranked) THEN [scan EXCEPT !.i = i + 1, !.j = i + 2]
                    ELSE [scan EXCEPT !.at = "done"]
  /\ UNCHANGED <<charts, found>>

SignalsInit ==
  /\ \E p \in Providers :
       scan = [at |-> "scan", provider |-> p, left |-> ScannedSymbols, i |-> 0, j |-> 0]
  /\ charts \in [ToSet(ScannedSymbols) -> Charts]
  /\ found = <<>> /\ ranked = <<>>

SignalsNext == ScanSymbol \/ SymbolUnavailable \/ StartRanking \/ RankStep

SignalsSpec == SignalsInit /\ [][SignalsNext]_signalVars

-----------------------------------------------------------------------------
(* Properties.                                                             *)

SignalsTypeOK ==
  /\ scan.at \in {"scan", "rank", "done", "panic"} /\ scan.provider \in Providers
  /\ \A s \in {found, ranked} : \A i \in DOMAIN s :
       s[i].symbol \in ToSet(ScannedSymbols) /\ s[i].direction \in {"long", "short"}

(* data_provider_adapter.go: "DailySeries: nil, // Not using Series        *)
(* struct": a scan with the data of the live scanner ends.                 *)
SeriesNotUsed == scan.at # "panic"
=============================================================================
