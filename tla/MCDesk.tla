------------------------------- MODULE MCDesk -------------------------------
(* Values for the constants of the components of Desk.                     *)
EXTENDS Desk

CONSTANTS l1, l2   \* model values: two rows of positions

(* StopTracker *)
MCIndicators == {[atr |-> 4, ema |-> 0, swingLow |-> 0, old |-> TRUE]}
MCTargets == <<110>>

(* AlertMonitors *)
MCChanges == {-3, -2, 5}
MCAccounts ==
  {[risk |-> "critical", loss |-> "ok", capital |-> "warning", progress |-> 96,
    distance |-> 10, days |-> 3, ahead |-> TRUE],
   [risk |-> "ok", loss |-> "critical", capital |-> "warning", progress |-> 100,
    distance |-> 20, days |-> 3, ahead |-> FALSE],
   [risk |-> "warning", loss |-> "critical", capital |-> "ok", progress |-> 10,
    distance |-> 2, days |-> 11, ahead |-> TRUE],
   [risk |-> "ok", loss |-> "warning", capital |-> "ok", progress |-> 10,
    distance |-> 10, days |-> 3, ahead |-> TRUE]}

(* PortfolioRisk: two banks, one of them bought twice over, and a short    *)
(* position in steel.                                                      *)
MCTerms ==
  [t1 |-> [sector |-> "Banking", long |-> TRUE, shares |-> 1, entry |-> 100, stop |-> 80],
   t2 |-> [sector |-> "Banking", long |-> TRUE, shares |-> 2, entry |-> 100, stop |-> 90],
   t3 |-> [sector |-> "Steel", long |-> FALSE, shares |-> 1, entry |-> 100, stop |-> 120]]
MCTrades == DOMAIN MCTerms
LimitSet(count, totalRisk, perSector) ==
  [positions |-> count, size |-> 20, totalRisk |-> totalRisk, dailyLoss |-> 2,
   weeklyLoss |-> 5, drawdown |-> 20, sector |-> 40, perSector |-> perSector,
   correlation |-> 85, losses |-> 3, reduceAfter |-> 2]
MCLimits == [default |-> LimitSet(2, 6, 2), bull |-> LimitSet(3, 6, 2), bear |-> LimitSet(1, 4, 1)]

(* TradePlan *)
MCStops ==
  [long : BOOLEAN, low : {0, 4900}, level : {0, 4752, 5200}, buffer : {0, 10},
   atr : {0, 102, 300}, percent : {0, 50}, reference : {0, 5000, 5300}]
MCSizes ==
  [score : {6, 8, 11}, regime : {"bull", "bear", "range"}, atr : {100, 200, 300, 450},
   correlation : {0, 60, 75, 90}]
MCTargetInputs ==
  [atr : {0, 123}, levels : {{}, {5055, 5600, 6400, 7000}},
   fib : {[base |-> 0, size |-> 0], [base |-> 4900, size |-> 600]},
   measured : {[base |-> 0, size |-> 0], [base |-> 5000, size |-> 400]}]
MCTrails == [raw : {4800, 5055, 5300, 5600}, current : {4900, 5060, 5400}]

(* TradeScore *)
MCSetups ==
  [volume : {999, 1000}, turnover : {50}, zeroDays : {0},
   aboveEMA20 : BOOLEAN, aboveEMA50 : BOOLEAN, aboveSMA200 : {TRUE},
   structure : {"choppy", "higher_highs_lows"},
   support : {"ma", "none"}, supportAway : {30}, consolidation : {4, 5},
   volumes : {<<2, 2, 1, 1, 2>>, <<1, 1, 1, 1, 2>>},
   rsi : {40, 71}, macd : {0, 1}, aboveSignal : {TRUE}, histogramGrows : {FALSE},
   entry : {100}, stop : {93, 92}, target : {114}, atr : {0},
   indexAboveMA50 : BOOLEAN, sectorRS : {1050, 1051},
   news : {"positive", "", "very_negative"}]

(* Backtest *)
DayBar(o, h, l, c) == [open |-> o, high |-> h, low |-> l, close |-> c]
MCDayBars == {DayBar(1000, 1060, 990, 1050), DayBar(1010, 1020, 940, 950),
              DayBar(1070, 1070, 1070, 1070)}
MCOrders == {[limit |-> 1000, stop |-> 950, targets |-> <<1040, 1060>>, shares |-> 10],
             [limit |-> 1010, stop |-> 900, targets |-> <<1055>>, shares |-> 5]}

(* Regime *)
MCReadings ==
  {[ratio |-> r, golden |-> g, highs |-> IF g THEN <<1, 2, 3>> ELSE <<3, 2, 1>>,
    lows |-> IF g THEN <<1, 2, 3>> ELSE IF r = 850 THEN <<3, 2, 2>> ELSE <<3, 2, 1>>,
    adx |-> a, di |-> d, atr |-> 30, volume |-> v] :
     r \in {850, 950, 1150}, g \in BOOLEAN, a \in {18, 55}, d \in {-25, 0, 15},
     v \in {1000, 1400}}

(* Signals: a rally that pulls back, and a range with its last bar at the  *)
(* bottom or at the top.                                                   *)
OHLCV(o, h, l, c, v) == [o |-> o, h |-> h, l |-> l, c |-> c, v |-> v]
RallyBars ==
  <<OHLCV(9400, 9550, 9350, 9500, 100), OHLCV(9500, 9750, 9450, 9700, 100),
    OHLCV(9700, 10100, 9650, 10000, 110), OHLCV(10000, 10150, 9950, 10100, 120),
    OHLCV(10150, 10700, 10100, 10500, 200), OHLCV(10300, 10400, 10050, 10100, 100),
    OHLCV(10150, 10220, 9950, 10200, 150)>>
RangeBars ==
  <<OHLCV(10000, 10500, 9650, 10100, 100), OHLCV(10100, 10400, 9600, 9900, 100),
    OHLCV(9900, 10600, 9650, 10400, 100), OHLCV(10400, 10500, 9700, 9800, 100),
    OHLCV(9800, 10650, 9610, 10300, 100), OHLCV(10300, 10600, 9660, 9690, 100),
    OHLCV(9660, 10300, 9640, 9700, 100)>>
TopBars == [RangeBars EXCEPT ![7] = OHLCV(10600, 10610, 9900, 10500, 300)]
Chart(B, ema20, ema50, adx, rsi, k, d, hist) ==
  [bars |-> B, ema20 |-> ema20, ema50 |-> ema50, adx |-> adx, rsi |-> rsi, k |-> k,
   d |-> d, hist |-> hist, atr |-> 200, weekly |-> "up", weeklyRsi |-> 55, ceiling |-> FALSE]
MCCharts ==
  {Chart(RallyBars, 10000, 9600, 28, 50, 40, 30, 1),
   Chart(RallyBars, 10000, 9600, 28, 50, 30, 40, 0),
   Chart(RallyBars, 10000, 9600, 22, 61, 40, 30, 0),
   Chart(RangeBars, 10000, 10000, 18, 25, 15, 20, 0),
   Chart(TopBars, 10000, 10000, 15, 75, 85, 80, 0)}
MCSymbols == <<"VCB", "FPT">>
MCWindows == [scan |-> 6, consolidation |-> 3, recent |-> 4, high |-> 5, ema20 |-> 3,
              ema50 |-> 4, slope |-> 1, swing |-> 1, cross |-> 5]
=============================================================================
