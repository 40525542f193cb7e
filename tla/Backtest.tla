------------------------------ MODULE Backtest ------------------------------
(***************************************************************************)
(* The backtest (internal/backtest): the simulator that fills an order     *)
(* against a day's bar, the tracker of positions and trades, the capital   *)
(* tracker and the metrics.  The engine's day loop does not place orders   *)
(* yet (processDay, TODO), so whoever drives it does: an order is placed   *)
(* through SimulateBuy and AddPosition between two days.                   *)
(*                                                                         *)
(* Prices are whole numbers; fills and commissions are rounded down.       *)
(***************************************************************************)
EXTENDS Integers, SequencesExt, FiniteSetsExt

CONSTANTS
  InitialCash,
  Tradables,       \* symbols; the tracker updates "VCB" only
  DayBars,         \* bars of a day that LoadOHLCV accepts
  Orders,          \* limit, stop, targets and shares of a buy order
  MaxOpen,         \* MaxPositions
  Slippage,        \* per mille
  Commission,      \* per mille
  BacktestDays,    \* bound: trading days
  MaxTrades,       \* bound: trades and open positions
  MaxUnreported    \* bound: replaced positions

(* ValidateData: what the loader lets through.                             *)
ValidBar(b) ==
  /\ b.open > 0 /\ b.close > 0 /\ b.low > 0
  /\ b.high >= b.open /\ b.high >= b.close /\ b.low <= b.open /\ b.low <= b.close

(* The configuration that Run accepts, and the values its inputs are of.   *)
ASSUME BacktestAssumption ==
  /\ "VCB" \in Tradables /\ \A b \in DayBars : ValidBar(b)
  /\ DayBars \subseteq [open : Nat, high : Nat, low : Nat, close : Nat]
  /\ Orders \subseteq [limit : Nat, stop : Nat, targets : Seq(Nat), shares : Nat]
  /\ {Slippage, Commission} \subseteq Nat /\ {InitialCash, BacktestDays} \subseteq Nat \ {0}

VARIABLES
  backday,    \* index of the day being processed
  daybar,     \* its bar
  reference,  \* close of the day before
  open,       \* symbol -> position, for the symbols that have one
  trades,     \* closed trades
  cash,       \* currentCash
  pending,    \* day -> amount of pendingSettlements
  unreported, \* ghost: fees of closed trades and cost of replaced positions
  report      \* the metrics, at the end

backtestVars == <<backday, daybar, reference, open, trades, cash, pending, unreported, report>>

NoBar == [open |-> 0, high |-> 0, low |-> 0, close |-> 0]
NoReport == [wins |-> 0, losses |-> 0, winStreak |-> 0, lossStreak |-> 0, drawdown |-> 0]

BacktestInit ==
  /\ backday = 0 /\ daybar = NoBar /\ reference = 0
  /\ open = <<>> /\ trades = <<>> /\ unreported = 0 /\ report = NoReport
  /\ cash = InitialCash /\ pending = [d \in 1..BacktestDays |-> 0]

Finished == backday > BacktestDays
-----------------------------------------------------------------------------
(* TradeSimulator *)

Ceiling(ref) == (ref * 107) \div 100

(* SimulateBuy fills a limit that the day reached, within the ceiling, on  *)
(* a day that was not stuck there.                                         *)
Fills(order) ==
  /\ order.limit >= daybar.low
  /\ order.limit <= Ceiling(reference)
  /\ ~(daybar.high >= Ceiling(reference) - 1 /\ daybar.low >= Ceiling(reference) - 1)

(* The lower of limit and open, slipped, at most the limit.                *)
FillPrice(order) ==
  LET best == IF daybar.open < order.limit THEN daybar.open ELSE order.limit
      slipped == (best * (1000 + Slippage)) \div 1000
  IN  IF slipped > order.limit THEN order.limit ELSE slipped

Fee(price, shares) == (price * shares * Commission) \div 1000

-----------------------------------------------------------------------------
(* PositionTracker *)

(* AddPosition pays for the new position; one of the symbol that is still  *)
(* open is replaced.                                                       *)
Buy(symbol, order) ==
  /\ backday > 1 /\ ~Finished
  /\ Cardinality(DOMAIN open) < MaxOpen
  /\ Fills(order)
  /\ Len(trades) + Cardinality(DOMAIN open) < MaxTrades
  /\ symbol \in DOMAIN open => unreported < MaxUnreported
  /\ LET price == FillPrice(order)
         cost == price * order.shares + Fee(price, order.shares)
     IN  /\ open' = [s \in DOMAIN open \cup {symbol} |->
                       IF s = symbol
                       THEN [entry |-> price, shares |-> order.shares, cost |-> cost,
                             stop |-> order.stop, targets |-> order.targets]
                       ELSE open[s]]
         /\ cash' = cash - cost
         /\ unreported' = unreported + IF symbol \in DOMAIN open THEN open[symbol].cost ELSE 0
  /\ UNCHANGED <<backday, daybar, reference, trades, pending, report>>

PnL(p, price) == (price - p.entry) * p.shares

(* Seeded fault: what comes back is the profit.                            *)
Proceeds_Profit(p, price) == PnL(p, price)

Proceeds(p, price) == price * p.shares

(* closePosition of the symbols of a sequence, in that order: the trades   *)
(* are recorded and the proceeds are due on the day of the exit            *)
(* (AddPendingSettlement adds no days to it).                              *)
ClosePositions(closed, price, day) ==
  LET S == Range(closed)
      total == SumFunction([s \in S |-> Proceeds(open[s], price)])
      fees == SumFunction([s \in S |-> open[s].cost - open[s].entry * open[s].shares])
  IN  /\ trades' = trades \o [i \in DOMAIN closed |-> PnL(open[closed[i]], price)]
      /\ open' = [s \in DOMAIN open \ S |-> open[s]]
      /\ pending' = [pending EXCEPT ![day] = @ + total]
      /\ unreported' = unreported + fees

(* UpdatePositions: the stop first, then the first target the day reached; *)
(* either closes all of the position.                                      *)
ExitAt(p, b) ==
  LET reached == {i \in DOMAIN p.targets : b.high >= p.targets[i]}
  IN  IF b.low <= p.stop THEN {p.stop}
      ELSE IF reached # {} THEN {p.targets[Min(reached)]} ELSE {}

(* One day of the engine's loop.                                           *)
ProcessDay(b) ==
  /\ backday < BacktestDays /\ ~Finished
  /\ backday' = backday + 1 /\ daybar' = b /\ reference' = daybar.close
  /\ IF "VCB" \in DOMAIN open /\ ExitAt(open["VCB"], b) # {}
     THEN \E price \in ExitAt(open["VCB"], b) : ClosePositions(<<"VCB">>, price, backday + 1)
     ELSE UNCHANGED <<open, trades, pending, unreported>>
  /\ UNCHANGED <<cash, report>>

-----------------------------------------------------------------------------
(* CapitalTracker *)

(* SettlePendingCash of the current day.                                   *)
Settle ==
  /\ backday \in DOMAIN pending /\ pending[backday] # 0
  /\ cash' = cash + pending[backday]
  /\ pending' = [pending EXCEPT ![backday] = 0]
  /\ UNCHANGED <<backday, daybar, reference, open, trades, unreported, report>>

-----------------------------------------------------------------------------
(* CalculateComprehensiveMetrics, from the profits of the closed trades *)

(* buildEquityCurve *)
Curve(pnls) == FoldLeft(LAMBDA c, x : Append(c, Last(c) + x), <<InitialCash>>, pnls)

(* Seeded fault: the peak is not carried along.                            *)
Drawdown_DayByDay(curve) ==
  FoldLeft(LAMBDA acc, e : [peak |-> e, fall |-> IF e - acc.peak < acc.fall THEN e - acc.peak
                                                 ELSE acc.fall],
           [peak |-> curve[1], fall |-> 0], curve).fall

(* calculateDrawdown: the lowest point under the running maximum.          *)
Drawdown(curve) ==
  FoldLeft(LAMBDA acc, e :
             LET peak == IF e > acc.peak THEN e ELSE acc.peak
             IN  [peak |-> peak, fall |-> IF peak > 0 /\ e - peak < acc.fall THEN e - peak
                                          ELSE acc.fall],
           [peak |-> curve[1], fall |-> 0], curve).fall

(* calculateStreaks: a trade that breaks even ends neither streak.         *)
Streaks(pnls) ==
  FoldLeft(LAMBDA a, x :
             IF x > 0 THEN [a EXCEPT !.win = @ + 1, !.loss = 0, !.maxWin = Max({@, a.win + 1})]
             ELSE IF x < 0 THEN [a EXCEPT !.loss = @ + 1, !.win = 0, !.maxLoss = Max({@, a.loss + 1})]
             ELSE a,
           [win |-> 0, loss |-> 0, maxWin |-> 0, maxLoss |-> 0], pnls)

Metrics(pnls) ==
  [wins |-> Cardinality({i \in DOMAIN pnls : pnls[i] > 0}),
   losses |-> Cardinality({i \in DOMAIN pnls : pnls[i] < 0}),
   winStreak |-> Streaks(pnls).maxWin, lossStreak |-> Streaks(pnls).maxLoss,
   drawdown |-> IF pnls = <<>> THEN 0 ELSE Drawdown(Curve(pnls))]

(* Run ends: what is open is closed at the last close, in the order of a   *)
(* map, and not settled.                                                   *)
Finish ==
  /\ backday = BacktestDays
  /\ \E closed \in SetToSeqs(DOMAIN open) : ClosePositions(closed, daybar.close, backday)
  /\ report' = Metrics(trades')
  /\ backday' = backday + 1
  /\ UNCHANGED <<daybar, reference, cash>>

BacktestNext ==
  \/ \E b \in DayBars : ProcessDay(b)
  \/ \E s \in Tradables, o \in Orders : Buy(s, o)
  \/ Settle
  \/ Finish

BacktestSpec == BacktestInit /\ [][BacktestNext]_backtestVars
-----------------------------------------------------------------------------
BacktestTypeOK ==
  /\ backday \in 0..(BacktestDays + 1)
  /\ DOMAIN open \subseteq Tradables
  /\ \A s \in DOMAIN open : open[s].entry \in Nat \ {0} /\ open[s].cost \in Nat
  /\ unreported \in Nat /\ report.wins + report.losses <= Len(trades)

(* No money appears or disappears: cash, proceeds that are due and what    *)
(* the open positions cost are the initial capital and the profits of the  *)
(* closed trades, less the commissions those profits leave out             *)
(* (position_tracker.go:165, Commission 0) and the cost of positions that  *)
(* AddPosition replaced.                                                   *)
CapitalAccounted ==
  cash + SumFunction(pending) + SumFunction([s \in DOMAIN open |-> open[s].cost])
    = InitialCash + SumFunction(trades) - unreported

(* The reported drawdown is the worst fall between any two points of the   *)
(* curve, and a streak the most wins of a run of trades without a loss     *)
(* (metrics.go).                                                           *)
MetricsMatchTrades ==
  Finished =>
    LET curve == Curve(trades)
        spans == {r \in (1..Len(trades)) \X (1..Len(trades)) : r[1] <= r[2]}
        winsIn(r) == Cardinality({k \in r[1]..r[2] : trades[k] > 0})
    IN  /\ \A i, j \in DOMAIN curve : i <= j => curve[j] - curve[i] >= report.drawdown
        /\ \E i, j \in DOMAIN curve : i <= j /\ curve[j] - curve[i] = report.drawdown
        /\ report.winStreak =
             Max({0} \cup {winsIn(r) : r \in {q \in spans : \A k \in q[1]..q[2] : trades[k] >= 0}})
=============================================================================
