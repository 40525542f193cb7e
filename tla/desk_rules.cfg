SPECIFICATION DeskSpec
CONSTANTS
  Machines = {"tracker", "scanner", "portfolio", "plan", "score", "rally", "backtest", "regime", "signals", "weekly"}
  \* Settlement
  l1 = l1
  l2 = l2
  Lots = {l1, l2}
  Sizes = {2}
  Holidays = {4}
  Horizon = 7
  RiskBudget = 60
  Listings = {"UPCOM"}
  FirstDay = 3
  LastPurchase = 3
  LastDay = 9
  MaxSettleFaults = 1
  \* OtpFlow
  Chats = {"admin", "guest"}
  MaxAttempts = 2
  MaxPasswords = 2
  MaxRestarts = 2
  MaxOtpFaults = 1
  \* ImportFlow
  Symbols = {"VCB", "FPT"}
  Uploads = {"u1", "u2"}
  MaxCommands = 3
  MaxImportFaults = 1
  \* StopEngine, StopTracker
  TrailingMethod = "atr"
  Callers = {"c1", "c2"}
  Objects = {1, 2}
  Entry = 100
  InitialStop = 90
  Shares = 2
  Targets <- MCTargets
  Prices = {106, 112}
  Indicators <- MCIndicators
  Ids = {"id"}
  \* AlertMonitors
  Cooldown = 2
  Changes <- MCChanges
  WatchedPrices = {89, 99, 112}
  WatchedEntry = 100
  WatchedStop = 90
  WatchedATRs = {0, 4}
  Accounts <- MCAccounts
  MaxAlertFaults = 1
  \* LiveScanner
  Tickers = {"VCB", "FPT"}
  Connecting = TRUE
  MinBars = 2
  BarCacheSize = 2
  MinScore = 7
  MinScoreForAlert = 9
  SignalScores = {5, 9}
  MaxBars = 3
  MaxRefreshes = 1
  MaxScanFaults = 1
  \* PortfolioRisk
  InitialCapital = 1000
  Adders = {"a", "b"}
  Trades <- MCTrades
  Terms <- MCTerms
  Quotes = {70, 100}
  Correlations = {0, 90}
  LimitsOf <- MCLimits
  MaxStreak = 3
  MaxEvents = 3
  \* TradePlan, TradeScore
  PlanEntry = 5000
  PlanCapital = 400000
  StopInputs <- MCStops
  SizeInputs <- MCSizes
  TargetInputs <- MCTargetInputs
  TrailInputs <- MCTrails
  Setups <- MCSetups
  \* FtdRally
  Closes = {990, 1000, 1015}
  Volumes = {1, 2}
  RallyDays = 5
  MaxMissedJobs = 1
  StrengthChecked = FALSE
  \* Backtest
  InitialCash = 30000
  Tradables = {"VCB", "FPT"}
  DayBars <- MCDayBars
  Orders <- MCOrders
  MaxOpen = 2
  Slippage = 1
  Commission = 2
  BacktestDays = 5
  MaxTrades = 3
  MaxUnreported = 500
  \* Regime
  Readings <- MCReadings
  TransitionWindow = 3
  RegimeDays = 4
  \* Signals
  ScannedSymbols <- MCSymbols
  Charts <- MCCharts
  Providers = {"live", "analysis", "complete"}
  Windows <- MCWindows
  RoundNumbers = {1000, 5000, 10000}
  \* WeeklyAnalysis
  Readers = {"r1", "r2"}
  FirstBar = 3
  LastBar = 13
  ClosedDays = {5}
  BarCloses = {1, 2}
  Window = 4
  MinDailyBars = 2
  MinWeeklyBars = 2
  MaxAppended = 7
INVARIANTS
  SharesAddUp WatchedIsStreamed SizedWithinBudget BetterRisksNoLess RallyUnbroken
  CapitalAccounted MetricsMatchTrades WeeklyIsCurrent WeeksAgree
PROPERTIES
  StopLoweredByRaceOnly OnlyWatchedDetected AddsWithinLimits NoWhipsaw
CHECK_DEADLOCK FALSE
