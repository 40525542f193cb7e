-------------------------------- MODULE Desk --------------------------------
(***************************************************************************)
(* The components around the positions, side by side.  They are processes, *)
(* goroutines and calculations that share no variable, so an interleaving  *)
(* of two of them shows nothing that each alone does not: a behaviour      *)
(* picks one component of Machines and follows it to its end, while the    *)
(* others are parked in an initial state.                                  *)
(***************************************************************************)
EXTENDS Settlement, OtpFlow, ImportFlow, StopTracker, AlertMonitors,
        LiveScanner, PortfolioRisk, TradePlan, TradeScore, FtdRally, Backtest,
        Regime, Signals, WeeklyAnalysis

CONSTANT Machines   \* the components that are followed

AllMachines == {"settlement", "otp", "import", "tracker", "alerts", "scanner", "portfolio",
                "plan", "score", "rally", "backtest", "regime", "signals", "weekly"}

ASSUME MachinesAssumption == Machines \subseteq AllMachines

VARIABLE machine    \* the one this behaviour follows

deskVars == <<machine, settlementVars, otpVars, importVars, trackerVars,
              alertVars, scanVars, portfolioVars, planVars, scoreVars, rallyVars,
              backtestVars, regimeVars, signalVars, weeklyVars>>

(* Of several initial states a parked component stands in a fixed one.     *)
DeskInit ==
  /\ machine \in Machines
  /\ SettlementInit /\ OtpInit /\ ImportInit /\ TrackerInit /\ AlertInit
  /\ ScanInit /\ PortfolioInit /\ PlanInit /\ ScoreInit /\ RallyInit
  /\ BacktestInit /\ RegimeInit /\ SignalsInit /\ WeeklyInit
  /\ machine # "alerts" =>
       /\ service = "price" /\ ~marketOpen
       /\ closing = CHOOSE x \in [price : {WatchedEntry}, atr : WatchedATRs] : TRUE
       /\ account = CHOOSE a \in Accounts : TRUE
  /\ machine # "otp" => cached = NoToken
  /\ machine # "plan" => isLong
  /\ machine # "signals" =>
       /\ scan.provider = CHOOSE p \in Providers : TRUE
       /\ \E x \in {CHOOSE c \in Charts : TRUE} : \A s \in DOMAIN charts : charts[s] = x

Parked ==
  /\ machine # "settlement" => UNCHANGED settlementVars
  /\ machine # "otp" => UNCHANGED otpVars
  /\ machine # "import" => UNCHANGED importVars
  /\ machine # "tracker" => UNCHANGED trackerVars
  /\ machine # "alerts" => UNCHANGED alertVars
  /\ machine # "scanner" => UNCHANGED scanVars
  /\ machine # "portfolio" => UNCHANGED portfolioVars
  /\ machine # "plan" => UNCHANGED planVars
  /\ machine # "score" => UNCHANGED scoreVars
  /\ machine # "rally" => UNCHANGED rallyVars
  /\ machine # "backtest" => UNCHANGED backtestVars
  /\ machine # "regime" => UNCHANGED regimeVars
  /\ machine # "signals" => UNCHANGED signalVars
  /\ machine # "weekly" => UNCHANGED weeklyVars

DeskNext ==
  /\ UNCHANGED machine
  /\ Parked
  /\ \/ machine = "settlement" /\ SettlementNext
     \/ machine = "otp" /\ OtpNext
     \/ machine = "import" /\ ImportNext
     \/ machine = "tracker" /\ TrackerNext
     \/ machine = "alerts" /\ AlertNext
     \/ machine = "scanner" /\ ScanNext
     \/ machine = "portfolio" /\ PortfolioNext
     \/ machine = "plan" /\ PlanNext
     \/ machine = "score" /\ ScoreNext
     \/ machine = "rally" /\ RallyNext
     \/ machine = "backtest" /\ BacktestNext
     \/ machine = "regime" /\ RegimeNext
     \/ machine = "signals" /\ SignalsNext
     \/ machine = "weekly" /\ WeeklyNext

(* The fairness of each component, asked for when it is the one followed.  *)
DeskFairness ==
  /\ WF_settlementVars(machine = "settlement" /\ Tick)
  /\ WF_settlementVars(machine = "settlement" /\ UpdaterStep)
  /\ WF_settlementVars(machine = "settlement" /\ StartUpdate(FALSE))
  /\ WF_otpVars(machine = "otp" /\ LoopStep)
  /\ WF_otpVars(machine = "otp" /\ StartupStep)
  /\ SF_alertVars(machine = "alerts" /\ AlertCheck /\ (marketOpen \/ service = "account"))

DeskSpec == DeskInit /\ [][DeskNext]_deskVars
FairDeskSpec == DeskSpec /\ DeskFairness

-----------------------------------------------------------------------------
(* The state of every component is well formed.                            *)
DeskTypeOK ==
  /\ machine \in Machines
  /\ SettlementTypeOK /\ OtpTypeOK /\ ImportTypeOK /\ TrackerTypeOK /\ AlertTypeOK
  /\ ScanTypeOK /\ PortfolioTypeOK /\ PlanTypeOK /\ ScoreTypeOK /\ RallyTypeOK
  /\ BacktestTypeOK /\ RegimeTypeOK /\ SignalsTypeOK /\ WeeklyTypeOK

(* StartupEnds, of a behaviour that follows the bot.                       *)
DeskStartupEnds == machine = "otp" => StartupEnds
=============================================================================
