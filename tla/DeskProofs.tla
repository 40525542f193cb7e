----------------------------- MODULE DeskProofs -----------------------------
(***************************************************************************)
(* Proofs about Desk: what the theorems of the components say holds of     *)
(* the desk they are part of.                                              *)
(***************************************************************************)
EXTENDS Desk, SettlementProofs, BotProofs, StopProofs, MarketProofs, RiskProofs

-----------------------------------------------------------------------------
(* A step of the desk is a step of each component or leaves it alone.      *)
LEMMA DeskStep ==
  ASSUME [DeskNext]_deskVars
  PROVE  /\ [SettlementNext]_settlementVars
         /\ [OtpNext]_otpVars
         /\ [ImportNext]_importVars
         /\ [TrackerNext]_trackerVars
         /\ [AlertNext]_alertVars
         /\ [ScanNext]_scanVars
         /\ [PortfolioNext]_portfolioVars
         /\ [PlanNext]_planVars
         /\ [ScoreNext]_scoreVars
         /\ [RallyNext]_rallyVars
         /\ [BacktestNext]_backtestVars
         /\ [RegimeNext]_regimeVars
         /\ [SignalsNext]_signalVars
         /\ [WeeklyNext]_weeklyVars
<1>1. [SettlementNext]_settlementVars
  BY Zenon DEF DeskNext, Parked, deskVars
<1>2. [OtpNext]_otpVars
  BY Zenon DEF DeskNext, Parked, deskVars
<1>3. [ImportNext]_importVars
  BY Zenon DEF DeskNext, Parked, deskVars
<1>4. [TrackerNext]_trackerVars
  BY Zenon DEF DeskNext, Parked, deskVars
<1>5. [AlertNext]_alertVars
  BY Zenon DEF DeskNext, Parked, deskVars
<1>6. [ScanNext]_scanVars
  BY Zenon DEF DeskNext, Parked, deskVars
<1>7. [PortfolioNext]_portfolioVars
  BY Zenon DEF DeskNext, Parked, deskVars
<1>8. [PlanNext]_planVars
  BY Zenon DEF DeskNext, Parked, deskVars
<1>9. [ScoreNext]_scoreVars
  BY Zenon DEF DeskNext, Parked, deskVars
<1>10. [RallyNext]_rallyVars
  BY Zenon DEF DeskNext, Parked, deskVars
<1>11. [BacktestNext]_backtestVars
  BY Zenon DEF DeskNext, Parked, deskVars
<1>12. [RegimeNext]_regimeVars
  BY Zenon DEF DeskNext, Parked, deskVars
<1>13. [SignalsNext]_signalVars
  BY Zenon DEF DeskNext, Parked, deskVars
<1>14. [WeeklyNext]_weeklyVars
  BY Zenon DEF DeskNext, Parked, deskVars
<1>15. QED
  BY <1>1, <1>2, <1>3, <1>4, <1>5, <1>6, <1>7, <1>8, <1>9, <1>10, <1>11, <1>12, <1>13, <1>14

(* Every behaviour of the desk is one of each component: what is proved of *)
(* a component alone holds of it at the desk (cmd/app/main.go).            *)
THEOREM ComponentsFollowed ==
  DeskSpec => /\ SettlementSpec
              /\ OtpSpec
              /\ ImportSpec
              /\ TrackerSpec
              /\ AlertSpec
              /\ ScanSpec
              /\ PortfolioSpec
              /\ PlanSpec
              /\ ScoreSpec
              /\ RallySpec
              /\ BacktestSpec
              /\ RegimeSpec
              /\ SignalsSpec
              /\ WeeklySpec
<1>1. DeskInit => /\ SettlementInit
                  /\ OtpInit
                  /\ ImportInit
                  /\ TrackerInit
                  /\ AlertInit
                  /\ ScanInit
                  /\ PortfolioInit
                  /\ PlanInit
                  /\ ScoreInit
                  /\ RallyInit
                  /\ BacktestInit
                  /\ RegimeInit
                  /\ SignalsInit
                  /\ WeeklyInit
  BY Zenon DEF DeskInit
<1>2. [DeskNext]_deskVars => /\ [SettlementNext]_settlementVars
                             /\ [OtpNext]_otpVars
                             /\ [ImportNext]_importVars
                             /\ [TrackerNext]_trackerVars
                             /\ [AlertNext]_alertVars
                             /\ [ScanNext]_scanVars
                             /\ [PortfolioNext]_portfolioVars
                             /\ [PlanNext]_planVars
                             /\ [ScoreNext]_scoreVars
                             /\ [RallyNext]_rallyVars
                             /\ [BacktestNext]_backtestVars
                             /\ [RegimeNext]_regimeVars
                             /\ [SignalsNext]_signalVars
                             /\ [WeeklyNext]_weeklyVars
  BY DeskStep
<1>3. DeskSpec => SettlementSpec
  BY <1>1, <1>2, PTL DEF DeskSpec, SettlementSpec
<1>4. DeskSpec => OtpSpec
  BY <1>1, <1>2, PTL DEF DeskSpec, OtpSpec
<1>5. DeskSpec => ImportSpec
  BY <1>1, <1>2, PTL DEF DeskSpec, ImportSpec
<1>6. DeskSpec => TrackerSpec
  BY <1>1, <1>2, PTL DEF DeskSpec, TrackerSpec
<1>7. DeskSpec => AlertSpec
  BY <1>1, <1>2, PTL DEF DeskSpec, AlertSpec
<1>8. DeskSpec => ScanSpec
  BY <1>1, <1>2, PTL DEF DeskSpec, ScanSpec
<1>9. DeskSpec => PortfolioSpec
  BY <1>1, <1>2, PTL DEF DeskSpec, PortfolioSpec
<1>10. DeskSpec => PlanSpec
  BY <1>1, <1>2, PTL DEF DeskSpec, PlanSpec
<1>11. DeskSpec => ScoreSpec
  BY <1>1, <1>2, PTL DEF DeskSpec, ScoreSpec
<1>12. DeskSpec => RallySpec
  BY <1>1, <1>2, PTL DEF DeskSpec, RallySpec
<1>13. DeskSpec => BacktestSpec
  BY <1>1, <1>2, PTL DEF DeskSpec, BacktestSpec
<1>14. DeskSpec => RegimeSpec
  BY <1>1, <1>2, PTL DEF DeskSpec, RegimeSpec
<1>15. DeskSpec => SignalsSpec
  BY <1>1, <1>2, PTL DEF DeskSpec, SignalsSpec
<1>16. DeskSpec => WeeklySpec
  BY <1>1, <1>2, PTL DEF DeskSpec, WeeklySpec
<1>17. QED
  BY <1>3, <1>4, <1>5, <1>6, <1>7, <1>8, <1>9, <1>10, <1>11, <1>12, <1>13, <1>14, <1>15, <1>16

(* The invariants and the action properties that the runs of the desk      *)
(* check, of the whole desk and for every value of the constants.          *)
THEOREM DeskSafe ==
  DeskSpec => /\ []NeverFreeTooEarly
              /\ []LockedTooLongIsMissed
              /\ []SellDateIsLiquidDate
              /\ []LockedRiskCovered
              /\ []PasswordUsedOnce
              /\ []CacheHoldsTheToken
              /\ []ImportedAsAsked
              /\ []SharesAddUp
              /\ []WatchedIsStreamed
              /\ []SizedWithinBudget
              /\ []BetterRisksNoLess
              /\ []RallyUnbroken
              /\ []CapitalAccounted
              /\ []MetricsMatchTrades
              /\ []WeeklyIsCurrent
              /\ []WeeksAgree
              /\ AlertsSpaced
              /\ StopLoweredByRaceOnly
              /\ OnlyWatchedDetected
              /\ AddsWithinLimits
              /\ NoWhipsaw
BY ComponentsFollowed, NoEarlySale, FreedStaysFree, SellDateAgrees, RiskCovered,
   OncePerPassword, CacheAgrees, AskedFor, SharesKept, InStepAlways, WithinBudget,
   BetterNeverLess, AttemptsUnbroken, BooksBalance, MetricsAgree, WeeklyStaysCurrent,
   AggregationsAgree, Spacing, OnlyRacesLower, DetectionsWatched, CountsWithinLimits, Hysteresis

(* The state of every component stays well formed, whichever of them       *)
(* moves, and the machine that is followed is never changed.               *)
THEOREM DeskTypeCorrect == DeskSpec => []DeskTypeOK
<1> DEFINE Followed == machine \in Machines
<1>1. DeskInit => Followed
  BY Zenon DEF DeskInit
<1>2. Followed /\ [DeskNext]_deskVars => Followed'
  <2>1. [DeskNext]_deskVars => machine' = machine
    BY Zenon DEF DeskNext, deskVars
  <2>2. QED
    BY <2>1
<1>3. Followed <=> machine \in Machines
  OBVIOUS
<1> HIDE DEF Followed
<1>4. DeskSpec => []Followed
  BY <1>1, <1>2, PTL DEF DeskSpec
<1>5. DeskSpec => /\ []SettlementTypeOK /\ []OtpTypeOK /\ []ImportTypeOK /\ []TrackerTypeOK
                  /\ []AlertTypeOK /\ []ScanTypeOK /\ []PortfolioTypeOK /\ []PlanTypeOK
                  /\ []ScoreTypeOK /\ []RallyTypeOK /\ []BacktestTypeOK /\ []RegimeTypeOK
                  /\ []SignalsTypeOK /\ []WeeklyTypeOK
  BY ComponentsFollowed, SettlementTypeCorrect, OtpTypeCorrect, ImportTypeCorrect,
     TrackerTypeCorrect, AlertTypeCorrect, ScanTypeCorrect, PortfolioTypeCorrect,
     PlanTypeCorrect, ScoreTypeCorrect, RallyTypeCorrect, BacktestTypeCorrect,
     RegimeTypeCorrect, SignalsTypeCorrect, WeeklyTypeCorrect
<1>6. /\ Followed
      /\ SettlementTypeOK /\ OtpTypeOK /\ ImportTypeOK /\ TrackerTypeOK /\ AlertTypeOK
      /\ ScanTypeOK /\ PortfolioTypeOK /\ PlanTypeOK /\ ScoreTypeOK /\ RallyTypeOK
      /\ BacktestTypeOK /\ RegimeTypeOK /\ SignalsTypeOK /\ WeeklyTypeOK
      => DeskTypeOK
  BY <1>3, Zenon DEF DeskTypeOK
<1>7. QED
  BY <1>4, <1>5, <1>6, PTL
=============================================================================
