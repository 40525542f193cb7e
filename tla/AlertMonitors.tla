--------------------------- MODULE AlertMonitors ---------------------------
(***************************************************************************)
(* The three services that watch prices, stops and the account and tell    *)
(* the trader: PriceMonitorService (internal/service/monitor/service.go),  *)
(* the stop MonitorService (internal/service/position/monitor_service.go)  *)
(* and AlertService (internal/service/telegram/alert_service.go).  Each is *)
(* one goroutine that checks at a fixed interval and keeps a cooldown per  *)
(* kind of alert; they share no state, so a behaviour follows one of them. *)
(* A cooldown is counted in checks of its service.  The stop monitor asks  *)
(* the rules of StopEngine, and prices count in its unit.                  *)
(***************************************************************************)
EXTENDS StopEngine

CONSTANTS
  Cooldown,        \* checks between two alerts of one kind
  Changes,         \* price change of the watched symbol: in whole percent
  WatchedPrices,   \* closes of the last candle of the open position
  WatchedEntry, WatchedStop,  \* entry price and stored stop of the position
  WatchedATRs,     \* average true range of its candles
  Accounts,        \* what the risk manager and the tracker report
  MaxAlertFaults   \* bound: messages Telegram does not take, checks whose reads fail

ASSUME AlertAssumption ==
  /\ Cooldown \in Nat \ {0} /\ MaxAlertFaults \in Nat
  /\ {WatchedEntry, WatchedStop} \subseteq Nat /\ WatchedPrices \subseteq Nat
  /\ WatchedATRs \subseteq Nat /\ Changes \subseteq Int

VARIABLES
  service,     \* the service this behaviour follows
  marketOpen,  \* the session of the exchange
  wasOpen,     \* PriceMonitorService.wasOpen
  news,        \* what was last told of the session: "none", "on" or "off"
  change,      \* cached price change of the symbol, or NoQuote
  closing,     \* the close and the ATR of the position's candles
  readable,    \* every open row can be scanned, 14 candles or more are there
  account,     \* what the risk manager and the tracker report
  sinceAlert,  \* lastAlerts: checks since the alert was recorded
  sinceSent,   \* history: checks since an alert reached the trader
  told,        \* alerts the last check delivered
  alertFaults

alertVars == <<service, marketOpen, wasOpen, news, change, closing, readable, account,
               sinceAlert, sinceSent, told, alertFaults>>

NoQuote == 1000
Services == {"price", "stop", "account"}

PriceKeys == {"PRICE_DROP", "PRICE_GAIN"}
StopKeys == {"adjust", "stop_hit"}
AccountKeys == {"portfolio_risk_critical", "portfolio_risk_warning",
                "daily_loss_critical", "daily_loss_warning", "capital_util_warning",
                "target_approaching", "stop_approaching", "time_stop"}
AlertKeys == PriceKeys \cup StopKeys \cup AccountKeys

-----------------------------------------------------------------------------
(* What each service has to tell.                                          *)

(* CheckPrices: 3% down, 5% up; a symbol without a quote is passed over.   *)
PricesDue ==
  {k \in PriceKeys : /\ change # NoQuote
                     /\ k = "PRICE_DROP" => change <= -3
                     /\ k = "PRICE_GAIN" => change >= 5}

(* convertToEnginePosition: the highest price is the current one.          *)
ConvertToEnginePosition ==
  [entry |-> WatchedEntry, stop |-> WatchedStop, risk |-> WatchedEntry - WatchedStop,
   targets |-> <<>>, highest |-> closing.price]

RecommendedStops ==
  EvaluateStopAdjustment(ConvertToEnginePosition, closing.price,
    [atr |-> closing.atr, ema |-> 0, swingLow |-> 0, old |-> FALSE])

(* evaluatePosition: the recommended stop replaces the stored one in the   *)
(* copy at hand only, and a stop hit is looked for in that copy.           *)
StopInHand == IF RecommendedStops = {} THEN WatchedStop
              ELSE CHOOSE s \in RecommendedStops : TRUE

StopsDue ==
  {k \in StopKeys : /\ k = "adjust" => RecommendedStops # {}
                    /\ k = "stop_hit" => closing.price <= StopInHand}

(* CheckRiskLimits tells the worse of two levels, MonitorPositions each of *)
(* its three reminders.                                                    *)
AccountDue ==
  {k \in AccountKeys :
     CASE k = "portfolio_risk_critical" -> account.risk = "critical"
       [] k = "portfolio_risk_warning"  -> account.risk = "warning"
       [] k = "daily_loss_critical"     -> account.loss = "critical"
       [] k = "daily_loss_warning"      -> account.loss = "warning"
       [] k = "capital_util_warning"    -> account.capital = "warning"
       [] k = "target_approaching"      -> account.progress >= 95
       [] k = "stop_approaching"        -> account.distance \in 1..2
       [] k = "time_stop"               -> account.days > 10}

(* The price and the stop monitor check during a session only; the stop    *)
(* monitor tells nothing when one row of the table cannot be scanned or    *)
(* the candles are too few for the ATR.                                    *)
Due == CASE service = "price"   -> IF marketOpen THEN PricesDue ELSE {}
         [] service = "stop"    -> IF marketOpen /\ readable THEN StopsDue ELSE {}
         [] service = "account" -> AccountDue

(* notifyTargetApproaching sends nothing when no target is above the       *)
(* price; MonitorPositions records the reminder all the same.              *)
Told(due) == {k \in due : k = "target_approaching" => account.ahead}

-----------------------------------------------------------------------------
(* The cooldown.                                                           *)

MayAlert(k, since) == since[k] >= Cooldown

Aged(since) == [k \in AlertKeys |-> IF since[k] < Cooldown THEN since[k] + 1 ELSE since[k]]

(* Seeded faults: a suppressed alert starts the cooldown again; a stop hit *)
(* is recorded under the key of the position.                              *)
Recorded_Suppressed(since, due, sends) ==
  [k \in AlertKeys |-> IF k \in due THEN 0 ELSE since[k]]
Recorded_OneKey(since, due, sends) ==
  [k \in AlertKeys |-> IF k \in sends \ {"stop_hit"} \/ (k = "adjust" /\ "stop_hit" \in sends)
                       THEN 0 ELSE since[k]]

(* sendAlert, recordAlert: an alert that is out of its cooldown is         *)
(* recorded, whether the send succeeds, fails or is left out.              *)
Recorded(since, due, sends) == [k \in AlertKeys |-> IF k \in sends THEN 0 ELSE since[k]]

Tell(due, lost) ==
  LET aged  == Aged(sinceAlert)
      sends == {k \in due : MayAlert(k, aged)}
  IN  /\ lost \subseteq Told(sends)
      /\ alertFaults + Cardinality(lost) <= MaxAlertFaults
      /\ alertFaults' = alertFaults + Cardinality(lost)
      /\ sinceAlert' = Recorded(aged, due, sends)
      /\ told' = Told(sends) \ lost
      /\ sinceSent' = [k \in AlertKeys |-> IF k \in Told(sends) \ lost THEN 0
                                           ELSE Aged(sinceSent)[k]]

-----------------------------------------------------------------------------
(* The checks.                                                             *)

(* checkMarketStatus comes first; its message may be lost, wasOpen is      *)
(* updated all the same.                                                   *)
CheckMarketStatus(newsLost) ==
  /\ wasOpen' = marketOpen
  /\ news' = IF marketOpen = wasOpen \/ newsLost THEN news
             ELSE IF marketOpen THEN "on" ELSE "off"

CheckPrices ==
  /\ service = "price"
  /\ \E lost \in SUBSET Due : Tell(Due, lost)
  /\ CheckMarketStatus(FALSE)
  /\ UNCHANGED <<service, marketOpen, change, closing, readable, account>>

CheckPricesNewsLost ==
  /\ service = "price"
  /\ marketOpen # wasOpen /\ alertFaults < MaxAlertFaults
  /\ LET aged  == Aged(sinceAlert)
         sends == {k \in Due : MayAlert(k, aged)}
     IN  /\ sinceAlert' = Recorded(aged, Due, sends)
         /\ told' = sends
         /\ sinceSent' = [k \in AlertKeys |-> IF k \in sends THEN 0 ELSE Aged(sinceSent)[k]]
  /\ alertFaults' = alertFaults + 1
  /\ CheckMarketStatus(TRUE)
  /\ UNCHANGED <<service, marketOpen, change, closing, readable, account>>

CheckPositions ==
  /\ service = "stop"
  /\ \E lost \in SUBSET Due : Tell(Due, lost)
  /\ UNCHANGED <<service, marketOpen, wasOpen, news, change, closing, readable, account>>

CheckAccount ==
  /\ service = "account"
  /\ \E lost \in SUBSET Due : Tell(Due, lost)
  /\ UNCHANGED <<service, marketOpen, wasOpen, news, change, closing, readable, account>>

(* The watchlist, the positions, the candles or their ATR cannot be had:   *)
(* the check ends there, the session has been looked at before.            *)
CheckFails ==
  /\ service # "account" /\ marketOpen
  /\ alertFaults < MaxAlertFaults /\ alertFaults' = alertFaults + 1
  /\ sinceAlert' = Aged(sinceAlert) /\ sinceSent' = Aged(sinceSent) /\ told' = {}
  /\ IF service = "price" THEN CheckMarketStatus(FALSE) ELSE UNCHANGED <<wasOpen, news>>
  /\ UNCHANGED <<service, marketOpen, change, closing, readable, account>>

AlertCheck == CheckPrices \/ CheckPricesNewsLost \/ CheckPositions \/ CheckAccount
              \/ CheckFails

(* The world.                                                              *)
SessionChanges ==
  /\ service # "account"
  /\ marketOpen' = ~marketOpen
  /\ UNCHANGED <<service, wasOpen, news, change, closing, readable, account, sinceAlert,
                 sinceSent, told, alertFaults>>

QuoteArrives ==
  /\ service = "price"
  /\ change' \in Changes
  /\ UNCHANGED <<service, marketOpen, wasOpen, news, closing, readable, account, sinceAlert,
                 sinceSent, told, alertFaults>>

CandleArrives ==
  /\ service = "stop"
  /\ closing' \in [price : WatchedPrices, atr : WatchedATRs]
  /\ UNCHANGED <<service, marketOpen, wasOpen, news, change, readable, account, sinceAlert,
                 sinceSent, told, alertFaults>>

(* A row without entries is created or closed: see PositionLedger; the     *)
(* broker's answer has fewer candles than before, or enough again.         *)
TableChanges ==
  /\ service = "stop"
  /\ readable' = ~readable
  /\ UNCHANGED <<service, marketOpen, wasOpen, news, change, closing, account, sinceAlert,
                 sinceSent, told, alertFaults>>

AccountChanges ==
  /\ service = "account"
  /\ account' \in Accounts
  /\ UNCHANGED <<service, marketOpen, wasOpen, news, change, closing, readable, sinceAlert,
                 sinceSent, told, alertFaults>>

AlertInit ==
  /\ service \in Services
  /\ marketOpen \in BOOLEAN /\ wasOpen = marketOpen /\ news = "none"
  /\ change = NoQuote
  /\ closing \in [price : {WatchedEntry}, atr : WatchedATRs]
  /\ readable = TRUE
  /\ account \in Accounts
  /\ sinceAlert = [k \in AlertKeys |-> Cooldown]
  /\ sinceSent = [k \in AlertKeys |-> Cooldown]
  /\ told = {} /\ alertFaults = 0

AlertNext ==
  \/ AlertCheck
  \/ SessionChanges \/ QuoteArrives \/ CandleArrives \/ TableChanges \/ AccountChanges

(* A session lasts for hours and checks come every few minutes, so checks  *)
(* fall into sessions again and again.                                     *)
AlertFairness == SF_alertVars(AlertCheck /\ (marketOpen \/ service = "account"))

AlertSpec == AlertInit /\ [][AlertNext]_alertVars
FairAlertSpec == AlertSpec /\ AlertFairness

-----------------------------------------------------------------------------
(* Properties.                                                             *)

AlertTypeOK ==
  /\ service \in Services /\ news \in {"none", "on", "off"}
  /\ sinceAlert \in [AlertKeys -> 0..Cooldown] /\ sinceSent \in [AlertKeys -> 0..Cooldown]
  /\ told \subseteq AlertKeys /\ alertFaults \in 0..MaxAlertFaults

(* Two alerts of one kind that reach the trader are a cooldown apart,      *)
(* whatever the other alerts of the service do in between.                 *)
AlertsSpaced ==
  [][AlertCheck => \A k \in told' : Aged(sinceSent)[k] >= Cooldown]_alertVars

(* What a service has a message for, and goes on, is told again and again, *)
(* although the cooldown is recorded before the message is sent, messages  *)
(* are lost, checks fail, and a reminder may be recorded without one.      *)
DueForGood(k) == k \in Told(Due) \/ (~marketOpen /\ service # "account")
AlertsDelivered ==
  \A k \in AlertKeys :
    (<>[](DueForGood(k)) /\ []<>(k \in Told(Due))) => []<>(k \in told)
=============================================================================
