----------------------------- MODULE Settlement -----------------------------
(***************************************************************************)
(* Settlement of the rows of positions: the columns of migration 000014,   *)
(* the daily job that moves a row from LOCKED_T0 to LIQUID                 *)
(* (internal/jobs/settlement_update.go, started by the tool                *)
(* cmd/tools/settlement-update), the budget for locked risk                *)
(* (internal/risk/locked_risk.go) and the check of a stop against the      *)
(* status of its row (service/position/stop_loss_validator.go).            *)
(*                                                                         *)
(* The job reads all rows once and then works on its copies, one UPDATE    *)
(* and one INSERT per row; meanwhile rows grow, shrink and close, calls    *)
(* fail and the process dies.  Prices are left out: capital is counted in  *)
(* shares.                                                                 *)
(***************************************************************************)
EXTENDS VnMarket, FiniteSetsExt

CONSTANTS
  Lots,           \* ids of rows
  Sizes,          \* shares of a purchase
  RiskBudget,     \* locked risk allowed, in percent of a share
  Listings,       \* exchanges of validated purchases
  FirstDay,       \* the day on which time starts
  LastPurchase,   \* bound: no purchase after this day
  LastDay,        \* bound: time stops here, on a day that stands for later ones
  MaxSettleFaults \* bound: failed statements and crashes

ASSUME LotsFinite == IsFiniteSet(Lots)
ASSUME SizesAssumption == Sizes \subseteq Nat \ {0}
ASSUME SettlementBounds ==
  {RiskBudget, FirstDay, LastPurchase, LastDay, MaxSettleFaults} \subseteq Nat
ASSUME ListingsAssumption == Listings \subseteq Exchanges
ASSUME SellDatesExist ==
  \A d \in FirstDay..LastPurchase : Cardinality(TradingDaysIn(d + 1, d + Horizon)) >= 3

VARIABLES
  today,        \* days since a Monday
  lots,         \* the rows
  agenda,       \* the rows the job has read and not handled yet
  runDay,       \* currentDate of the job
  updater,      \* where the job stands
  inHand,       \* the row whose snapshot is to be recorded
  tracked,      \* how long ago the latest settlement snapshot was created
  added,        \* history: rows that took shares after they were created
  bought,       \* history: the day of the latest purchase of each row
  freed,        \* history: rows the job has found free, and left right
  settleFaults  \* failures so far

job == <<agenda, runDay, updater, inHand>>
settleHistory == <<added, bought, freed>>
settlementVars == <<today, lots, job, tracked, settleHistory,
                    settleFaults>>

NoDay == -1
Never == "never"
NoLot == "none"

(* purchased and canSell are NULL, here NoDay, in rows of the bot.  dated: *)
(* the entry dates are set, without which a row cannot be scanned.         *)
Absent == [state |-> "absent", quantity |-> 0, status |-> "LIQUID",
           purchased |-> NoDay, canSell |-> NoDay, exchange |-> Unlisted,
           locked |-> 0, liquid |-> 0, dated |-> FALSE]

OpenLots == {l \in Lots : lots[l].state = "open"}
IsLocked(row) == row.status \in Locked

SettleFault == settleFaults < MaxSettleFaults /\ settleFaults' = settleFaults + 1

SettlementInit ==
  /\ today = FirstDay
  /\ lots = [l \in Lots |-> Absent]
  /\ agenda = <<>> /\ runDay = NoDay /\ updater = "idle" /\ inHand = NoLot
  /\ tracked = Never
  /\ added = {} /\ bought = [l \in Lots |-> NoDay] /\ freed = {}
  /\ settleFaults = 0

-----------------------------------------------------------------------------
(* The budget for locked risk, in percent of a share.                      *)

LockedRiskOf(row) ==
  row.locked * GetLockedRiskMultiplierForExchange(row.exchange)

GetTotalLockedRisk ==
  MapThenSumSet(LAMBDA l : LockedRiskOf(lots[l]),
                {l \in OpenLots : IsLocked(lots[l])})

CanAffordLockedRisk(shares, exchange) ==
  GetTotalLockedRisk + shares * GetLockedRiskMultiplierForExchange(exchange)
    <= RiskBudget

(* ValidateSignal: the size approved, halved on a Thursday or Friday; 0 is *)
(* a rejection.  GetExchangeFromTicker takes every symbol for one of HOSE. *)
ValidateSignal(shares, lotSize) ==
  IF ~CanAffordLockedRisk(shares, "HOSE") THEN 0
  ELSE IF GetEntryDayMultiplier(today) = 100 THEN shares
  ELSE RoundToLotSize((shares * GetEntryDayMultiplier(today)) \div 100, lotSize)

-----------------------------------------------------------------------------
(* Rows come, grow, shrink and close.                                      *)

(* Create leaves the settlement columns to their defaults: LIQUID, NULL.   *)
Create(l, n) ==
  /\ lots[l].state = "absent" /\ today <= LastPurchase
  /\ lots' = [lots EXCEPT ![l] = [Absent EXCEPT !.state = "open", !.quantity = n]]
  /\ bought' = [bought EXCEPT ![l] = today]
  /\ UNCHANGED <<today, job, tracked, added, freed, settleFaults>>

(* A signal is validated, and its shares are bought and recorded.          *)
CreatePositionWithSettlement(l, n, exchange) ==
  LET size == ValidateSignal(n, 1)
  IN  /\ lots[l].state = "absent" /\ today <= LastPurchase
      /\ size > 0
      /\ lots' = [lots EXCEPT ![l] =
           [state |-> "open", quantity |-> size,
            status |-> CalculateSettlementStatusFromDates(today, today),
            purchased |-> today, canSell |-> GetCanSellDate(today),
            exchange |-> exchange, locked |-> size, liquid |-> 0, dated |-> FALSE]]
      /\ bought' = [bought EXCEPT ![l] = today]
      /\ UNCHANGED <<today, job, tracked, added, freed, settleFaults>>

(* The first entry dates the row; a later one adds shares and leaves the   *)
(* settlement columns alone.                                               *)
AddEntry(l, n) ==
  /\ l \in OpenLots
  /\ IF lots[l].dated
     THEN /\ l \notin added /\ today <= LastPurchase
          /\ lots' = [lots EXCEPT ![l].quantity = @ + n]
          /\ added' = added \cup {l}
          /\ bought' = [bought EXCEPT ![l] = today]
     ELSE lots' = [lots EXCEPT ![l].dated = TRUE] /\ UNCHANGED <<added, bought>>
  /\ UNCHANGED <<today, job, tracked, freed, settleFaults>>

(* Exits look at the quantity only; the last share closes the row.         *)
Sell(l, n) ==
  /\ l \in OpenLots /\ n <= lots[l].quantity
  /\ lots' = [lots EXCEPT ![l].quantity = @ - n,
                          ![l].state = IF n = lots[l].quantity THEN "closed" ELSE @]
  /\ UNCHANGED <<today, job, tracked, settleHistory, settleFaults>>

-----------------------------------------------------------------------------
(* The job.                                                                *)

(* Seeded fault: the tool only ever runs once.                             *)
ShouldRunUpdate_Once == tracked = Never

(* More than 23 hours since the last snapshot.  Before the first one, MAX  *)
(* is NULL, cannot be scanned into a time.Time, and the tool ends with an  *)
(* error.                                                                  *)
ShouldRunUpdate ==
  /\ tracked # Never
  /\ tracked = "earlier" \/ today = LastDay

StartUpdate(force) ==
  /\ updater = "idle"
  /\ force \/ ShouldRunUpdate
  /\ agenda' = [l \in {k \in OpenLots : lots[k].dated} |-> lots[l]]
  /\ runDay' = today
  /\ updater' = "loop"
  /\ UNCHANGED <<today, lots, inHand, tracked, settleHistory,
                 settleFaults>>

(* Seeded fault: the clock of the job is a day ahead of the exchange.       *)
NewStatus_Ahead(l) ==
  CalculateSettlementStatusFromDates(agenda[l].purchased, runDay + 1)

NewStatus(l) == CalculateSettlementStatusFromDates(agenda[l].purchased, runDay)

Handled(l) == agenda' = [k \in DOMAIN agenda \ {l} |-> agenda[k]]

(* A row without purchase date, or with the right status, is passed over.  *)
SkipRow(l) ==
  /\ updater = "loop" /\ l \in DOMAIN agenda
  /\ agenda[l].purchased = NoDay \/ NewStatus(l) = agenda[l].status
  /\ Handled(l)
  /\ freed' = IF agenda[l].purchased # NoDay /\ NewStatus(l) = "LIQUID"
              THEN freed \cup {l} ELSE freed
  /\ UNCHANGED <<today, lots, runDay, updater, inHand, tracked,
                 added, bought, settleFaults>>

(* Seeded fault: the capital of a locked row is booked as liquid.          *)
UpdateSettlementStatus_Swapped(row, status, quantity) ==
  [row EXCEPT !.status = status, !.locked = 0, !.liquid = quantity]

(* Seeded fault: the UPDATE leaves out a status it does not know as locked. *)
UpdateSettlementStatus_CapitalOnly(row, status, quantity) ==
  [row EXCEPT !.locked = IF status \in Locked THEN quantity ELSE 0,
              !.liquid = IF status \in Locked THEN 0 ELSE quantity]

UpdateSettlementStatus(row, status, quantity) ==
  [row EXCEPT !.status = status,
              !.locked = IF status \in Locked THEN quantity ELSE 0,
              !.liquid = IF status \in Locked THEN 0 ELSE quantity]

(* The UPDATE by id, with the quantity the job has read.                   *)
UpdateRow(l) ==
  /\ updater = "loop" /\ l \in DOMAIN agenda
  /\ agenda[l].purchased # NoDay /\ NewStatus(l) # agenda[l].status
  /\ lots' = [lots EXCEPT ![l] =
                UpdateSettlementStatus(@, NewStatus(l), agenda[l].quantity)]
  /\ freed' = IF NewStatus(l) = "LIQUID" THEN freed \cup {l} ELSE freed
  /\ updater' = "tracking" /\ inHand' = l
  /\ UNCHANGED <<today, agenda, runDay, tracked, added, bought,
                 settleFaults>>

(* The UPDATE fails: logged, and on to the next row.                       *)
UpdateRowFails(l) ==
  /\ updater = "loop" /\ l \in DOMAIN agenda
  /\ agenda[l].purchased # NoDay /\ NewStatus(l) # agenda[l].status
  /\ SettleFault
  /\ Handled(l)
  /\ UNCHANGED <<today, lots, runDay, updater, inHand, tracked,
                 settleHistory>>

(* The snapshot of the row.                                                *)
RecordSettlementTracking ==
  /\ updater = "tracking"
  /\ tracked' = "today"
  /\ Handled(inHand) /\ updater' = "loop" /\ inHand' = NoLot
  /\ UNCHANGED <<today, lots, runDay, settleHistory, settleFaults>>

RecordSettlementTrackingFails ==
  /\ updater = "tracking"
  /\ SettleFault
  /\ Handled(inHand) /\ updater' = "loop" /\ inHand' = NoLot
  /\ UNCHANGED <<today, lots, runDay, tracked, settleHistory>>

FinishUpdate ==
  /\ updater = "loop" /\ DOMAIN agenda = {}
  /\ agenda' = <<>> /\ runDay' = NoDay /\ updater' = "idle" /\ inHand' = NoLot
  /\ UNCHANGED <<today, lots, tracked, settleHistory, settleFaults>>

CrashUpdate ==
  /\ updater # "idle"
  /\ SettleFault
  /\ agenda' = <<>> /\ runDay' = NoDay /\ updater' = "idle" /\ inHand' = NoLot
  /\ UNCHANGED <<today, lots, tracked, settleHistory>>

-----------------------------------------------------------------------------
(* A stop that is reached is executed, or held back and recorded as a      *)
(* theoretical breach.                                                     *)
CanExecuteStopLoss(row) == ~IsLocked(row)

Tick ==
  /\ today < LastDay
  /\ today' = today + 1
  /\ tracked' = IF tracked = Never THEN Never ELSE "earlier"
  /\ UNCHANGED <<lots, job, settleHistory, settleFaults>>

UpdaterStep ==
  \/ \E l \in DOMAIN agenda : SkipRow(l) \/ UpdateRow(l)
  \/ RecordSettlementTracking
  \/ FinishUpdate

SettlementNext ==
  \/ Tick
  \/ \E l \in Lots, n \in Sizes : Create(l, n) \/ AddEntry(l, n) \/ Sell(l, n)
  \/ \E l \in Lots, n \in Sizes, x \in Listings : CreatePositionWithSettlement(l, n, x)
  \/ \E force \in BOOLEAN : StartUpdate(force)
  \/ UpdaterStep
  \/ \E l \in DOMAIN agenda : UpdateRowFails(l)
  \/ RecordSettlementTrackingFails
  \/ CrashUpdate

SettlementSpec == SettlementInit /\ [][SettlementNext]_settlementVars

(* The tool is started every day without -force, and a run that is alive   *)
(* takes its next step.                                                    *)
SettlementFairness ==
  WF_settlementVars(Tick) /\ WF_settlementVars(UpdaterStep)
  /\ WF_settlementVars(StartUpdate(FALSE))

FairSettlementSpec == SettlementSpec /\ SettlementFairness

-----------------------------------------------------------------------------
(* Properties.                                                             *)

SettlementTypeOK ==
  /\ today \in Nat
  /\ lots \in [Lots -> [state : {"absent", "open", "closed"}, quantity : Nat,
                        status : SettlementStatus, purchased : Nat \cup {NoDay},
                        canSell : Int, exchange : Exchanges \cup {Unlisted},
                        locked : Nat, liquid : Nat, dated : BOOLEAN]]
  /\ updater \in {"idle", "loop", "tracking"}
  /\ runDay \in Nat \cup {NoDay}

(* A row bought through the settlement columns, and not added to since,    *)
(* shows LIQUID only when three trading days have begun since its latest   *)
(* purchase: no step of the job, whatever it read and whenever it died,    *)
(* lets its shares be sold too early.                                      *)
NeverFreeTooEarly ==
  \A l \in OpenLots \ added :
    lots[l].purchased # NoDay /\ lots[l].status = "LIQUID"
      => CountTradingDaysBetween(bought[l], today) >= 3

(* The same for every row, added to or not: migration 000014 says of       *)
(* purchase_date "Date of most recent purchase (used for settlement        *)
(* calculation)".  AddEntry leaves that date, and the status, as they are. *)
SettledFromMostRecent ==
  \A l \in OpenLots :
    lots[l].purchased # NoDay /\ lots[l].status = "LIQUID"
      => CountTradingDaysBetween(bought[l], today) >= 3

(* A stop is held back although the shares are free only if the job has    *)
(* not once got the row right since they became free: failures of the job  *)
(* and missed days are the only excuse (settlement_update.go).             *)
LockedTooLongIsMissed ==
  \A l \in OpenLots :
    LET row == lots[l]
    IN  ~CanExecuteStopLoss(row) /\ CalculateSettlementStatusFromDates(row.purchased, today) = "LIQUID"
          => l \notin freed

(* The date a buyer is told (GetCanSellDate) and the status the job writes *)
(* are computed separately, one by walking forward and one by counting; on *)
(* trading days they agree.  (A weekend before the date already counts as  *)
(* LIQUID, and a purchase on a day off lags by one.)                       *)
SellDateIsLiquidDate ==
  \A l \in OpenLots :
    LET row == lots[l]
    IN  row.purchased # NoDay /\ IsTradingDay(row.purchased)
                 /\ IsTradingDay(today)
          => (today >= row.canSell <=>
                CalculateSettlementStatusFromDates(row.purchased, today) = "LIQUID")

(* The locked risk that the budget adds up covers all shares of a locked   *)
(* row, sales and stale copies notwithstanding, as long as no entry was    *)
(* added; a liquid row takes nothing of the budget.                        *)
LockedRiskCovered ==
  \A l \in OpenLots \ added :
    LET row == lots[l]
    IN  row.purchased # NoDay =>
          /\ IsLocked(row) => row.locked >= row.quantity
          /\ ~IsLocked(row) => row.locked = 0

(* With the tool started every day, rows become LIQUID in the end, missed  *)
(* days, failures and crashes notwithstanding, once a first snapshot is in *)
(* the table.                                                              *)
LotsBecomeLiquid ==
  \A l \in Lots :
    (tracked # Never /\ l \in OpenLots /\ lots[l].dated)
      ~> (lots[l].status = "LIQUID" \/ l \notin OpenLots)
=============================================================================
