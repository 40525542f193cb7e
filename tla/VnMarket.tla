------------------------------ MODULE VnMarket ------------------------------
(***************************************************************************)
(* The rules of the Vietnamese market that several components share        *)
(* (internal/vn): trading days, the T+2 settlement of a purchase, board    *)
(* lots and the worst case of locked shares.  Days are natural numbers,    *)
(* counted from a Monday; a clock counts half days.                        *)
(***************************************************************************)
EXTENDS Integers, FiniteSets

CONSTANTS
  Holidays,  \* market holidays that are not on a weekend
  Horizon    \* three trading days lie in any stretch of this many days

ASSUME HolidaysAssumption == Holidays \subseteq Nat
ASSUME HorizonAssumption == Horizon \in Nat \ {0}

Weekday(d) == d % 7          \* 0 is Monday, 6 is Sunday

(* The holiday tables for 2024 to 2026 and the estimates for later years. *)
IsVNHoliday(d) == d \in Holidays

IsTradingDay(d) == Weekday(d) \notin {5, 6} /\ ~IsVNHoliday(d)

TradingDaysIn(first, last) == {d \in first..last : IsTradingDay(d)}

(* The first day after d by which n trading days have passed. *)
TradingDayAfter(d, n) ==
  CHOOSE e \in (d + 1)..(d + Horizon) :
    IsTradingDay(e) /\ Cardinality(TradingDaysIn(d + 1, e)) = n

(* T+2, and the day shares can be sold: three trading days later. *)
CalculateSettlement(purchase) == TradingDayAfter(purchase, 2)
GetCanSellDate(purchase) == TradingDayAfter(purchase, 3)

(* Seeded fault: the last day is counted as well. *)
CountTradingDaysBetween_Inclusive(start, end) ==
  Cardinality(TradingDaysIn(start, end))

(* The first day counts, the last one does not. *)
CountTradingDaysBetween(start, end) ==
  Cardinality(TradingDaysIn(start, end - 1))

Locked == {"LOCKED_T0", "LOCKED_T1", "LOCKED_T2"}
SettlementStatus == Locked \cup {"LIQUID"}

CalculateSettlementStatusFromDates(purchase, today) ==
  LET n == CountTradingDaysBetween(purchase, today)
  IN  CASE n = 0 -> "LOCKED_T0"
        [] n = 1 -> "LOCKED_T1"
        [] n = 2 -> "LOCKED_T2"
        [] OTHER -> "LIQUID"

(* Percent of the size to buy: half on a Thursday or Friday. *)
GetEntryDayMultiplier(day) == IF Weekday(day) \in {3, 4} THEN 50 ELSE 100

Exchanges == {"HOSE", "HNX", "UPCOM"}
Unlisted == "none"           \* exchange IS NULL

(* Percent of locked capital lost when the price falls to the floor; a row *)
(* without an exchange counts as HOSE.                                     *)
GetLockedRiskMultiplierForExchange(exchange) ==
  CASE exchange = "HNX" -> 30 [] exchange = "UPCOM" -> 40 [] OTHER -> 20

RoundToLotSize(shares, lotSize) == (shares \div lotSize) * lotSize
=============================================================================
