-------------------------- MODULE SettlementProofs --------------------------
(***************************************************************************)
(* Proofs about Settlement, for any rows, sizes, holidays and days.        *)
(***************************************************************************)
EXTENDS Settlement, FiniteSetTheorems, WellFoundedInduction, TLAPS

-----------------------------------------------------------------------------
(* Counting trading days.                                                  *)
LEMMA DatesFinite ==
  ASSUME NEW a \in Int, NEW b \in Int
  PROVE  IsFiniteSet(TradingDaysIn(a, b)) /\ Cardinality(TradingDaysIn(a, b)) \in Nat
<1>1. IsFiniteSet(a..b)
  BY FS_Interval
<1>2. TradingDaysIn(a, b) \in SUBSET (a..b)
  BY DEF TradingDaysIn
<1>3. IsFiniteSet(TradingDaysIn(a, b))
  BY <1>1, <1>2, FS_Subset
<1>4. QED
  BY <1>3, FS_CardinalityType

(* A longer stretch has no fewer of them.                                  *)
LEMMA DaysGrow ==
  ASSUME NEW a \in Int, NEW b \in Int, NEW c \in Int, b <= c
  PROVE  Cardinality(TradingDaysIn(a, b)) <= Cardinality(TradingDaysIn(a, c))
<1>1. TradingDaysIn(a, b) \in SUBSET TradingDaysIn(a, c)
  BY DEF TradingDaysIn
<1>2. QED
  BY <1>1, DatesFinite, FS_Subset

(* The last day of a stretch counts if it is a trading day.                *)
LEMMA LastDayCounts ==
  ASSUME NEW a \in Int, NEW b \in Int, a <= b
  PROVE  Cardinality(TradingDaysIn(a, b)) =
           Cardinality(TradingDaysIn(a, b - 1)) + (IF IsTradingDay(b) THEN 1 ELSE 0)
<1>1. b \notin TradingDaysIn(a, b - 1)
  BY DEF TradingDaysIn
<1>2. CASE IsTradingDay(b)
  <2>1. TradingDaysIn(a, b) = TradingDaysIn(a, b - 1) \cup {b}
    BY <1>2 DEF TradingDaysIn
  <2>2. IsFiniteSet(TradingDaysIn(a, b - 1))
    BY DatesFinite
  <2>3. Cardinality(TradingDaysIn(a, b)) = Cardinality(TradingDaysIn(a, b - 1)) + 1
    BY <1>1, <2>1, <2>2, FS_AddElement
  <2>4. QED
    BY <1>2, <2>3
<1>3. CASE ~IsTradingDay(b)
  <2>1. TradingDaysIn(a, b) = TradingDaysIn(a, b - 1)
    BY <1>3 DEF TradingDaysIn
  <2>2. Cardinality(TradingDaysIn(a, b - 1)) \in Nat
    BY DatesFinite
  <2>3. QED
    BY <1>3, <2>1, <2>2
<1>4. QED
  BY <1>2, <1>3

(* So does the first one.                                                  *)
LEMMA FirstDayCounts ==
  ASSUME NEW a \in Int, NEW b \in Int, a <= b, IsTradingDay(a)
  PROVE  Cardinality(TradingDaysIn(a, b)) = Cardinality(TradingDaysIn(a + 1, b)) + 1
<1>1. a \notin TradingDaysIn(a + 1, b) /\ TradingDaysIn(a, b) = TradingDaysIn(a + 1, b) \cup {a}
  BY DEF TradingDaysIn
<1>2. IsFiniteSet(TradingDaysIn(a + 1, b))
  BY DatesFinite
<1>3. QED
  BY <1>1, <1>2, FS_AddElement

LEMMA NoDays ==
  ASSUME NEW a \in Int, NEW b \in Int, b < a
  PROVE  TradingDaysIn(a, b) = {} /\ Cardinality(TradingDaysIn(a, b)) = 0
<1>1. TradingDaysIn(a, b) = {}
  BY DEF TradingDaysIn
<1>2. QED
  BY <1>1, FS_EmptySet

LEMMA LeastDay ==
  ASSUME NEW T \in SUBSET Nat, T # {}
  PROVE  \E x \in T : \A y \in T : x <= y
<1>1. \E x \in T : \A y \in T : ~(<<y, x>> \in OpToRel(<, Nat))
  BY NatLessThanWellFounded, WFMin
<1>2. PICK x \in T : \A y \in T : ~(<<y, x>> \in OpToRel(<, Nat))
  BY <1>1
<1>3. \A y \in T : ~(y < x)
  BY <1>2 DEF OpToRel
<1>4. QED
  BY <1>3

-----------------------------------------------------------------------------
(* The date shares can be sold is a trading day, the third after the       *)
(* purchase: the walk of GetCanSellDate ends.                              *)
LEMMA CanSellDate ==
  ASSUME NEW d \in Nat, Cardinality(TradingDaysIn(d + 1, d + Horizon)) >= 3
  PROVE  /\ GetCanSellDate(d) \in Int /\ GetCanSellDate(d) > d
         /\ IsTradingDay(GetCanSellDate(d))
         /\ Cardinality(TradingDaysIn(d + 1, GetCanSellDate(d))) = 3
<1> DEFINE n(e) == Cardinality(TradingDaysIn(d + 1, e))
           T == {e \in (d + 1)..(d + Horizon) : n(e) >= 3}
<1>1. d + Horizon \in T /\ T \in SUBSET Nat
  BY HorizonAssumption
<1>2. PICK e \in T : \A y \in T : e <= y
  <2> HIDE DEF T
  <2> QED  BY <1>1, LeastDay
<1>3. e \in (d + 1)..(d + Horizon) /\ n(e) >= 3
  BY <1>2
<1>4. n(e) = n(e - 1) + (IF IsTradingDay(e) THEN 1 ELSE 0)
  BY <1>3, HorizonAssumption, LastDayCounts
<1>5. n(e - 1) \in Nat
  <2>1. d + 1 \in Int /\ e - 1 \in Int
    BY <1>3, HorizonAssumption
  <2>2. QED
    BY <2>1, DatesFinite
<1>6. n(e - 1) <= 2
  <2>1. CASE e = d + 1
    BY <2>1, NoDays
  <2>2. CASE e # d + 1
    <3>1. e - 1 \in (d + 1)..(d + Horizon) /\ e - 1 < e
      BY <1>3, <2>2, HorizonAssumption
    <3>2. e - 1 \notin T
      BY <1>2, <3>1
    <3> QED  BY <1>5, <3>1, <3>2
  <2> QED  BY <2>1, <2>2
<1>7. n(e) = 3 /\ IsTradingDay(e)
  <2> HIDE DEF n
  <2> QED  BY <1>3, <1>4, <1>5, <1>6
<1>8. GetCanSellDate(d) = CHOOSE x \in (d + 1)..(d + Horizon) : IsTradingDay(x) /\ n(x) = 3
  BY Zenon DEF GetCanSellDate, TradingDayAfter
<1>9. /\ GetCanSellDate(d) \in (d + 1)..(d + Horizon)
      /\ IsTradingDay(GetCanSellDate(d)) /\ n(GetCanSellDate(d)) = 3
  <2> HIDE DEF n
  <2> QED  BY <1>3, <1>7, <1>8
<1>10. QED
  BY <1>9, HorizonAssumption

-----------------------------------------------------------------------------
(* The status of a row that was purchased.                                 *)
LEMMA StatusByCount ==
  ASSUME NEW p \in Nat, NEW t \in Int
  PROVE  /\ CountTradingDaysBetween(p, t) \in Nat
         /\ CalculateSettlementStatusFromDates(p, t) \in SettlementStatus
         /\ CalculateSettlementStatusFromDates(p, t) \in Locked
              <=> CalculateSettlementStatusFromDates(p, t) # "LIQUID"
         /\ CalculateSettlementStatusFromDates(p, t) = "LIQUID"
              <=> CountTradingDaysBetween(p, t) >= 3
<1> DEFINE n == CountTradingDaysBetween(p, t)
<1>1. n \in Nat
  BY DatesFinite DEF CountTradingDaysBetween
<1>2. CalculateSettlementStatusFromDates(p, t) =
        CASE n = 0 -> "LOCKED_T0" [] n = 1 -> "LOCKED_T1" [] n = 2 -> "LOCKED_T2"
          [] OTHER -> "LIQUID"
  BY DEF CalculateSettlementStatusFromDates
<1> HIDE DEF n
<1>3. QED
  BY <1>1, <1>2 DEF SettlementStatus, Locked, n

(* Time only takes a row towards LIQUID.                                   *)
LEMMA CountGrows ==
  ASSUME NEW p \in Nat, NEW s \in Int, NEW t \in Int, s <= t
  PROVE  CountTradingDaysBetween(p, s) <= CountTradingDaysBetween(p, t)
BY DaysGrow DEF CountTradingDaysBetween

(* On trading days the status is LIQUID from the date on a buyer is told.  *)
LEMMA LiquidFromSellDate ==
  ASSUME NEW p \in Nat, NEW t \in Nat, p <= t, IsTradingDay(p), IsTradingDay(t),
         Cardinality(TradingDaysIn(p + 1, p + Horizon)) >= 3
  PROVE  t >= GetCanSellDate(p) <=> CountTradingDaysBetween(p, t) >= 3
<1> DEFINE n(e) == Cardinality(TradingDaysIn(p + 1, e))
           e == GetCanSellDate(p)
<1>1. e \in Int /\ e > p /\ IsTradingDay(e) /\ n(e) = 3
  BY CanSellDate
<1>2. CASE t = p
  BY <1>1, <1>2, NoDays DEF CountTradingDaysBetween
<1>3. CASE t > p
  <2>1. CountTradingDaysBetween(p, t) = n(t - 1) + 1
    BY <1>3, FirstDayCounts DEF CountTradingDaysBetween
  <2>2. n(t) = n(t - 1) + 1 /\ n(t - 1) \in Nat
    BY <1>3, LastDayCounts, DatesFinite
  <2>3. n(e) = n(e - 1) + 1 /\ n(e - 1) \in Nat
    <3> HIDE DEF e
    <3>1. p + 1 \in Int /\ e - 1 \in Int /\ p + 1 <= e
      BY <1>1
    <3>2. n(e) = n(e - 1) + (IF IsTradingDay(e) THEN 1 ELSE 0)
      BY <1>1, <3>1, LastDayCounts
    <3>3. n(e - 1) \in Nat
      BY <3>1, DatesFinite
    <3>4. QED
      BY <1>1, <3>2, <3>3
  <2>4. t >= e => n(e) <= n(t)
    BY <1>1, DaysGrow
  <2>5. t < e => n(t) <= n(e - 1)
    BY <1>1, DaysGrow
  <2> HIDE DEF n
  <2>6. n(e - 1) = 2 /\ CountTradingDaysBetween(p, t) = n(t) /\ n(t) \in Nat
    BY <1>1, <2>1, <2>2, <2>3
  <2>7. t >= e => n(t) >= 3
    BY <1>1, <2>4, <2>6
  <2>8. t < e => ~(n(t) >= 3)
    BY <2>5, <2>6
  <2>9. QED
    BY <1>1, <2>6, <2>7, <2>8
<1>4. QED
  BY <1>2, <1>3

-----------------------------------------------------------------------------
(* The inductive invariant.                                                *)
Row == [state : {"absent", "open", "closed"}, quantity : Nat, status : SettlementStatus,
        purchased : Nat \cup {NoDay}, canSell : Int, exchange : Exchanges \cup {Unlisted},
        locked : Nat, liquid : Nat, dated : BOOLEAN]

SettlementTypes ==
  /\ today \in Nat /\ FirstDay <= today
  /\ lots \in [Lots -> Row]
  /\ updater \in {"idle", "loop", "tracking"}
  /\ runDay \in Nat \cup {NoDay}
  /\ updater # "idle" => runDay \in Nat /\ runDay <= today
  /\ DOMAIN agenda \subseteq Lots /\ \A l \in DOMAIN agenda : agenda[l] \in Row
  /\ updater = "idle" => DOMAIN agenda = {}
  /\ added \subseteq Lots /\ freed \subseteq Lots

Exists(l) == lots[l].state # "absent"
Bought(l) == Exists(l) /\ lots[l].purchased # NoDay

(* A purchase was made on a day up to today, and its row is LIQUID no      *)
(* sooner than the count allows.                                           *)
BoughtInTime ==
  \A l \in Lots :
    Bought(l) =>
      /\ lots[l].purchased \in FirstDay..LastPurchase /\ lots[l].purchased <= today
      /\ lots[l].canSell = GetCanSellDate(lots[l].purchased)
      /\ lots[l].status = "LIQUID" => CountTradingDaysBetween(lots[l].purchased, today) >= 3

(* What the job has freed stays free.                                      *)
FreedIsLiquid == \A l \in freed : Exists(l) /\ lots[l].status = "LIQUID"

Covered ==
  \A l \in Lots \ added :
    Bought(l) => /\ lots[l].status \in Locked => lots[l].locked >= lots[l].quantity
                 /\ lots[l].status \notin Locked => lots[l].locked = 0

(* The copies of the job: the dates are those of the rows, the quantities  *)
(* no smaller unless shares were added, the statuses current except for    *)
(* the row in hand; and a row that is LIQUID is so on the day of the job.  *)
CopiesHold ==
  \A l \in DOMAIN agenda :
    /\ Exists(l) /\ agenda[l].purchased = lots[l].purchased
    /\ l \notin added => agenda[l].quantity >= lots[l].quantity
    /\ (updater = "tracking" /\ l = inHand) \/ agenda[l].status = lots[l].status
    /\ Bought(l) /\ lots[l].status = "LIQUID"
         => CountTradingDaysBetween(lots[l].purchased, runDay) >= 3

SettlementInv == SettlementTypes /\ BoughtInTime /\ FreedIsLiquid /\ Covered /\ CopiesHold

-----------------------------------------------------------------------------
LEMMA InitSettlement == SettlementInit => SettlementInv
<1> SUFFICES ASSUME SettlementInit PROVE SettlementInv
  OBVIOUS
<1>1. Absent \in Row
  BY DEF Absent, Row, SettlementStatus, NoDay, Unlisted
<1>2. SettlementTypes
  <2>1. DOMAIN agenda = {}
    BY DEF SettlementInit
  <2>2. QED
    BY <1>1, <2>1, SettlementBounds DEF SettlementInit, SettlementTypes
<1>3. \A l \in Lots : ~Exists(l)
  BY DEF SettlementInit, Absent, Exists
<1>4. BoughtInTime /\ Covered /\ FreedIsLiquid
  BY <1>3 DEF BoughtInTime, Covered, FreedIsLiquid, Bought, SettlementInit
<1>5. CopiesHold
  BY DEF SettlementInit, CopiesHold
<1>6. QED
  BY <1>2, <1>4, <1>5 DEF SettlementInv

(* The rows when one of them is written.                                   *)
LEMMA OneRow ==
  ASSUME lots \in [Lots -> Row], NEW l \in Lots, NEW r \in Row,
         lots' = [lots EXCEPT ![l] = r]
  PROVE  /\ lots' \in [Lots -> Row] /\ lots'[l] = r
         /\ \A k \in Lots : k # l => lots'[k] = lots[k]
OBVIOUS

LEMMA LotFields ==
  ASSUME NEW r \in Row
  PROVE  /\ r.state \in {"absent", "open", "closed"} /\ r.quantity \in Nat
         /\ r.status \in SettlementStatus /\ r.purchased \in Nat \cup {NoDay}
         /\ r.locked \in Nat /\ r.dated \in BOOLEAN
BY DEF Row

(* A row none of whose copies is at hand is written: the copies stay true. *)
LEMMA CopiesOfOthers ==
  ASSUME SettlementInv, NEW l \in Lots, l \notin DOMAIN agenda,
         \A k \in Lots : k # l => lots'[k] = lots[k],
         UNCHANGED <<agenda, runDay, updater, inHand, added>>
  PROVE  CopiesHold'
BY DEF SettlementInv, SettlementTypes, CopiesHold, Exists, Bought

(* The job drops rows from its copies.                                     *)
LEMMA CopiesDropped ==
  ASSUME SettlementInv, DOMAIN agenda' \subseteq DOMAIN agenda,
         \A l \in DOMAIN agenda' : agenda'[l] = agenda[l],
         \A l \in DOMAIN agenda' : ~(updater = "tracking" /\ l = inHand),
         DOMAIN agenda' # {} => runDay' = runDay,
         UNCHANGED <<lots, added>>
  PROVE  CopiesHold'
BY DEF SettlementInv, SettlementTypes, CopiesHold, Exists, Bought

LEMMA HandledRows ==
  ASSUME NEW l, Handled(l)
  PROVE  /\ DOMAIN agenda' = DOMAIN agenda \ {l}
         /\ \A k \in DOMAIN agenda' : agenda'[k] = agenda[k]
BY DEF Handled

(* What the steps that write no row share.                                 *)
LEMMA LotsKept ==
  ASSUME SettlementInv, UNCHANGED <<today, lots, added>>,
         \A l \in freed' : l \in freed \/ (l \in Lots /\ Exists(l) /\ lots[l].status = "LIQUID")
  PROVE  BoughtInTime' /\ FreedIsLiquid' /\ Covered' /\ freed' \subseteq Lots
BY DEF SettlementInv, SettlementTypes, BoughtInTime, FreedIsLiquid, Covered, Exists, Bought

LEMMA ValidSize ==
  ASSUME NEW n \in Nat, today \in Nat
  PROVE  ValidateSignal(n, 1) \in Nat
<1>1. GetEntryDayMultiplier(today) \in {50, 100}
  BY DEF GetEntryDayMultiplier
<1>2. \A m \in Nat : RoundToLotSize(m, 1) \in Nat
  BY DEF RoundToLotSize
<1>3. (n * GetEntryDayMultiplier(today)) \div 100 \in Nat
  BY <1>1
<1>4. QED
  BY <1>2, <1>3 DEF ValidateSignal

-----------------------------------------------------------------------------
(* The rows' own steps.                                                    *)
LEMMA CreateInv ==
  ASSUME SettlementInv, NEW l \in Lots, NEW n \in Sizes, Create(l, n)
  PROVE  SettlementInv'
<1> DEFINE r == [Absent EXCEPT !.state = "open", !.quantity = n]
<1>1. /\ lots' = [lots EXCEPT ![l] = r] /\ lots[l].state = "absent"
      /\ UNCHANGED <<today, agenda, runDay, updater, inHand, added, freed>>
  BY DEF Create, job, settleHistory
<1>2. r \in Row /\ r.purchased = NoDay
  <2>1. Absent \in Row /\ Absent.purchased = NoDay
    BY DEF Absent, Row, SettlementStatus, NoDay, Unlisted
  <2>2. n \in Nat
    BY SizesAssumption
  <2>3. QED
    BY <2>1, <2>2 DEF Row
<1> HIDE DEF r
<1>3. /\ lots' \in [Lots -> Row] /\ lots'[l] = r
      /\ \A k \in Lots : k # l => lots'[k] = lots[k]
  BY <1>1, <1>2, OneRow DEF SettlementInv, SettlementTypes
<1>4. l \notin freed /\ l \notin DOMAIN agenda
  BY <1>1 DEF SettlementInv, FreedIsLiquid, CopiesHold, Exists
<1>5. SettlementTypes'
  BY <1>1, <1>3 DEF SettlementInv, SettlementTypes
<1>6. BoughtInTime'
  BY <1>1, <1>2, <1>3 DEF SettlementInv, BoughtInTime, Bought, Exists
<1>7. FreedIsLiquid'
  BY <1>1, <1>3, <1>4 DEF SettlementInv, SettlementTypes, FreedIsLiquid, Exists
<1>8. Covered'
  BY <1>1, <1>2, <1>3 DEF SettlementInv, Covered, Bought, Exists
<1>9. CopiesHold'
  BY <1>1, <1>3, <1>4, CopiesOfOthers
<1>10. QED
  BY <1>5, <1>6, <1>7, <1>8, <1>9 DEF SettlementInv

LEMMA CreateWithSettlementInv ==
  ASSUME SettlementInv, NEW l \in Lots, NEW n \in Sizes, NEW x \in Listings,
         CreatePositionWithSettlement(l, n, x)
  PROVE  SettlementInv'
<1> DEFINE size == ValidateSignal(n, 1)
           r == [state |-> "open", quantity |-> size,
                 status |-> CalculateSettlementStatusFromDates(today, today),
                 purchased |-> today, canSell |-> GetCanSellDate(today),
                 exchange |-> x, locked |-> size, liquid |-> 0, dated |-> FALSE]
<1>1. /\ lots' = [lots EXCEPT ![l] = r] /\ lots[l].state = "absent"
      /\ today \in Nat /\ FirstDay <= today /\ today <= LastPurchase
      /\ UNCHANGED <<today, agenda, runDay, updater, inHand, added, freed>>
  BY DEF CreatePositionWithSettlement, job, settleHistory, SettlementInv, SettlementTypes
<1>2. size \in Nat
  BY <1>1, SizesAssumption, ValidSize
<1>3. GetCanSellDate(today) \in Int /\ today \in FirstDay..LastPurchase
  <2>1. today \in FirstDay..LastPurchase
    BY <1>1, SettlementBounds
  <2>2. QED
    BY <1>1, <2>1, SellDatesExist, CanSellDate
<1>4. CalculateSettlementStatusFromDates(today, today) \in Locked
  <2>1. CountTradingDaysBetween(today, today) = 0
    BY <1>1, NoDays DEF CountTradingDaysBetween
  <2>2. QED
    BY <1>1, <2>1, StatusByCount
<1>5. x \in Exchanges \cup {Unlisted} /\ Locked \subseteq SettlementStatus
  BY ListingsAssumption DEF SettlementStatus
<1> HIDE DEF size
<1>6. r \in Row
  BY <1>1, <1>2, <1>3, <1>4, <1>5 DEF Row
<1>7. /\ r.purchased = today /\ r.canSell = GetCanSellDate(today) /\ r.status \in Locked
      /\ r.locked = r.quantity /\ r.quantity \in Nat
  BY <1>2, <1>4
<1> HIDE DEF r
<1>8. /\ lots' \in [Lots -> Row] /\ lots'[l] = r
      /\ \A k \in Lots : k # l => lots'[k] = lots[k]
  BY <1>1, <1>6, OneRow DEF SettlementInv, SettlementTypes
<1>9. l \notin freed /\ l \notin DOMAIN agenda
  BY <1>1 DEF SettlementInv, FreedIsLiquid, CopiesHold, Exists
<1>10. SettlementTypes'
  BY <1>1, <1>8 DEF SettlementInv, SettlementTypes
<1>11. BoughtInTime'
  <2>1. r.status # "LIQUID"
    BY <1>7 DEF Locked
  <2>2. QED
    BY <1>1, <1>3, <1>7, <1>8, <2>1 DEF SettlementInv, BoughtInTime, Bought, Exists
<1>12. FreedIsLiquid'
  BY <1>1, <1>8, <1>9 DEF SettlementInv, SettlementTypes, FreedIsLiquid, Exists
<1>13. Covered'
  BY <1>1, <1>7, <1>8 DEF SettlementInv, Covered, Bought, Exists
<1>14. CopiesHold'
  BY <1>1, <1>8, <1>9, CopiesOfOthers
<1>15. QED
  BY <1>10, <1>11, <1>12, <1>13, <1>14 DEF SettlementInv

(* A row keeps its dates and its status while its quantity shrinks, or     *)
(* grows with an entry that is noted, or its entry dates are set.          *)
LEMMA QuantityInv ==
  ASSUME SettlementInv, NEW l \in Lots, NEW r \in Row, lots[l].state = "open",
         lots' = [lots EXCEPT ![l] = r],
         r.state # "absent", r.purchased = lots[l].purchased, r.canSell = lots[l].canSell,
         r.status = lots[l].status, r.locked = lots[l].locked,
         r.quantity <= lots[l].quantity \/ l \in added',
         added' = added \/ added' = added \cup {l},
         UNCHANGED <<today, agenda, runDay, updater, inHand, freed>>
  PROVE  SettlementInv'
<1>1. /\ lots' \in [Lots -> Row] /\ lots'[l] = r
      /\ \A k \in Lots : k # l => lots'[k] = lots[k]
  BY OneRow DEF SettlementInv, SettlementTypes
<1>2. lots[l] \in Row
  BY DEF SettlementInv, SettlementTypes
<1>3. r.quantity \in Nat /\ lots[l].quantity \in Nat /\ lots[l].locked \in Nat
  BY <1>2, LotFields
<1>4. SettlementTypes'
  BY <1>1 DEF SettlementInv, SettlementTypes
<1>5. \A k \in Lots : /\ Exists(k)' <=> Exists(k)
                      /\ lots'[k].purchased = lots[k].purchased
                      /\ lots'[k].canSell = lots[k].canSell
                      /\ lots'[k].status = lots[k].status
  BY <1>1 DEF Exists
<1>6. BoughtInTime'
  BY <1>5 DEF SettlementInv, BoughtInTime, Bought
<1>7. FreedIsLiquid'
  BY <1>5 DEF SettlementInv, SettlementTypes, FreedIsLiquid
<1>8. Covered'
  <2> SUFFICES ASSUME NEW k \in Lots, k \notin added', Bought(k)'
               PROVE  /\ lots'[k].status \in Locked => lots'[k].locked >= lots'[k].quantity
                      /\ lots'[k].status \notin Locked => lots'[k].locked = 0
    BY DEF Covered
  <2>1. k \notin added /\ Bought(k)
    BY <1>5 DEF Bought
  <2>2. /\ lots[k].status \in Locked => lots[k].locked >= lots[k].quantity
        /\ lots[k].status \notin Locked => lots[k].locked = 0
    BY <2>1 DEF SettlementInv, Covered
  <2>3. QED
    BY <1>1, <1>3, <1>5, <2>2
<1>9. CopiesHold'
  <2> SUFFICES ASSUME NEW k \in DOMAIN agenda
               PROVE  /\ Exists(k)' /\ agenda[k].purchased = lots'[k].purchased
                      /\ k \notin added' => agenda[k].quantity >= lots'[k].quantity
                      /\ (updater = "tracking" /\ k = inHand) \/ agenda[k].status = lots'[k].status
                      /\ Bought(k)' /\ lots'[k].status = "LIQUID"
                           => CountTradingDaysBetween(lots'[k].purchased, runDay) >= 3
    BY DEF CopiesHold
  <2>1. k \in Lots /\ agenda[k] \in Row /\ lots[k] \in Row
    BY DEF SettlementInv, SettlementTypes
  <2>2. k \notin added' => agenda[k].quantity >= lots'[k].quantity
    <3>1. k \notin added' => agenda[k].quantity >= lots[k].quantity
      BY DEF SettlementInv, CopiesHold
    <3>2. agenda[k].quantity \in Nat /\ lots[k].quantity \in Nat
      BY <2>1, LotFields
    <3>3. QED
      BY <1>1, <1>3, <2>1, <3>1, <3>2
  <2>3. QED
    BY <1>5, <2>1, <2>2 DEF SettlementInv, CopiesHold, Bought
<1>10. QED
  BY <1>4, <1>6, <1>7, <1>8, <1>9 DEF SettlementInv

LEMMA AddEntryInv ==
  ASSUME SettlementInv, NEW l \in Lots, NEW n \in Sizes, AddEntry(l, n)
  PROVE  SettlementInv'
<1>1. /\ lots[l].state = "open" /\ lots[l] \in Row /\ n \in Nat
      /\ UNCHANGED <<today, agenda, runDay, updater, inHand, freed>>
  BY SizesAssumption DEF AddEntry, OpenLots, job, SettlementInv, SettlementTypes
<1>2. CASE lots[l].dated
  <2> DEFINE r == [lots[l] EXCEPT !.quantity = @ + n]
  <2>1. lots' = [lots EXCEPT ![l] = r] /\ added' = added \cup {l}
    BY <1>2 DEF AddEntry
  <2>2. r \in Row /\ r.state = "open" /\ r.purchased = lots[l].purchased
        /\ r.canSell = lots[l].canSell /\ r.status = lots[l].status /\ r.locked = lots[l].locked
    BY <1>1 DEF Row
  <2> HIDE DEF r
  <2>3. l \in added'
    BY <2>1
  <2>4. QED
    BY <1>1, <2>1, <2>2, <2>3, QuantityInv
<1>3. CASE ~lots[l].dated
  <2> DEFINE r == [lots[l] EXCEPT !.dated = TRUE]
  <2>1. lots' = [lots EXCEPT ![l] = r] /\ added' = added
    BY <1>3 DEF AddEntry
  <2>2. r \in Row /\ r.state = "open" /\ r.purchased = lots[l].purchased
        /\ r.canSell = lots[l].canSell /\ r.status = lots[l].status /\ r.locked = lots[l].locked
        /\ r.quantity = lots[l].quantity /\ lots[l].quantity \in Nat
    BY <1>1 DEF Row
  <2> HIDE DEF r
  <2>3. r.quantity <= lots[l].quantity
    BY <2>2
  <2>4. QED
    BY <1>1, <2>1, <2>2, <2>3, QuantityInv
<1>4. QED
  BY <1>2, <1>3

LEMMA SellInv ==
  ASSUME SettlementInv, NEW l \in Lots, NEW n \in Sizes, Sell(l, n)
  PROVE  SettlementInv'
<1> DEFINE s == IF n = lots[l].quantity THEN "closed" ELSE "open"
           r == [lots[l] EXCEPT !.quantity = @ - n, !.state = s]
<1>1. /\ lots[l].state = "open" /\ lots[l] \in Row /\ n \in Nat /\ n <= lots[l].quantity
      /\ lots' = [lots EXCEPT ![l] = r]
      /\ UNCHANGED <<today, agenda, runDay, updater, inHand, freed, added>>
  BY SizesAssumption DEF Sell, OpenLots, job, settleHistory, SettlementInv, SettlementTypes
<1>2. lots[l].quantity - n \in Nat /\ lots[l].quantity - n <= lots[l].quantity
  BY <1>1, LotFields
<1>3. s \in {"open", "closed"}
  OBVIOUS
<1> HIDE DEF s
<1>4. r \in Row /\ r.state = s /\ r.quantity = lots[l].quantity - n
      /\ r.purchased = lots[l].purchased /\ r.canSell = lots[l].canSell
      /\ r.status = lots[l].status /\ r.locked = lots[l].locked
  BY <1>1, <1>2, <1>3 DEF Row
<1> HIDE DEF r
<1>5. QED
  BY <1>1, <1>2, <1>3, <1>4, QuantityInv

-----------------------------------------------------------------------------
(* The job's steps.                                                        *)
LEMMA UpdateRowInv ==
  ASSUME SettlementInv, NEW l \in DOMAIN agenda, UpdateRow(l)
  PROVE  SettlementInv'
<1> DEFINE status == NewStatus(l)
           q == agenda[l].quantity
           r == UpdateSettlementStatus(lots[l], status, q)
           p == lots[l].purchased
<1>1. /\ updater = "loop" /\ agenda[l].purchased # NoDay /\ lots' = [lots EXCEPT ![l] = r]
      /\ freed' = IF status = "LIQUID" THEN freed \cup {l} ELSE freed
      /\ updater' = "tracking" /\ inHand' = l
      /\ UNCHANGED <<today, agenda, runDay, added>>
  BY DEF UpdateRow
<1>2. /\ l \in Lots /\ lots[l] \in Row /\ agenda[l] \in Row /\ runDay \in Nat /\ runDay <= today
      /\ today \in Nat
  BY <1>1 DEF SettlementInv, SettlementTypes
<1>3. /\ Exists(l) /\ agenda[l].purchased = p /\ p # NoDay /\ Bought(l)
      /\ l \notin added => q >= lots[l].quantity
      /\ lots[l].status = "LIQUID" => CountTradingDaysBetween(p, runDay) >= 3
  BY <1>1 DEF SettlementInv, CopiesHold, Bought
<1>4. p \in Nat /\ q \in Nat /\ lots[l].quantity \in Nat
  BY <1>2, <1>3, LotFields
<1>5. /\ status \in SettlementStatus /\ (status \in Locked <=> status # "LIQUID")
      /\ status = "LIQUID" <=> CountTradingDaysBetween(p, runDay) >= 3
  <2>1. status = CalculateSettlementStatusFromDates(p, runDay)
    BY <1>3 DEF NewStatus
  <2>2. runDay \in Int
    BY <1>2
  <2> HIDE DEF p
  <2>3. /\ CalculateSettlementStatusFromDates(p, runDay) \in SettlementStatus
        /\ CalculateSettlementStatusFromDates(p, runDay) \in Locked
             <=> CalculateSettlementStatusFromDates(p, runDay) # "LIQUID"
        /\ CalculateSettlementStatusFromDates(p, runDay) = "LIQUID"
             <=> CountTradingDaysBetween(p, runDay) >= 3
    BY <1>4, <2>2, StatusByCount
  <2> HIDE DEF status
  <2>4. QED
    BY <2>1, <2>3
<1>6. CountTradingDaysBetween(p, runDay) >= 3 => CountTradingDaysBetween(p, today) >= 3
  <2>4. runDay \in Int /\ today \in Int
    BY <1>2
  <2> HIDE DEF p
  <2>1. CountTradingDaysBetween(p, runDay) <= CountTradingDaysBetween(p, today)
    BY <1>2, <1>4, <2>4, CountGrows
  <2>2. CountTradingDaysBetween(p, runDay) \in Nat /\ CountTradingDaysBetween(p, today) \in Nat
    BY <1>4, <2>4, StatusByCount
  <2>3. QED
    BY <2>1, <2>2
<1> HIDE DEF status, q
<1>7. /\ r \in Row /\ r.status = status /\ r.state = lots[l].state /\ r.purchased = p
      /\ r.canSell = lots[l].canSell /\ r.quantity = lots[l].quantity
      /\ status \in Locked => r.locked = q
      /\ status \notin Locked => r.locked = 0
  BY <1>2, <1>4, <1>5 DEF UpdateSettlementStatus, Row
<1> HIDE DEF r
<1>8. /\ lots' \in [Lots -> Row] /\ lots'[l] = r
      /\ \A k \in Lots : k # l => lots'[k] = lots[k]
  BY <1>1, <1>2, <1>7, OneRow DEF SettlementInv, SettlementTypes
<1>9. SettlementTypes'
  BY <1>1, <1>2, <1>8 DEF SettlementInv, SettlementTypes
<1>10. \A k \in Lots : Exists(k)' <=> Exists(k)
  BY <1>7, <1>8 DEF Exists
<1>11. BoughtInTime'
  BY <1>1, <1>3, <1>5, <1>6, <1>7, <1>8, <1>10 DEF SettlementInv, BoughtInTime, Bought
<1>12. FreedIsLiquid'
  <2>1. \A k \in freed : k \in Lots /\ Exists(k) /\ lots[k].status = "LIQUID"
    BY DEF SettlementInv, SettlementTypes, FreedIsLiquid
  <2>2. l \in freed => status = "LIQUID"
    BY <1>3, <1>5, <2>1
  <2>3. QED
    BY <1>1, <1>2, <1>3, <1>7, <1>8, <1>10, <2>1, <2>2 DEF FreedIsLiquid
<1>13. Covered'
  <2> SUFFICES ASSUME NEW k \in Lots, k \notin added, Bought(k)'
               PROVE  /\ lots'[k].status \in Locked => lots'[k].locked >= lots'[k].quantity
                      /\ lots'[k].status \notin Locked => lots'[k].locked = 0
    BY <1>1 DEF Covered
  <2>1. CASE k = l
    BY <1>3, <1>4, <1>7, <1>8, <2>1
  <2>2. CASE k # l
    BY <1>8, <2>2 DEF SettlementInv, Covered, Bought, Exists
  <2>3. QED
    BY <2>1, <2>2
<1>14. CopiesHold'
  <2> SUFFICES ASSUME NEW k \in DOMAIN agenda
               PROVE  /\ Exists(k)' /\ agenda[k].purchased = lots'[k].purchased
                      /\ k \notin added => agenda[k].quantity >= lots'[k].quantity
                      /\ k = l \/ agenda[k].status = lots'[k].status
                      /\ Bought(k)' /\ lots'[k].status = "LIQUID"
                           => CountTradingDaysBetween(lots'[k].purchased, runDay) >= 3
    BY <1>1 DEF CopiesHold
  <2>1. k \in Lots
    BY DEF SettlementInv, SettlementTypes
  <2>2. CASE k = l
    BY <1>3, <1>5, <1>7, <1>8, <1>10, <2>1, <2>2 DEF q
  <2>3. CASE k # l
    BY <1>1, <1>8, <1>10, <2>1, <2>3 DEF SettlementInv, CopiesHold, Bought
  <2>4. QED
    BY <2>2, <2>3
<1>15. QED
  BY <1>9, <1>11, <1>12, <1>13, <1>14 DEF SettlementInv

(* The job reads all rows: the copies are the rows.                        *)
LEMMA StartUpdateInv ==
  ASSUME SettlementInv, NEW force \in BOOLEAN, StartUpdate(force)
  PROVE  SettlementInv'
<1>1. /\ DOMAIN agenda' \subseteq Lots
      /\ \A l \in DOMAIN agenda' : lots[l].state = "open" /\ agenda'[l] = lots[l]
      /\ runDay' = today /\ updater' = "loop"
      /\ UNCHANGED <<today, lots, added, freed>>
  BY DEF StartUpdate, OpenLots, settleHistory
<1>2. SettlementTypes'
  BY <1>1 DEF SettlementInv, SettlementTypes
<1>3. BoughtInTime' /\ FreedIsLiquid' /\ Covered'
  BY <1>1, LotsKept
<1>4. CopiesHold'
  <2> SUFFICES ASSUME NEW l \in DOMAIN agenda'
               PROVE  /\ Exists(l) /\ agenda'[l].purchased = lots[l].purchased
                      /\ agenda'[l].quantity >= lots[l].quantity
                      /\ agenda'[l].status = lots[l].status
                      /\ Bought(l) /\ lots[l].status = "LIQUID"
                           => CountTradingDaysBetween(lots[l].purchased, today) >= 3
    BY <1>1 DEF CopiesHold, Bought, Exists
  <2>1. l \in Lots /\ Exists(l) /\ agenda'[l] = lots[l] /\ lots[l] \in Row
    BY <1>1 DEF Exists, SettlementInv, SettlementTypes
  <2>2. lots[l].quantity \in Nat
    BY <2>1, LotFields
  <2>3. QED
    BY <2>1, <2>2 DEF SettlementInv, BoughtInTime
<1>5. QED
  BY <1>2, <1>3, <1>4 DEF SettlementInv

(* A row that is passed over as free shows LIQUID already.                 *)
LEMMA SkipRowInv ==
  ASSUME SettlementInv, NEW l \in DOMAIN agenda, SkipRow(l)
  PROVE  SettlementInv'
<1>1. /\ updater = "loop"
      /\ agenda[l].purchased = NoDay \/ NewStatus(l) = agenda[l].status
      /\ freed' = IF agenda[l].purchased # NoDay /\ NewStatus(l) = "LIQUID"
                  THEN freed \cup {l} ELSE freed
      /\ UNCHANGED <<today, lots, runDay, updater, inHand, added>>
  BY DEF SkipRow
<1>2. DOMAIN agenda' = DOMAIN agenda \ {l} /\ \A k \in DOMAIN agenda' : agenda'[k] = agenda[k]
  BY HandledRows DEF SkipRow
<1>3. l \in Lots /\ Exists(l) /\ agenda[l].status = lots[l].status
  BY <1>1 DEF SettlementInv, SettlementTypes, CopiesHold
<1>4. \A k \in freed' : k \in freed \/ (k \in Lots /\ Exists(k) /\ lots[k].status = "LIQUID")
  BY <1>1, <1>3
<1>5. BoughtInTime' /\ FreedIsLiquid' /\ Covered' /\ freed' \subseteq Lots
  BY <1>1, <1>4, LotsKept
<1>6. CopiesHold'
  BY <1>1, <1>2, CopiesDropped
<1>7. SettlementTypes'
  BY <1>1, <1>2, <1>5 DEF SettlementInv, SettlementTypes
<1>8. QED
  BY <1>5, <1>6, <1>7 DEF SettlementInv

LEMMA UpdateRowFailsInv ==
  ASSUME SettlementInv, NEW l \in DOMAIN agenda, UpdateRowFails(l)
  PROVE  SettlementInv'
<1>1. updater = "loop" /\ UNCHANGED <<today, lots, runDay, updater, inHand, added, freed>>
  BY DEF UpdateRowFails, settleHistory
<1>2. DOMAIN agenda' = DOMAIN agenda \ {l} /\ \A k \in DOMAIN agenda' : agenda'[k] = agenda[k]
  BY HandledRows DEF UpdateRowFails
<1>3. BoughtInTime' /\ FreedIsLiquid' /\ Covered'
  BY <1>1, LotsKept
<1>4. CopiesHold'
  BY <1>1, <1>2, CopiesDropped
<1>5. SettlementTypes'
  BY <1>1, <1>2 DEF SettlementInv, SettlementTypes
<1>6. QED
  BY <1>3, <1>4, <1>5 DEF SettlementInv

(* Whether its snapshot was recorded or not, the row in hand is handled.   *)
LEMMA TrackingInv ==
  ASSUME SettlementInv, RecordSettlementTracking \/ RecordSettlementTrackingFails
  PROVE  SettlementInv'
<1>1. /\ updater = "tracking" /\ updater' = "loop" /\ Handled(inHand)
      /\ UNCHANGED <<today, lots, runDay, added, freed>>
  BY DEF RecordSettlementTracking, RecordSettlementTrackingFails, settleHistory
<1>2. DOMAIN agenda' = DOMAIN agenda \ {inHand} /\ \A k \in DOMAIN agenda' : agenda'[k] = agenda[k]
  BY <1>1, HandledRows
<1>3. BoughtInTime' /\ FreedIsLiquid' /\ Covered'
  BY <1>1, LotsKept
<1>4. CopiesHold'
  BY <1>1, <1>2, CopiesDropped
<1>5. SettlementTypes'
  BY <1>1, <1>2 DEF SettlementInv, SettlementTypes
<1>6. QED
  BY <1>3, <1>4, <1>5 DEF SettlementInv

(* The job ends, or dies, and its copies are gone.                         *)
LEMMA EndUpdateInv ==
  ASSUME SettlementInv, FinishUpdate \/ CrashUpdate
  PROVE  SettlementInv'
<1>1. /\ agenda' = <<>> /\ runDay' = NoDay /\ updater' = "idle"
      /\ UNCHANGED <<today, lots, added, freed>>
  BY DEF FinishUpdate, CrashUpdate, settleHistory
<1>2. DOMAIN agenda' = {}
  BY <1>1
<1>3. BoughtInTime' /\ FreedIsLiquid' /\ Covered'
  BY <1>1, LotsKept
<1>4. CopiesHold'
  BY <1>2 DEF CopiesHold
<1>5. SettlementTypes'
  BY <1>1, <1>2 DEF SettlementInv, SettlementTypes
<1>6. QED
  BY <1>3, <1>4, <1>5 DEF SettlementInv

(* A day passes: the counts only grow, and the day of the job stays.       *)
LEMMA TickInv ==
  ASSUME SettlementInv, Tick
  PROVE  SettlementInv'
<1>1. /\ today' = today + 1 /\ today \in Nat /\ FirstDay \in Nat
      /\ UNCHANGED <<lots, agenda, runDay, updater, inHand, added, freed>>
  BY SettlementBounds DEF Tick, job, settleHistory, SettlementInv, SettlementTypes
<1>2. SettlementTypes'
  BY <1>1 DEF SettlementInv, SettlementTypes, NoDay
<1>3. BoughtInTime'
  <2> SUFFICES ASSUME NEW l \in Lots, Bought(l)
               PROVE  /\ lots[l].purchased \in FirstDay..LastPurchase
                      /\ lots[l].purchased <= today + 1
                      /\ lots[l].canSell = GetCanSellDate(lots[l].purchased)
                      /\ lots[l].status = "LIQUID"
                           => CountTradingDaysBetween(lots[l].purchased, today + 1) >= 3
    BY <1>1 DEF BoughtInTime, Bought, Exists
  <2> DEFINE p == lots[l].purchased
  <2>1. /\ p \in FirstDay..LastPurchase /\ p <= today
        /\ lots[l].canSell = GetCanSellDate(p)
        /\ lots[l].status = "LIQUID" => CountTradingDaysBetween(p, today) >= 3
    BY DEF SettlementInv, BoughtInTime
  <2>2. lots[l] \in Row /\ p # NoDay
    BY DEF SettlementInv, SettlementTypes, Bought
  <2>3. p \in Nat
    BY <2>2, LotFields
  <2> HIDE DEF p
  <2>4. today \in Int /\ today + 1 \in Int /\ today <= today + 1
    BY <1>1
  <2>5. CountTradingDaysBetween(p, today) <= CountTradingDaysBetween(p, today + 1)
    BY <2>3, <2>4, CountGrows
  <2>6. CountTradingDaysBetween(p, today) \in Nat /\ CountTradingDaysBetween(p, today + 1) \in Nat
    BY <2>3, <2>4, StatusByCount
  <2>7. p <= today + 1
    BY <1>1, <2>1, <2>3
  <2>8. lots[l].status = "LIQUID" => CountTradingDaysBetween(p, today + 1) >= 3
    BY <2>1, <2>5, <2>6
  <2>9. QED
    BY <2>1, <2>7, <2>8 DEF p
<1>4. FreedIsLiquid' /\ Covered'
  BY <1>1 DEF SettlementInv, FreedIsLiquid, Covered, Bought, Exists
<1>5. CopiesHold'
  BY <1>1 DEF SettlementInv, CopiesHold, Bought, Exists
<1>6. QED
  BY <1>2, <1>3, <1>4, <1>5 DEF SettlementInv

LEMMA SettlementStep ==
  ASSUME SettlementInv, [SettlementNext]_settlementVars
  PROVE  SettlementInv'
<1>1. CASE Tick
  BY <1>1, TickInv
<1>2. CASE \E l \in Lots, n \in Sizes : Create(l, n) \/ AddEntry(l, n) \/ Sell(l, n)
  BY <1>2, CreateInv, AddEntryInv, SellInv
<1>3. CASE \E l \in Lots, n \in Sizes, x \in Listings : CreatePositionWithSettlement(l, n, x)
  BY <1>3, CreateWithSettlementInv
<1>4. CASE \E force \in BOOLEAN : StartUpdate(force)
  BY <1>4, StartUpdateInv
<1>5. CASE UpdaterStep
  BY <1>5, SkipRowInv, UpdateRowInv, TrackingInv, EndUpdateInv DEF UpdaterStep
<1>6. CASE \E l \in DOMAIN agenda : UpdateRowFails(l)
  BY <1>6, UpdateRowFailsInv
<1>7. CASE RecordSettlementTrackingFails
  BY <1>7, TrackingInv
<1>8. CASE CrashUpdate
  BY <1>8, EndUpdateInv
<1>9. CASE UNCHANGED settlementVars
  BY <1>9 DEF settlementVars, job, settleHistory, SettlementInv, SettlementTypes, BoughtInTime,
              FreedIsLiquid, Covered, CopiesHold, Bought, Exists
<1>10. QED
  BY <1>1, <1>2, <1>3, <1>4, <1>5, <1>6, <1>7, <1>8, <1>9 DEF SettlementNext

LEMMA SettlementInvariant == SettlementSpec => []SettlementInv
<1>1. SettlementInit => SettlementInv
  BY InitSettlement
<1>2. SettlementInv /\ [SettlementNext]_settlementVars => SettlementInv'
  BY SettlementStep
<1>3. QED
  BY <1>1, <1>2, PTL DEF SettlementSpec

-----------------------------------------------------------------------------
(* The purchase date of a row without later entries is that of its latest  *)
(* purchase.                                                               *)
LatestBought ==
  /\ bought \in [Lots -> Int]
  /\ \A l \in Lots \ added : Bought(l) => bought[l] = lots[l].purchased

LEMMA InitLatest == SettlementInit => LatestBought
BY DEF SettlementInit, LatestBought, Bought, Exists, Absent, NoDay

(* What the steps that make no purchase share.                             *)
LEMMA LatestKept ==
  ASSUME LatestBought, UNCHANGED bought, added \subseteq added',
         \A l \in Lots : /\ lots'[l].purchased = lots[l].purchased
                         /\ lots'[l].state # "absent" => lots[l].state # "absent"
  PROVE  LatestBought'
<1>1. ASSUME NEW l \in Lots, l \notin added', Bought(l)'
      PROVE  bought'[l] = lots'[l].purchased
  <2>1. l \notin added /\ Bought(l)
    BY <1>1 DEF Bought, Exists
  <2>2. QED
    BY <1>1, <2>1 DEF LatestBought
<1>2. bought' \in [Lots -> Int]
  BY DEF LatestBought
<1>3. QED
  BY <1>1, <1>2 DEF LatestBought

(* A row is created, today or without a date.                              *)
LEMMA LatestCreated ==
  ASSUME LatestBought, today \in Int, NEW l \in Lots,
         lots'[l].purchased \in {today, NoDay},
         \A k \in Lots : k # l => lots'[k] = lots[k],
         bought' = [bought EXCEPT ![l] = today], UNCHANGED added
  PROVE  LatestBought'
<1>1. /\ bought'[l] = today /\ bought' \in [Lots -> Int]
      /\ \A k \in Lots : k # l => bought'[k] = bought[k]
  BY DEF LatestBought
<1>2. QED
  BY <1>1 DEF LatestBought, Bought, Exists

LEMMA LatestStep ==
  ASSUME SettlementInv, LatestBought, [SettlementNext]_settlementVars
  PROVE  LatestBought'
<1>1. ASSUME NEW l \in Lots, NEW n \in Sizes, Create(l, n)
      PROVE  LatestBought'
  <2> DEFINE r == [Absent EXCEPT !.state = "open", !.quantity = n]
  <2>1. /\ lots' = [lots EXCEPT ![l] = r] /\ bought' = [bought EXCEPT ![l] = today]
        /\ UNCHANGED added
    BY <1>1 DEF Create
  <2>2. r.purchased = NoDay
    BY DEF Absent
  <2>3. lots \in [Lots -> Row] /\ today \in Int
    BY DEF SettlementInv, SettlementTypes
  <2> HIDE DEF r
  <2>4. lots'[l] = r /\ \A k \in Lots : k # l => lots'[k] = lots[k]
    BY <2>1, <2>3
  <2>5. lots'[l].purchased \in {today, NoDay}
    BY <2>2, <2>4
  <2>6. QED
    BY <2>1, <2>3, <2>4, <2>5, LatestCreated
<1>2. ASSUME NEW l \in Lots, NEW n \in Sizes, NEW x \in Listings,
             CreatePositionWithSettlement(l, n, x)
      PROVE  LatestBought'
  <2> DEFINE size == ValidateSignal(n, 1)
             r == [state |-> "open", quantity |-> size,
                   status |-> CalculateSettlementStatusFromDates(today, today),
                   purchased |-> today, canSell |-> GetCanSellDate(today),
                   exchange |-> x, locked |-> size, liquid |-> 0, dated |-> FALSE]
  <2>1. /\ lots' = [lots EXCEPT ![l] = r] /\ bought' = [bought EXCEPT ![l] = today]
        /\ UNCHANGED added
    BY <1>2 DEF CreatePositionWithSettlement
  <2>2. r.purchased = today
    OBVIOUS
  <2>3. lots \in [Lots -> Row] /\ today \in Int
    BY DEF SettlementInv, SettlementTypes
  <2> HIDE DEF r
  <2>4. lots'[l] = r /\ \A k \in Lots : k # l => lots'[k] = lots[k]
    BY <2>1, <2>3
  <2>5. lots'[l].purchased \in {today, NoDay}
    BY <2>2, <2>4
  <2>6. QED
    BY <2>1, <2>3, <2>4, <2>5, LatestCreated
<1>3. ASSUME NEW l \in Lots, NEW n \in Sizes, AddEntry(l, n)
      PROVE  LatestBought'
  <2>1. today \in Int /\ lots \in [Lots -> Row]
    BY DEF SettlementInv, SettlementTypes
  <2>2. \A k \in Lots : /\ lots'[k].purchased = lots[k].purchased
                        /\ lots'[k].state = lots[k].state
    <3>1. CASE lots[l].dated
      BY <1>3, <2>1, <3>1 DEF AddEntry, Row
    <3>2. CASE ~lots[l].dated
      BY <1>3, <2>1, <3>2 DEF AddEntry, Row
    <3>3. QED
      BY <3>1, <3>2
  <2>3. CASE lots[l].dated
    <3>1. added' = added \cup {l} /\ bought' = [bought EXCEPT ![l] = today]
      BY <1>3, <2>3 DEF AddEntry
    <3>2. bought' \in [Lots -> Int] /\ \A k \in Lots : k # l => bought'[k] = bought[k]
      BY <2>1, <3>1 DEF LatestBought
    <3>3. QED
      BY <2>2, <3>1, <3>2 DEF LatestBought, Bought, Exists
  <2>4. CASE ~lots[l].dated
    <3>1. UNCHANGED <<added, bought>>
      BY <1>3, <2>4 DEF AddEntry
    <3>2. QED
      BY <2>2, <3>1, LatestKept
  <2>5. QED
    BY <2>3, <2>4
<1>4. ASSUME NEW l \in Lots, NEW n \in Sizes, Sell(l, n)
      PROVE  LatestBought'
  <2>1. lots \in [Lots -> Row] /\ UNCHANGED <<added, bought>> /\ lots[l].state = "open"
    BY <1>4 DEF Sell, OpenLots, settleHistory, SettlementInv, SettlementTypes
  <2>2. \A k \in Lots : /\ lots'[k].purchased = lots[k].purchased
                        /\ lots'[k].state # "absent" => lots[k].state # "absent"
    BY <1>4, <2>1 DEF Sell, Row
  <2>3. QED
    BY <2>1, <2>2, LatestKept
<1>5. ASSUME NEW l \in DOMAIN agenda, UpdateRow(l)
      PROVE  LatestBought'
  <2>1. lots \in [Lots -> Row] /\ l \in Lots /\ UNCHANGED <<added, bought>>
    BY <1>5 DEF UpdateRow, SettlementInv, SettlementTypes
  <2>2. lots' = [lots EXCEPT ![l] =
                   UpdateSettlementStatus(lots[l], NewStatus(l), agenda[l].quantity)]
    BY <1>5 DEF UpdateRow
  <2>3. \A k \in Lots : /\ lots'[k].purchased = lots[k].purchased
                        /\ lots'[k].state = lots[k].state
    BY <2>1, <2>2 DEF UpdateSettlementStatus, Row
  <2>4. QED
    BY <2>1, <2>3, LatestKept
<1>6. ASSUME UNCHANGED <<lots, added, bought>>
      PROVE  LatestBought'
  BY <1>6, LatestKept
<1>7. CASE Tick \/ \E force \in BOOLEAN : StartUpdate(force)
  BY <1>6, <1>7 DEF Tick, StartUpdate, settleHistory
<1>8. CASE UpdaterStep
  BY <1>5, <1>6, <1>8 DEF UpdaterStep, SkipRow, RecordSettlementTracking, FinishUpdate,
                          settleHistory
<1>9. CASE (\E l \in DOMAIN agenda : UpdateRowFails(l)) \/ RecordSettlementTrackingFails
           \/ CrashUpdate
  BY <1>6, <1>9 DEF UpdateRowFails, RecordSettlementTrackingFails, CrashUpdate, settleHistory
<1>10. CASE UNCHANGED settlementVars
  BY <1>6, <1>10 DEF settlementVars, settleHistory
<1>11. QED
  BY <1>1, <1>2, <1>3, <1>4, <1>7, <1>8, <1>9, <1>10 DEF SettlementNext

(* A row bought through the settlement columns, and not added to since,    *)
(* shows LIQUID only when three trading days have begun since its latest   *)
(* purchase, for any calendar and any interleaving of the daily job with   *)
(* sales, entries, failures and crashes (CreatePositionWithSettlement,     *)
(* UpdateSettlementStatus): what the job has computed from an old copy and *)
(* an old date is still sound when it is written, for the count of trading *)
(* days only grows.                                                        *)
THEOREM NoEarlySale == SettlementSpec => []NeverFreeTooEarly
<1>1. SettlementInit => LatestBought
  BY InitLatest
<1>2. SettlementInv /\ LatestBought /\ [SettlementNext]_settlementVars => LatestBought'
  BY LatestStep
<1>3. SettlementInv /\ LatestBought => NeverFreeTooEarly
  BY DEF SettlementInv, BoughtInTime, LatestBought, NeverFreeTooEarly, OpenLots, Bought, Exists
<1>4. QED
  BY <1>1, <1>2, <1>3, SettlementInvariant, PTL DEF SettlementSpec

(* A stop is held back on shares that are free (CanExecuteStopLoss) only   *)
(* while the job has not got the row right since: a row the job has freed  *)
(* is never locked again, by any step.                                     *)
THEOREM FreedStaysFree == SettlementSpec => []LockedTooLongIsMissed
<1>1. SettlementInv => LockedTooLongIsMissed
  BY DEF SettlementInv, FreedIsLiquid, LockedTooLongIsMissed, CanExecuteStopLoss, IsLocked, Locked
<1>2. QED
  BY <1>1, SettlementInvariant, PTL

(* The date a buyer is told, found by walking forward day by day           *)
(* (GetCanSellDate), and the status the job computes by counting trading   *)
(* days (CalculateSettlementStatusFromDates) agree on every trading day,   *)
(* for every set of holidays.                                              *)
THEOREM SellDateAgrees == SettlementSpec => []SellDateIsLiquidDate
<1>1. SettlementInv => SellDateIsLiquidDate
  <2> SUFFICES ASSUME SettlementInv, NEW l \in OpenLots, lots[l].purchased # NoDay,
                      IsTradingDay(lots[l].purchased), IsTradingDay(today)
               PROVE  today >= lots[l].canSell <=>
                        CalculateSettlementStatusFromDates(lots[l].purchased, today) = "LIQUID"
    BY DEF SellDateIsLiquidDate
  <2> DEFINE p == lots[l].purchased
  <2>1. l \in Lots /\ Bought(l) /\ lots[l] \in Row /\ today \in Nat
    BY DEF OpenLots, Bought, Exists, SettlementInv, SettlementTypes
  <2>2. p \in Nat
    BY <2>1, LotFields
  <2>3. p \in FirstDay..LastPurchase /\ p <= today /\ lots[l].canSell = GetCanSellDate(p)
    BY <2>1 DEF SettlementInv, BoughtInTime
  <2>4. Cardinality(TradingDaysIn(p + 1, p + Horizon)) >= 3
    BY <2>3, SellDatesExist
  <2> HIDE DEF p
  <2>5. today >= GetCanSellDate(p) <=> CountTradingDaysBetween(p, today) >= 3
    BY <2>1, <2>2, <2>3, <2>4, LiquidFromSellDate DEF p
  <2>6. CalculateSettlementStatusFromDates(p, today) = "LIQUID"
          <=> CountTradingDaysBetween(p, today) >= 3
    <3>1. today \in Int
      BY <2>1
    <3>2. QED
      BY <2>2, <3>1, StatusByCount
  <2>7. QED
    BY <2>3, <2>5, <2>6 DEF p
<1>2. QED
  BY <1>1, SettlementInvariant, PTL

(* The risk the budget adds up (GetTotalLockedRisk) covers every share of  *)
(* a locked row that took no further entry, sales and stale copies of the  *)
(* job notwithstanding, and a liquid row takes nothing of it: the copy the *)
(* job writes back is never smaller than the row.                          *)
THEOREM RiskCovered == SettlementSpec => []LockedRiskCovered
<1>1. SettlementInv => LockedRiskCovered
  BY DEF SettlementInv, Covered, LockedRiskCovered, OpenLots, IsLocked, Bought, Exists
<1>2. QED
  BY <1>1, SettlementInvariant, PTL

(* The rows keep their types: in particular no sale leaves a row with      *)
(* fewer than no shares, whatever the job writes meanwhile.                *)
THEOREM SettlementTypeCorrect == SettlementSpec => []SettlementTypeOK
<1>1. SettlementInv => SettlementTypeOK
  BY DEF SettlementInv, SettlementTypes, SettlementTypeOK, Row
<1>2. QED
  BY <1>1, SettlementInvariant, PTL
=============================================================================
