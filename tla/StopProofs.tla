----------------------------- MODULE StopProofs -----------------------------
(***************************************************************************)
(* Proofs about the stops of open positions: AlertMonitors and             *)
(* StopTracker, for any cooldown, prices, callers, objects, quotes and     *)
(* indicators, and for every trailing method.                              *)
(***************************************************************************)
EXTENDS AlertMonitors, StopTracker, FiniteSetTheorems, TLAPS

-----------------------------------------------------------------------------
(***************************************************************************)
(* AlertMonitors: any cooldown, prices, accounts and losses.               *)
(***************************************************************************)

(* Nothing but the alerts of the three services is ever due.               *)
LEMMA DueIsAlert == ASSUME service \in Services PROVE Due \subseteq AlertKeys
<1>1. PricesDue \subseteq AlertKeys
  BY DEF PricesDue, AlertKeys
<1>2. StopsDue \subseteq AlertKeys
  BY DEF StopsDue, AlertKeys
<1>3. AccountDue \subseteq AlertKeys
  BY DEF AccountDue, AlertKeys
<1>4. CASE service = "price"
  BY <1>1, <1>4 DEF Due
<1>5. CASE service = "stop"
  BY <1>2, <1>5 DEF Due
<1>6. CASE service = "account"
  BY <1>3, <1>6 DEF Due
<1>7. QED
  BY <1>4, <1>5, <1>6 DEF Services

(* Ageing keeps the clocks in range and in order.                          *)
LEMMA AgedInOrder ==
  ASSUME NEW s \in [AlertKeys -> 0..Cooldown], NEW t \in [AlertKeys -> 0..Cooldown],
         \A k \in AlertKeys : s[k] <= t[k]
  PROVE  /\ Aged(s) \in [AlertKeys -> 0..Cooldown]
         /\ Aged(t) \in [AlertKeys -> 0..Cooldown]
         /\ \A k \in AlertKeys : Aged(s)[k] <= Aged(t)[k]
<1>1. Cooldown \in Nat
  BY AlertAssumption
<1>2. ASSUME NEW k \in AlertKeys
      PROVE  /\ Aged(s)[k] = IF s[k] < Cooldown THEN s[k] + 1 ELSE s[k]
             /\ Aged(t)[k] = IF t[k] < Cooldown THEN t[k] + 1 ELSE t[k]
             /\ s[k] \in 0..Cooldown /\ t[k] \in 0..Cooldown /\ s[k] <= t[k]
  BY <1>2 DEF Aged
<1>3. ASSUME NEW k \in AlertKeys
      PROVE  /\ Aged(s)[k] \in 0..Cooldown /\ Aged(t)[k] \in 0..Cooldown
             /\ Aged(s)[k] <= Aged(t)[k]
  BY <1>1, <1>2, <1>3
<1>4. /\ Aged(s) = [k \in AlertKeys |-> Aged(s)[k]]
      /\ Aged(t) = [k \in AlertKeys |-> Aged(t)[k]]
  BY DEF Aged
<1>5. QED
  BY <1>3, <1>4

-----------------------------------------------------------------------------
(* An alert is recorded no later than it reaches the trader: its cooldown  *)
(* never runs ahead of the time since it was last heard.                   *)
ClockInv ==
  /\ service \in Services
  /\ sinceAlert \in [AlertKeys -> 0..Cooldown]
  /\ sinceSent \in [AlertKeys -> 0..Cooldown]
  /\ \A k \in AlertKeys : sinceAlert[k] <= sinceSent[k]

(* What a check does to the clocks: it records what it sends, and what the *)
(* trader hears is part of it.                                             *)
Heard ==
  \E sends \in SUBSET AlertKeys :
    /\ \A k \in sends : MayAlert(k, Aged(sinceAlert))
    /\ told' \subseteq sends
    /\ sinceAlert' = [k \in AlertKeys |-> IF k \in sends THEN 0 ELSE Aged(sinceAlert)[k]]
    /\ sinceSent' = [k \in AlertKeys |-> IF k \in told' THEN 0 ELSE Aged(sinceSent)[k]]

(* Every check is of this form, with or without lost messages.             *)
LEMMA CheckHeard == ASSUME ClockInv, AlertCheck PROVE Heard /\ service' = service
<1> DEFINE sends == {k \in Due : MayAlert(k, Aged(sinceAlert))}
<1>1. sends \in SUBSET AlertKeys /\ \A k \in sends : MayAlert(k, Aged(sinceAlert))
  BY DueIsAlert DEF ClockInv
<1>2. ASSUME NEW lost \in SUBSET Due, Tell(Due, lost) PROVE Heard
  <2>1. /\ told' = Told(sends) \ lost
        /\ sinceAlert' = [k \in AlertKeys |-> IF k \in sends THEN 0 ELSE Aged(sinceAlert)[k]]
        /\ sinceSent' = [k \in AlertKeys |-> IF k \in Told(sends) \ lost THEN 0
                                             ELSE Aged(sinceSent)[k]]
    BY <1>2 DEF Tell, Recorded
  <2> HIDE DEF sends
  <2>2. Told(sends) \subseteq sends
    BY DEF Told
  <2>3. QED
    BY <1>1, <2>1, <2>2 DEF Heard
<1>3. CASE CheckPrices
  BY <1>2, <1>3 DEF CheckPrices
<1>4. CASE CheckPricesNewsLost
  <2>1. /\ told' = sends
        /\ sinceAlert' = [k \in AlertKeys |-> IF k \in sends THEN 0 ELSE Aged(sinceAlert)[k]]
        /\ sinceSent' = [k \in AlertKeys |-> IF k \in sends THEN 0 ELSE Aged(sinceSent)[k]]
        /\ service' = service
    BY <1>4 DEF CheckPricesNewsLost, Recorded
  <2> HIDE DEF sends
  <2>2. QED
    BY <1>1, <2>1 DEF Heard
<1>5. CASE CheckPositions
  BY <1>2, <1>5 DEF CheckPositions
<1>6. CASE CheckAccount
  BY <1>2, <1>6 DEF CheckAccount
<1>7. CASE CheckFails
  <2>1. /\ told' = {} /\ service' = service
        /\ sinceAlert' = Aged(sinceAlert) /\ sinceSent' = Aged(sinceSent)
    BY <1>7 DEF CheckFails
  <2>2. /\ Aged(sinceAlert) = [k \in AlertKeys |-> Aged(sinceAlert)[k]]
        /\ Aged(sinceSent) = [k \in AlertKeys |-> Aged(sinceSent)[k]]
    BY DEF Aged
  <2>3. /\ sinceAlert' = [k \in AlertKeys |-> IF k \in {} THEN 0 ELSE Aged(sinceAlert)[k]]
        /\ sinceSent' = [k \in AlertKeys |-> IF k \in told' THEN 0 ELSE Aged(sinceSent)[k]]
    BY <2>1, <2>2
  <2>4. {} \in SUBSET AlertKeys /\ \A k \in {} : MayAlert(k, Aged(sinceAlert))
    OBVIOUS
  <2>5. QED
    BY <2>1, <2>3, <2>4 DEF Heard
<1>8. QED
  BY <1>3, <1>4, <1>5, <1>6, <1>7 DEF AlertCheck

(* The clocks stay in order.                                               *)
LEMMA ClockStep == ClockInv /\ [AlertNext]_alertVars => ClockInv'
<1> SUFFICES ASSUME ClockInv, [AlertNext]_alertVars PROVE ClockInv'
  OBVIOUS
<1>1. CASE AlertCheck
  <2>1. Heard /\ service' = service
    BY <1>1, CheckHeard
  <2>2. PICK sends \in SUBSET AlertKeys :
          /\ told' \subseteq sends
          /\ sinceAlert' = [k \in AlertKeys |-> IF k \in sends THEN 0 ELSE Aged(sinceAlert)[k]]
          /\ sinceSent' = [k \in AlertKeys |-> IF k \in told' THEN 0 ELSE Aged(sinceSent)[k]]
    BY <2>1 DEF Heard
  <2>3. /\ Aged(sinceAlert) \in [AlertKeys -> 0..Cooldown]
        /\ Aged(sinceSent) \in [AlertKeys -> 0..Cooldown]
        /\ \A k \in AlertKeys : Aged(sinceAlert)[k] <= Aged(sinceSent)[k]
    BY AgedInOrder DEF ClockInv
  <2>4. 0 \in 0..Cooldown /\ Cooldown \in Nat
    BY AlertAssumption
  <2>5. sinceAlert' \in [AlertKeys -> 0..Cooldown] /\ sinceSent' \in [AlertKeys -> 0..Cooldown]
    BY <2>2, <2>3, <2>4
  <2>6. ASSUME NEW k \in AlertKeys PROVE sinceAlert'[k] <= sinceSent'[k]
    <3>1. CASE k \in sends
      BY <2>2, <2>5, <2>4, <3>1
    <3>2. CASE k \notin sends
      BY <2>2, <2>3, <3>2
    <3>3. QED
      BY <3>1, <3>2
  <2>7. QED
    BY <2>1, <2>5, <2>6 DEF ClockInv
<1>2. CASE \/ SessionChanges \/ QuoteArrives \/ CandleArrives \/ TableChanges
           \/ AccountChanges \/ UNCHANGED alertVars
  <2>1. UNCHANGED <<service, sinceAlert, sinceSent>>
    BY <1>2 DEF SessionChanges, QuoteArrives, CandleArrives, TableChanges, AccountChanges,
                alertVars
  <2>2. QED
    BY <2>1 DEF ClockInv
<1>3. QED
  BY <1>1, <1>2 DEF AlertNext

LEMMA ClocksInOrder == AlertSpec => []ClockInv
<1>1. AlertInit => ClockInv
  <2>1. Cooldown \in Nat
    BY AlertAssumption
  <2>2. QED
    BY <2>1 DEF AlertInit, ClockInv
<1>2. QED
  BY <1>1, ClockStep, PTL DEF AlertSpec

(* Two alerts of one kind that reach the trader are a cooldown apart,      *)
(* whichever service sends them and whatever is lost in between.           *)
THEOREM Spacing == AlertSpec => AlertsSpaced
<1> DEFINE Spaced == AlertCheck => \A k \in told' : Aged(sinceSent)[k] >= Cooldown
<1>1. ClockInv /\ [AlertNext]_alertVars => [Spaced]_alertVars
  <2> SUFFICES ASSUME ClockInv, AlertCheck, NEW k \in told'
               PROVE  Aged(sinceSent)[k] >= Cooldown
    OBVIOUS
  <2>1. k \in AlertKeys /\ Aged(sinceAlert)[k] >= Cooldown
    BY CheckHeard DEF Heard, MayAlert
  <2>2. /\ Aged(sinceAlert)[k] \in 0..Cooldown /\ Aged(sinceSent)[k] \in 0..Cooldown
        /\ Aged(sinceAlert)[k] <= Aged(sinceSent)[k]
    BY <2>1, AgedInOrder DEF ClockInv
  <2>3. Cooldown \in Nat
    BY AlertAssumption
  <2>4. QED
    BY <2>1, <2>2, <2>3
<1>2. QED
  BY ClocksInOrder, <1>1, PTL DEF AlertSpec, AlertsSpaced

LEMMA AddedFinite ==
  ASSUME NEW S, NEW x, IsFiniteSet(S)
  PROVE  IsFiniteSet(S \cup {x})
BY FS_AddElement

LEMMA AlertKeysFinite == IsFiniteSet(AlertKeys)
<1>1. IsFiniteSet(PriceKeys)
  <2>1. PriceKeys = ({} \cup {"PRICE_DROP"}) \cup {"PRICE_GAIN"}
    BY DEF PriceKeys
  <2>2. QED
    BY <2>1, FS_EmptySet, AddedFinite
<1>2. IsFiniteSet(StopKeys)
  <2>1. StopKeys = ({} \cup {"adjust"}) \cup {"stop_hit"}
    BY DEF StopKeys
  <2>2. QED
    BY <2>1, FS_EmptySet, AddedFinite
<1>3. IsFiniteSet(AccountKeys)
  <2> DEFINE losses == (({} \cup {"portfolio_risk_critical"}) \cup {"portfolio_risk_warning"})
                         \cup {"daily_loss_critical"}
             levels == ((losses \cup {"daily_loss_warning"}) \cup {"capital_util_warning"})
                         \cup {"target_approaching"}
  <2>1. AccountKeys = (levels \cup {"stop_approaching"}) \cup {"time_stop"}
    BY Zenon DEF AccountKeys
  <2>2. IsFiniteSet(losses)
    BY FS_EmptySet, AddedFinite
  <2>3. IsFiniteSet(levels)
    <3> HIDE DEF losses
    <3>1. QED
      BY <2>2, AddedFinite
  <2> HIDE DEF levels
  <2>4. QED
    BY <2>1, <2>3, AddedFinite
<1>4. QED
  BY <1>1, <1>2, <1>3, FS_Union DEF AlertKeys

(* Every alert told is one of the services'; the clocks run up to the      *)
(* cooldown.                                                               *)
AlertInv == ClockInv /\ AlertTypeOK

LEMMA LostCounted ==
  ASSUME AlertInv, NEW lost \in SUBSET Due, Tell(Due, lost)
  PROVE  alertFaults' \in 0..MaxAlertFaults /\ told' \subseteq AlertKeys
<1>1. Due \subseteq AlertKeys
  BY DueIsAlert DEF AlertInv, ClockInv
<1>2. IsFiniteSet(lost) /\ Cardinality(lost) \in Nat
  <2>1. lost \in SUBSET AlertKeys
    BY <1>1
  <2>2. IsFiniteSet(lost)
    BY <2>1, AlertKeysFinite, FS_Subset
  <2>3. QED
    BY <2>2, FS_CardinalityType
<1>3. alertFaults' = alertFaults + Cardinality(lost) /\ alertFaults + Cardinality(lost) <= MaxAlertFaults
  BY DEF Tell
<1>4. told' \subseteq Due
  BY DEF Tell, Told
<1>5. alertFaults \in Nat /\ MaxAlertFaults \in Nat
  BY AlertAssumption DEF AlertInv, AlertTypeOK
<1>6. QED
  BY <1>1, <1>2, <1>3, <1>4, <1>5

LEMMA AlertStep == AlertInv /\ [AlertNext]_alertVars => AlertInv'
<1> SUFFICES ASSUME AlertInv, [AlertNext]_alertVars PROVE AlertInv'
  OBVIOUS
<1>1. ClockInv'
  BY ClockStep DEF AlertInv
<1>2. /\ service \in Services /\ news \in {"none", "on", "off"} /\ told \subseteq AlertKeys
      /\ alertFaults \in 0..MaxAlertFaults
  BY DEF AlertInv, AlertTypeOK
<1>3. /\ news' \in {"none", "on", "off"} /\ told' \subseteq AlertKeys
      /\ alertFaults' \in 0..MaxAlertFaults
  <2>1. CASE CheckPrices
    <3>1. alertFaults' \in 0..MaxAlertFaults /\ told' \subseteq AlertKeys
      BY <2>1, LostCounted DEF CheckPrices
    <3>2. news' \in {"none", "on", "off"}
      BY <1>2, <2>1 DEF CheckPrices, CheckMarketStatus
    <3>3. QED
      BY <3>1, <3>2
  <2>2. CASE CheckPricesNewsLost
    <3>1. Due \subseteq AlertKeys /\ MaxAlertFaults \in Nat
      BY <1>2, DueIsAlert, AlertAssumption
    <3>2. told' \subseteq Due /\ alertFaults' = alertFaults + 1 /\ alertFaults < MaxAlertFaults
      BY <2>2 DEF CheckPricesNewsLost
    <3>3. news' = news
      BY <2>2 DEF CheckPricesNewsLost, CheckMarketStatus
    <3>4. QED
      BY <1>2, <3>1, <3>2, <3>3
  <2>3. CASE CheckPositions \/ CheckAccount
    <3>1. PICK lost \in SUBSET Due : Tell(Due, lost)
      BY <2>3 DEF CheckPositions, CheckAccount
    <3>2. alertFaults' \in 0..MaxAlertFaults /\ told' \subseteq AlertKeys
      BY <3>1, LostCounted
    <3>3. QED
      BY <1>2, <2>3, <3>2 DEF CheckPositions, CheckAccount
  <2>4. CASE \/ SessionChanges \/ QuoteArrives \/ CandleArrives \/ TableChanges
             \/ AccountChanges \/ UNCHANGED alertVars
    <3>1. UNCHANGED <<news, told, alertFaults>>
      BY <2>4 DEF SessionChanges, QuoteArrives, CandleArrives, TableChanges, AccountChanges,
                  alertVars
    <3>2. QED
      BY <1>2, <3>1
  <2>5. CASE CheckFails
    <3>1. /\ told' = {} /\ alertFaults < MaxAlertFaults /\ alertFaults' = alertFaults + 1
          /\ news' \in {news, "on", "off"}
      BY <2>5 DEF CheckFails, CheckMarketStatus
    <3>2. MaxAlertFaults \in Nat
      BY AlertAssumption
    <3>3. QED
      BY <1>2, <3>1, <3>2
  <2>6. QED
    BY <2>1, <2>2, <2>3, <2>4, <2>5 DEF AlertNext, AlertCheck
<1>4. QED
  BY <1>1, <1>3 DEF AlertInv, AlertTypeOK, ClockInv

(* No clock of an alert leaves its cooldown, and nothing is told but the   *)
(* alerts of the three services (monitor services of                       *)
(* internal/service/telegram).                                             *)
THEOREM AlertTypeCorrect == AlertSpec => []AlertTypeOK
<1>1. AlertInit => AlertInv
  <2>1. Cooldown \in Nat /\ MaxAlertFaults \in Nat
    BY AlertAssumption
  <2>2. QED
    BY <2>1 DEF AlertInit, AlertInv, ClockInv, AlertTypeOK
<1>2. AlertInv => AlertTypeOK
  BY DEF AlertInv
<1>3. QED
  BY <1>1, <1>2, AlertStep, PTL DEF AlertSpec

-----------------------------------------------------------------------------
(***************************************************************************)
(* StopTracker: any callers, objects, quotes and indicators.               *)
(***************************************************************************)

PositionObject ==
  [entry : Nat, stop : Nat, risk : Int, targets : Seq(Nat), highest : Int,
   remaining : Nat, sold : Nat, used : BOOLEAN]

IndicatorValues == [atr : Int, ema : Int, swingLow : Int, old : BOOLEAN]

-----------------------------------------------------------------------------
(* The rules of StopEngine.                                                *)

LEMMA TrailingLevels ==
  ASSUME NEW pos \in PositionObject, NEW price \in Nat, NEW ind \in IndicatorValues
  PROVE  CalculateTrailingStop(pos, price, ind) \subseteq Int
<1>1. TrailByATR(pos, price, ind.atr) \subseteq Int
  BY DEF TrailByATR, Raise, Above, Least, Level, PositionObject, IndicatorValues
<1>2. TrailByEMA(pos, price, ind.ema) \subseteq Int
  BY DEF TrailByEMA, Raise, Above, PositionObject, IndicatorValues
<1>3. TrailByPercentage(pos, price) \subseteq Int
  BY DEF TrailByPercentage, Raise, Above, PositionObject
<1>4. TrailBySwing(pos, price, ind.swingLow) \subseteq Int
  BY DEF TrailBySwing, Raise, Above, PositionObject, IndicatorValues
<1>5. TrailingMethod \in TrailingMethods
  BY TrailingMethodAssumption
<1>6. QED
  BY <1>1, <1>2, <1>3, <1>4, <1>5 DEF CalculateTrailingStop, TrailingMethods

LEMMA TargetLevels ==
  ASSUME NEW pos \in PositionObject, NEW price \in Nat
  PROVE  CalculateTargetBasedStop(pos, price) \subseteq Int
<1> DEFINE hit == {i \in DOMAIN pos.targets : price >= pos.targets[i]}
<1>1. pos.targets \in Seq(Nat) /\ pos.entry \in Nat
  BY DEF PositionObject
<1>2. \A i \in DOMAIN pos.targets : pos.targets[i] \in Nat
  BY <1>1
<1>3. CASE hit = {}
  BY <1>3 DEF CalculateTargetBasedStop
<1>4. CASE hit # {} /\ Cardinality(hit) >= 2
  <2>1. 1 \in DOMAIN pos.targets
    BY <1>1, <1>4
  <2>2. Above(pos, {Level(pos.targets[1])}) \subseteq Int
    BY <1>2, <2>1 DEF Above, Level
  <2>3. QED
    BY <1>4, <2>2 DEF CalculateTargetBasedStop
<1>5. CASE hit # {} /\ ~(Cardinality(hit) >= 2)
  <2>1. Above(pos, {500 * (pos.entry + pos.targets[i]) : i \in hit}) \subseteq Int
    BY <1>1, <1>2 DEF Above
  <2>2. QED
    BY <1>5, <2>1 DEF CalculateTargetBasedStop
<1>6. QED
  BY <1>3, <1>4, <1>5

(* The stop that is proposed is a number and not below the one at hand.    *)
LEMMA NeverProposedLower ==
  ASSUME NEW pos \in PositionObject, NEW price \in Nat, NEW ind \in IndicatorValues,
         NEW s \in EvaluateStopAdjustment(pos, price, ind)
  PROVE  s \in Int /\ s >= pos.stop
<1> DEFINE levels == CalculateBreakevenStop(pos, price)
                \cup CalculateTargetBasedStop(pos, price)
                \cup CalculateTrailingStop(pos, price, ind)
                \cup CalculateTimeStop(pos, price, ind.old)
                \cup CalculateVolatilityStop(pos, price, ind.atr)
<1>1. CalculateBreakevenStop(pos, price) \subseteq Int
  BY DEF CalculateBreakevenStop, Above, PositionObject
<1>2. CalculateTimeStop(pos, price, ind.old) \subseteq Int
  BY DEF CalculateTimeStop
<1>3. CalculateVolatilityStop(pos, price, ind.atr) \subseteq Int
  <2>1. pos.highest \in Int /\ ind.atr \in Int
    BY DEF PositionObject, IndicatorValues
  <2>2. ASSUME NEW m \in Int PROVE Raise(pos, price, {Level(pos.highest) - m * ind.atr}) \subseteq Int
    BY <2>1 DEF Raise, Above, Level
  <2>3. QED
    BY <2>2 DEF CalculateVolatilityStop
<1>4. levels \subseteq Int
  BY <1>1, <1>2, <1>3, TrailingLevels, TargetLevels
<1>5. /\ s \in {RoundToHundred(l) : l \in levels}
      /\ ValidateAdjustment(pos.stop, s, price)
  BY DEF EvaluateStopAdjustment
<1> HIDE DEF levels
<1>6. PICK l \in levels : s = RoundToHundred(l)
  BY <1>5
<1>7. s \in Int
  BY <1>4, <1>6 DEF RoundToHundred
<1>8. QED
  BY <1>5, <1>7 DEF ValidateAdjustment

-----------------------------------------------------------------------------
(* The shares of an object in use add up to the purchase.                  *)
Whole(r) == r \in PositionObject /\ (r.used => r.remaining + r.sold = Shares)

HeapInv == heap \in [Objects -> PositionObject] /\ \A o \in Objects : Whole(heap[o])

(* An open position has an object of its own, with shares left.            *)
OpenInv ==
  /\ \A id \in Tracked : /\ positions[id] \in Objects /\ positions[id] \notin closed
                         /\ heap[positions[id]].used /\ heap[positions[id]].remaining > 0
  /\ \A i, j \in Tracked : positions[i] = positions[j] => i = j

ClosedInv == \A o \in closed : o \in Objects /\ heap[o].used /\ heap[o].remaining = 0

(* The file holds whole positions with shares left.                        *)
SavedInv ==
  \A id \in DOMAIN saved.open :
    /\ Whole(saved.open[id]) /\ saved.open[id].used /\ saved.open[id].remaining > 0

(* A caller holds a price, a number of shares, and a stop that is not      *)
(* below the one it was computed from.                                     *)
CallerFields == {"at", "id", "object", "price", "stop", "seen", "shares", "alerts"}
CallerOK(r) ==
  /\ CallerFields \subseteq DOMAIN r
  /\ r.price \in Nat /\ r.shares \in Nat
  /\ r.at = "apply" => r.stop \in Nat /\ r.seen \in Nat /\ r.stop >= r.seen
CallersInv == DOMAIN callers = Callers /\ \A c \in Callers : CallerOK(callers[c])

TrackerInv == HeapInv /\ OpenInv /\ ClosedInv /\ SavedInv /\ CallersInv

-----------------------------------------------------------------------------
(* What the fields that change leave of an object.                         *)
LEMMA NewObjectWhole ==
  LET r == [entry |-> Entry, stop |-> InitialStop, risk |-> Entry - InitialStop,
            targets |-> Targets, highest |-> Entry,
            remaining |-> Shares, sold |-> 0, used |-> TRUE]
  IN  Whole(r) /\ r.used /\ r.remaining > 0
BY TrackerAssumption, TrackerInputs DEF Whole, PositionObject

LEMMA StopTouched ==
  ASSUME NEW r, Whole(r), NEW v \in Nat
  PROVE  /\ Whole([r EXCEPT !.stop = v]) /\ [r EXCEPT !.stop = v].used = r.used
         /\ [r EXCEPT !.stop = v].remaining = r.remaining
BY DEF Whole, PositionObject

LEMMA HighestTouched ==
  ASSUME NEW r, Whole(r), NEW v \in Int
  PROVE  /\ Whole([r EXCEPT !.highest = v]) /\ [r EXCEPT !.highest = v].used = r.used
         /\ [r EXCEPT !.highest = v].remaining = r.remaining
BY DEF Whole, PositionObject

LEMMA Sold ==
  ASSUME NEW r, Whole(r), NEW n \in Nat, n <= r.remaining
  PROVE  LET left == [r EXCEPT !.remaining = @ - n, !.sold = @ + n]
         IN  /\ Whole(left) /\ left.used = r.used /\ left.stop = r.stop
             /\ left.remaining = r.remaining - n
<1> DEFINE left == [r EXCEPT !.remaining = @ - n, !.sold = @ + n]
<1>1. r \in PositionObject
  BY DEF Whole
<1>2. r.remaining \in Nat /\ r.sold \in Nat /\ r.used \in BOOLEAN
  BY <1>1 DEF PositionObject
<1>3. /\ left \in PositionObject /\ left.used = r.used /\ left.stop = r.stop
      /\ left.remaining = r.remaining - n /\ left.sold = r.sold + n
  <2> DEFINE a == r.remaining - n
             b == r.sold + n
  <2>1. a \in Nat /\ b \in Nat
    BY <1>2
  <2>2. left = [r EXCEPT !.remaining = a, !.sold = b]
    BY <1>1 DEF PositionObject
  <2> HIDE DEF a, b, left
  <2>3. /\ left \in PositionObject /\ left.used = r.used /\ left.stop = r.stop
        /\ left.remaining = a /\ left.sold = b
    BY <1>1, <2>1, <2>2 DEF PositionObject
  <2>4. QED
    BY <2>3 DEF a, b
<1>4. left.used => left.remaining + left.sold = Shares
  BY <1>2, <1>3, TrackerAssumption DEF Whole
<1>5. QED
  BY <1>3, <1>4 DEF Whole

-----------------------------------------------------------------------------
LEMMA TrackerStarts == TrackerInit => TrackerInv
<1> SUFFICES ASSUME TrackerInit PROVE TrackerInv
  OBVIOUS
<1>1. Free \in PositionObject /\ Free.used = FALSE
  <2>1. <<>> \in Seq(Nat)
    OBVIOUS
  <2>2. QED
    BY <2>1 DEF Free, PositionObject
<1>2. HeapInv
  BY <1>1 DEF TrackerInit, HeapInv, Whole
<1>3. OpenInv /\ ClosedInv /\ SavedInv
  <2>1. DOMAIN <<>> = {}
    OBVIOUS
  <2>2. QED
    BY <2>1 DEF TrackerInit, OpenInv, ClosedInv, SavedInv, Tracked, NoFile
<1>4. CallersInv
  BY DEF TrackerInit, CallersInv, CallerOK, CallerFields, Resting
<1>5. QED
  BY <1>2, <1>3, <1>4 DEF TrackerInv

(* A position is added with a free object.                                 *)
LEMMA AddInv == ASSUME TrackerInv, NEW id, AddPosition(id) PROVE TrackerInv'
<1> DEFINE o == CHOOSE x \in FreeObjects : TRUE
           r == [entry |-> Entry, stop |-> InitialStop, risk |-> Entry - InitialStop,
                 targets |-> Targets, highest |-> Entry,
                 remaining |-> Shares, sold |-> 0, used |-> TRUE]
<1>1. o \in FreeObjects
  BY DEF AddPosition
<1>2. o \in Objects /\ ~heap[o].used
  BY <1>1 DEF FreeObjects
<1>3. /\ heap' = [heap EXCEPT ![o] = r] /\ positions' = With(positions, id, o)
      /\ UNCHANGED <<closed, callers, saved>>
  BY DEF AddPosition
<1>4. Whole(r) /\ r \in PositionObject /\ r.used /\ r.remaining > 0
  BY NewObjectWhole DEF Whole
<1> HIDE DEF r, o
<1>5. /\ heap' \in [Objects -> PositionObject] /\ heap'[o] = r
      /\ \A x \in Objects \ {o} : heap'[x] = heap[x]
  BY <1>2, <1>3, <1>4 DEF TrackerInv, HeapInv
<1>6. HeapInv'
  BY <1>4, <1>5 DEF TrackerInv, HeapInv
<1>7. ClosedInv' /\ o \notin closed
  BY <1>2, <1>3, <1>5 DEF TrackerInv, ClosedInv
<1>8. \A i \in Tracked : positions[i] # o
  BY <1>2 DEF TrackerInv, OpenInv
<1>9. /\ Tracked' = Tracked \cup {id} /\ positions'[id] = o
      /\ \A i \in Tracked \ {id} : positions'[i] = positions[i]
  BY <1>3 DEF With, Tracked
<1>10. OpenInv'
  BY <1>2, <1>3, <1>4, <1>5, <1>7, <1>8, <1>9 DEF TrackerInv, OpenInv
<1>11. SavedInv' /\ CallersInv'
  BY <1>3 DEF TrackerInv, SavedInv, CallersInv
<1>12. QED
  BY <1>6, <1>7, <1>10, <1>11 DEF TrackerInv

(* A change of an object that leaves its shares alone disturbs nothing     *)
(* about objects, positions and the file.                                  *)
LEMMA SharesLeftAlone ==
  ASSUME TrackerInv, UNCHANGED <<positions, closed, saved>>,
         heap' \in [Objects -> PositionObject],
         \A o \in Objects : /\ Whole(heap'[o]) /\ heap'[o].used = heap[o].used
                            /\ heap'[o].remaining = heap[o].remaining
  PROVE  HeapInv' /\ OpenInv' /\ ClosedInv' /\ SavedInv'
<1>1. HeapInv'
  BY DEF HeapInv
<1>2. OpenInv'
  BY DEF TrackerInv, OpenInv, Tracked
<1>3. ClosedInv' /\ SavedInv'
  BY DEF TrackerInv, ClosedInv, SavedInv
<1>4. QED
  BY <1>1, <1>2, <1>3

LEMMA PriceInv ==
  ASSUME TrackerInv, NEW c \in Callers, NEW id \in Tracked, NEW price \in Nat,
         NEW old \in BOOLEAN, UpdatePositionPrice(c, id, price, old)
  PROVE  TrackerInv'
<1> DEFINE o == positions[id]
           top == IF price > heap[o].highest THEN price ELSE heap[o].highest
<1>1. o \in Objects /\ Whole(heap[o]) /\ heap \in [Objects -> PositionObject]
  BY DEF TrackerInv, OpenInv, HeapInv
<1>2. top \in Int
  BY <1>1 DEF PositionObject
<1>3. heap' = [heap EXCEPT ![o] = [heap[o] EXCEPT !.highest = top]]
  BY <1>1 DEF UpdatePositionPrice
<1> HIDE DEF top, o
<1>4. \A x \in Objects : /\ heap'[x] = IF x = o THEN [heap[o] EXCEPT !.highest = top] ELSE heap[x]
                         /\ Whole(heap[x])
  BY <1>1, <1>3 DEF TrackerInv, HeapInv
<1>5. ASSUME NEW x \in Objects
      PROVE  /\ Whole(heap'[x]) /\ heap'[x].used = heap[x].used
             /\ heap'[x].remaining = heap[x].remaining
  <2>1. CASE x = o
    <3>1. heap'[x] = [heap[x] EXCEPT !.highest = top] /\ Whole(heap[x])
      BY <1>4, <2>1
    <3>2. QED
      BY <1>2, <3>1, HighestTouched
  <2>2. CASE x # o
    BY <1>4, <2>2
  <2>3. QED
    BY <2>1, <2>2
<1>6. heap' \in [Objects -> PositionObject]
  BY <1>1, <1>3, <1>5 DEF Whole
<1>7. CallersInv'
  <2>1. callers' = [callers EXCEPT ![c] =
          [Resting EXCEPT !.at = "get", !.id = id, !.price = price,
                          !.alerts = CheckAlerts(heap[positions[id]], price, old)]]
    BY DEF UpdatePositionPrice
  <2>2. CallerOK([Resting EXCEPT !.at = "get", !.id = id, !.price = price,
                          !.alerts = CheckAlerts(heap[positions[id]], price, old)])
    BY DEF CallerOK, CallerFields, Resting
  <2>3. QED
    BY <2>1, <2>2 DEF TrackerInv, CallersInv
<1>8. QED
  BY <1>5, <1>6, <1>7, SharesLeftAlone DEF UpdatePositionPrice, TrackerInv

LEMMA EvaluateInv ==
  ASSUME TrackerInv, NEW c \in Callers, NEW ind \in Indicators, GetAndEvaluate(c, ind)
  PROVE  TrackerInv'
<1> DEFINE id == callers[c].id
           stops == IF id \in Tracked
                    THEN EvaluateStopAdjustment(heap[positions[id]], callers[c].price, ind)
                    ELSE {}
           applying == [callers[c] EXCEPT !.at = "apply", !.object = positions[id],
                          !.stop = CHOOSE s \in stops : TRUE,
                          !.seen = heap[positions[id]].stop]
<1>1. CallerOK(callers[c]) /\ DOMAIN callers = Callers
  BY DEF TrackerInv, CallersInv
<1>2. /\ callers' = [callers EXCEPT ![c] = IF stops = {} THEN Resting ELSE applying]
      /\ UNCHANGED <<heap, positions, closed, saved>>
  BY DEF GetAndEvaluate
<1>3. CallerOK(Resting)
  BY DEF CallerOK, CallerFields, Resting
<1>4. ASSUME stops # {} PROVE CallerOK(applying)
  <2>1. id \in Tracked /\ heap[positions[id]] \in PositionObject
    BY <1>4 DEF TrackerInv, OpenInv, HeapInv
  <2>2. ind \in IndicatorValues /\ callers[c].price \in Nat
    BY <1>1, TrackerInputs DEF CallerOK, IndicatorValues
  <2> DEFINE chosen == CHOOSE s \in stops : TRUE
             seen == heap[positions[id]].stop
  <2>3. chosen \in EvaluateStopAdjustment(heap[positions[id]], callers[c].price, ind)
    BY <1>4, <2>1
  <2> HIDE DEF stops, id
  <2>4. chosen \in Nat /\ chosen >= seen /\ seen \in Nat
    <3>1. chosen \in Int /\ chosen >= seen
      BY <2>1, <2>2, <2>3, NeverProposedLower
    <3>2. seen \in Nat
      BY <2>1 DEF PositionObject
    <3>3. QED
      BY <3>1, <3>2
  <2> HIDE DEF chosen, seen
  <2>5. CallerOK([callers[c] EXCEPT !.at = "apply", !.object = positions[id],
                          !.stop = chosen, !.seen = seen])
    BY <1>1, <2>4 DEF CallerOK, CallerFields
  <2>6. QED
    BY <2>5 DEF chosen, seen
<1> HIDE DEF stops, applying, id
<1>5. CallersInv'
  BY <1>1, <1>2, <1>3, <1>4 DEF TrackerInv, CallersInv
<1>6. QED
  BY <1>2, <1>5, SharesLeftAlone DEF TrackerInv, HeapInv

LEMMA ApplyInv ==
  ASSUME TrackerInv, NEW c \in Callers, ApplyAdjustment(c)
  PROVE  TrackerInv'
<1> DEFINE o == callers[c].object
           v == callers[c].stop
<1>1. v \in Nat
  BY DEF ApplyAdjustment, TrackerInv, CallersInv, CallerOK
<1>2. heap' = [heap EXCEPT ![o] = [heap[o] EXCEPT !.stop = v]]
  BY DEF ApplyAdjustment
<1>3. heap \in [Objects -> PositionObject] /\ \A x \in Objects : Whole(heap[x])
  BY DEF TrackerInv, HeapInv
<1> HIDE DEF o, v
<1>4. \A x \in Objects : heap'[x] = IF x = o THEN [heap[x] EXCEPT !.stop = v] ELSE heap[x]
  BY <1>2, <1>3
<1>5. ASSUME NEW x \in Objects
      PROVE  /\ Whole(heap'[x]) /\ heap'[x].used = heap[x].used
             /\ heap'[x].remaining = heap[x].remaining
  <2>1. CASE x = o
    <3>1. heap'[x] = [heap[x] EXCEPT !.stop = v] /\ Whole(heap[x])
      BY <1>3, <1>4, <2>1
    <3>2. QED
      BY <1>1, <3>1, StopTouched
  <2>2. CASE x # o
    BY <1>3, <1>4, <2>2
  <2>3. QED
    BY <2>1, <2>2
<1>6. heap' \in [Objects -> PositionObject]
  <2>1. heap' = [x \in Objects |-> heap'[x]]
    BY <1>2, <1>3
  <2>2. QED
    BY <1>5, <2>1 DEF Whole
<1>7. CallersInv'
  <2>1. CallerOK(Resting)
    BY DEF CallerOK, CallerFields, Resting
  <2>2. QED
    BY <2>1 DEF ApplyAdjustment, TrackerInv, CallersInv
<1>8. QED
  BY <1>5, <1>6, <1>7, SharesLeftAlone DEF ApplyAdjustment, TrackerInv

-----------------------------------------------------------------------------
(* A sale is refused, takes shares off an open position, or closes it.     *)
LEMMA SaleInv ==
  ASSUME TrackerInv, NEW id, NEW n \in Nat, SellShares(id, n), UNCHANGED saved
  PROVE  HeapInv' /\ OpenInv' /\ ClosedInv' /\ SavedInv'
<1> DEFINE o == positions[id]
<1>1. SavedInv'
  BY DEF TrackerInv, SavedInv
<1>2. CASE id \notin Tracked \/ ~EnoughShares(o, n)
  <2>1. UNCHANGED <<heap, positions, closed>>
    BY <1>2 DEF SellShares
  <2>2. QED
    BY <2>1, SharesLeftAlone DEF TrackerInv, HeapInv
<1>3. CASE id \in Tracked /\ EnoughShares(o, n)
  <2> DEFINE left == [heap[o] EXCEPT !.remaining = @ - n, !.sold = @ + n]
  <2>1. /\ o \in Objects /\ Whole(heap[o]) /\ heap \in [Objects -> PositionObject]
        /\ heap[o].used /\ heap[o].remaining \in Nat /\ n <= heap[o].remaining
    BY <1>3 DEF TrackerInv, OpenInv, HeapInv, EnoughShares, PositionObject
  <2>2. heap' = [heap EXCEPT ![o] = left]
    BY <1>3, <2>1 DEF SellShares
  <2>3. Whole(left) /\ left.used /\ left.remaining = heap[o].remaining - n
    BY <2>1, Sold
  <2> HIDE DEF left, o
  <2>4. /\ heap' \in [Objects -> PositionObject] /\ heap'[o] = left
        /\ \A x \in Objects \ {o} : heap'[x] = heap[x]
    BY <2>1, <2>2, <2>3 DEF Whole
  <2>5. HeapInv'
    BY <2>3, <2>4 DEF TrackerInv, HeapInv
  <2>6. \A i \in Tracked \ {id} : positions[i] # o
    BY <1>3 DEF TrackerInv, OpenInv, o
  <2>7. o \notin closed
    BY <1>3 DEF TrackerInv, OpenInv, o
  <2>8. CASE heap[o].remaining = n
    <3>1. closed' = closed \cup {o} /\ positions' = Without(positions, id)
      BY <1>3, <2>8 DEF SellShares, o
    <3>2. left.remaining = 0
      BY <2>1, <2>3, <2>8
    <3>3. ClosedInv'
      BY <2>1, <2>3, <2>4, <3>1, <3>2 DEF TrackerInv, ClosedInv
    <3>4. Tracked' = Tracked \ {id} /\ \A i \in Tracked' : positions'[i] = positions[i]
      BY <3>1 DEF Without, Tracked
    <3>5. OpenInv'
      BY <2>4, <2>6, <3>1, <3>4 DEF TrackerInv, OpenInv
    <3>6. QED
      BY <1>1, <2>5, <3>3, <3>5
  <2>9. CASE heap[o].remaining # n
    <3>1. UNCHANGED <<closed, positions>>
      BY <1>3, <2>9 DEF SellShares, o
    <3>2. left.remaining > 0
      BY <2>1, <2>3, <2>9
    <3>3. ClosedInv'
      BY <2>4, <2>7, <3>1 DEF TrackerInv, ClosedInv
    <3>4. OpenInv'
      BY <2>3, <2>4, <2>6, <3>1, <3>2 DEF TrackerInv, OpenInv, Tracked
    <3>5. QED
      BY <1>1, <2>5, <3>3, <3>4
  <2>10. QED
    BY <2>8, <2>9
<1>4. QED
  BY <1>2, <1>3

LEMMA CloseInv ==
  ASSUME TrackerInv, NEW c \in Callers,
         (\E id \in Tracked : ClosePosition(c, id)) \/ ClosePositionSells(c)
  PROVE  TrackerInv'
<1>1. ASSUME NEW id \in Tracked, ClosePosition(c, id) PROVE TrackerInv'
  <2> DEFINE n == heap[positions[id]].remaining
  <2>1. n \in Nat
    BY DEF TrackerInv, OpenInv, HeapInv, PositionObject
  <2>2. /\ callers' = [callers EXCEPT ![c] = [Resting EXCEPT !.at = "close", !.id = id,
                                                             !.shares = n]]
        /\ UNCHANGED <<heap, positions, closed, saved>>
    BY <1>1 DEF ClosePosition
  <2> HIDE DEF n
  <2>3. CallerOK([Resting EXCEPT !.at = "close", !.id = id, !.shares = n])
    BY <2>1 DEF CallerOK, CallerFields, Resting
  <2>4. CallersInv'
    BY <2>2, <2>3 DEF TrackerInv, CallersInv
  <2>5. QED
    BY <2>2, <2>4, SharesLeftAlone DEF TrackerInv, HeapInv
<1>2. CASE ClosePositionSells(c)
  <2>1. callers[c].shares \in Nat
    BY DEF TrackerInv, CallersInv, CallerOK
  <2>2. CallerOK(Resting)
    BY DEF CallerOK, CallerFields, Resting
  <2>3. CallersInv'
    BY <1>2, <2>2 DEF ClosePositionSells, TrackerInv, CallersInv
  <2>4. HeapInv' /\ OpenInv' /\ ClosedInv' /\ SavedInv'
    BY <1>2, <2>1, SaleInv DEF ClosePositionSells
  <2>5. QED
    BY <2>3, <2>4 DEF TrackerInv
<1>3. QED
  BY <1>1, <1>2

-----------------------------------------------------------------------------
(* The file is a copy of the open positions, and loading it gives each of  *)
(* them an object nobody uses.                                             *)
LEMMA SaveInv == ASSUME TrackerInv, SavePositions PROVE TrackerInv'
<1>1. /\ saved'.open = [id \in Tracked |-> heap[positions[id]]]
      /\ UNCHANGED <<heap, positions, closed, callers>>
  BY DEF SavePositions
<1>2. SavedInv'
  BY <1>1 DEF TrackerInv, SavedInv, OpenInv, HeapInv
<1>3. QED
  BY <1>1, <1>2 DEF TrackerInv, HeapInv, OpenInv, ClosedInv, CallersInv, Tracked

LEMMA LoadInv == ASSUME TrackerInv, LoadPositions PROVE TrackerInv'
<1>1. PICK f \in [DOMAIN saved.open -> FreeObjects] :
        /\ \A i, j \in DOMAIN f : f[i] = f[j] => i = j
        /\ positions' = f
        /\ heap' = [o \in Objects |->
             IF \E i \in DOMAIN f : f[i] = o
             THEN saved.open[CHOOSE i \in DOMAIN f : f[i] = o] ELSE heap[o]]
  BY DEF LoadPositions
<1>2. closed' = {} /\ UNCHANGED <<callers, saved>>
  BY DEF LoadPositions
<1>3. DOMAIN f = DOMAIN saved.open /\ \A i \in DOMAIN f : f[i] \in Objects
  BY DEF FreeObjects
<1>4. ASSUME NEW i \in DOMAIN f PROVE heap'[f[i]] = saved.open[i]
  <2>1. (CHOOSE j \in DOMAIN f : f[j] = f[i]) = i
    BY <1>1, <1>4
  <2>2. QED
    BY <1>1, <1>3, <1>4, <2>1
<1>5. ASSUME NEW o \in Objects PROVE Whole(heap'[o])
  <2>1. CASE \E i \in DOMAIN f : f[i] = o
    BY <1>3, <1>4, <2>1 DEF TrackerInv, SavedInv
  <2>2. CASE ~\E i \in DOMAIN f : f[i] = o
    BY <1>1, <1>5, <2>2 DEF TrackerInv, HeapInv
  <2>3. QED
    BY <2>1, <2>2
<1>6. HeapInv'
  BY <1>1, <1>5 DEF HeapInv, Whole
<1>7. OpenInv'
  BY <1>1, <1>2, <1>3, <1>4 DEF OpenInv, Tracked, TrackerInv, SavedInv
<1>8. ClosedInv' /\ SavedInv' /\ CallersInv'
  BY <1>2 DEF TrackerInv, ClosedInv, SavedInv, CallersInv
<1>9. QED
  BY <1>6, <1>7, <1>8 DEF TrackerInv

LEMMA TrackerStep == TrackerInv /\ [TrackerNext]_trackerVars => TrackerInv'
<1> SUFFICES ASSUME TrackerInv, [TrackerNext]_trackerVars PROVE TrackerInv'
  OBVIOUS
<1>1. CASE \E id \in Ids : AddPosition(id)
  BY <1>1, AddInv
<1>2. CASE \E c \in Callers, id \in Tracked, price \in Prices, ind \in Indicators :
             UpdatePositionPrice(c, id, price, ind.old)
  <2>1. PICK c \in Callers, id \in Tracked, price \in Prices, ind \in Indicators :
          UpdatePositionPrice(c, id, price, ind.old)
    BY <1>2
  <2>2. price \in Nat /\ ind.old \in BOOLEAN
    BY TrackerInputs
  <2>3. QED
    BY <2>1, <2>2, PriceInv
<1>3. CASE \E c \in Callers, ind \in Indicators : GetAndEvaluate(c, ind)
  BY <1>3, EvaluateInv
<1>4. CASE \E c \in Callers : ApplyAdjustment(c)
  BY <1>4, ApplyInv
<1>5. CASE \E id \in Tracked, n \in 1..Shares : PartialExit(id, n)
  <2>1. PICK id \in Tracked, n \in 1..Shares : PartialExit(id, n)
    BY <1>5
  <2>2. n \in Nat
    BY TrackerAssumption
  <2>3. HeapInv' /\ OpenInv' /\ ClosedInv' /\ SavedInv'
    BY <2>1, <2>2, SaleInv DEF PartialExit
  <2>4. CallersInv'
    BY <2>1 DEF PartialExit, TrackerInv, CallersInv
  <2>5. QED
    BY <2>3, <2>4 DEF TrackerInv
<1>6. CASE \/ \E c \in Callers, id \in Tracked : ClosePosition(c, id)
           \/ \E c \in Callers : ClosePositionSells(c)
  BY <1>6, CloseInv
<1>7. CASE SavePositions \/ LoadPositions
  BY <1>7, SaveInv, LoadInv
<1>8. CASE UNCHANGED trackerVars
  BY <1>8 DEF trackerVars, TrackerInv, HeapInv, OpenInv, ClosedInv, SavedInv, CallersInv, Tracked
<1>9. QED
  BY <1>1, <1>2, <1>3, <1>4, <1>5, <1>6, <1>7, <1>8 DEF TrackerNext

LEMMA TrackerInvariant == TrackerSpec => []TrackerInv
BY TrackerStarts, TrackerStep, PTL DEF TrackerSpec

(* No order of partial exits, closes, same-second additions and loads      *)
(* sells a share twice or loses one.                                       *)
THEOREM SharesKept == TrackerSpec => []SharesAddUp
<1>1. TrackerInv => SharesAddUp
  BY DEF TrackerInv, HeapInv, OpenInv, ClosedInv, Whole, SharesAddUp
<1>2. QED
  BY TrackerInvariant, <1>1, PTL

(* Only a stop that was computed from an older one can come down.          *)
THEOREM OnlyRacesLower == TrackerSpec => StopLoweredByRaceOnly
<1> DEFINE Explained ==
      \A o \in Objects :
       heap[o].used /\ heap'[o].stop < heap[o].stop
         => \E c \in Callers : /\ callers[c].at = "apply" /\ callers[c].object = o
                               /\ callers[c].seen < heap[o].stop
<1>1. TrackerInv /\ [TrackerNext]_trackerVars => [Explained]_trackerVars
  <2> SUFFICES ASSUME TrackerInv, TrackerNext, NEW o \in Objects,
                      heap[o].used, heap'[o].stop < heap[o].stop
               PROVE  \E c \in Callers : /\ callers[c].at = "apply" /\ callers[c].object = o
                                         /\ callers[c].seen < heap[o].stop
    OBVIOUS
  <2>0. heap \in [Objects -> PositionObject] /\ heap[o].stop \in Int /\ Whole(heap[o])
    BY DEF TrackerInv, HeapInv, PositionObject
  <2> SUFFICES ASSUME NEW c \in Callers, ApplyAdjustment(c), callers[c].object = o
               PROVE  callers[c].seen < heap[o].stop
    <3>1. ASSUME UNCHANGED heap PROVE FALSE
      BY <2>0, <3>1
    <3>2. ASSUME NEW id, AddPosition(id) PROVE FALSE
      <4>1. heap'[o] = heap[o]
        <5> DEFINE x == CHOOSE x \in FreeObjects : TRUE
        <5>1. x \in FreeObjects
          BY <3>2 DEF AddPosition
        <5>2. x # o
          BY <5>1 DEF FreeObjects
        <5> HIDE DEF x
        <5>3. QED
          BY <2>0, <3>2, <5>2 DEF AddPosition, x
      <4>2. QED
        BY <2>0, <4>1
    <3>3. ASSUME NEW k \in Callers, NEW id \in Tracked, NEW price \in Prices,
                 NEW ind \in Indicators, UpdatePositionPrice(k, id, price, ind.old)
          PROVE  FALSE
      <4>1. heap'[o].stop = heap[o].stop
        BY <2>0, <3>3 DEF UpdatePositionPrice, PositionObject
      <4>2. QED
        BY <2>0, <4>1
    <3>4. ASSUME NEW id, NEW n, SellShares(id, n) PROVE FALSE
      <4>1. heap'[o].stop = heap[o].stop
        <5> DEFINE x == positions[id]
        <5>1. \/ heap' = heap
              \/ heap' = [heap EXCEPT ![x].remaining = @ - n, ![x].sold = @ + n]
          BY <3>4 DEF SellShares
        <5> HIDE DEF x
        <5>2. heap[o] \in PositionObject
          BY <2>0
        <5>3. CASE heap' = [heap EXCEPT ![x].remaining = @ - n, ![x].sold = @ + n]
          <6>1. CASE x = o
            <7>1. heap' = [heap EXCEPT ![o] = [heap[o] EXCEPT !.remaining = @ - n, !.sold = @ + n]]
              BY <2>0, <5>3, <6>1
            <7>2. heap'[o] = [heap[o] EXCEPT !.remaining = @ - n, !.sold = @ + n]
              BY <2>0, <7>1
            <7>3. QED
              BY <5>2, <7>2 DEF PositionObject
          <6>2. CASE x # o
            BY <2>0, <5>3, <6>2
          <6>3. QED
            BY <6>1, <6>2
        <5>4. QED
          BY <5>1, <5>3
      <4>2. QED
        BY <2>0, <4>1
    <3>5. ASSUME LoadPositions PROVE FALSE
      <4>1. heap'[o] = heap[o]
        <5>1. PICK f \in [DOMAIN saved.open -> FreeObjects] :
                heap' = [x \in Objects |->
                  IF \E i \in DOMAIN f : f[i] = x
                  THEN saved.open[CHOOSE i \in DOMAIN f : f[i] = x] ELSE heap[x]]
          BY <3>5 DEF LoadPositions
        <5>2. ~\E i \in DOMAIN f : f[i] = o
          BY DEF FreeObjects
        <5>3. QED
          BY <5>1, <5>2
      <4>2. QED
        BY <2>0, <4>1
    <3>6. ASSUME NEW k \in Callers, ApplyAdjustment(k), callers[k].object # o PROVE FALSE
      <4>1. heap'[o] = heap[o]
        BY <2>0, <3>6 DEF ApplyAdjustment
      <4>2. QED
        BY <2>0, <4>1
    <3>7. PICK k \in Callers : ApplyAdjustment(k)
      BY <3>1, <3>2, <3>3, <3>4, <3>5
         DEF TrackerNext, GetAndEvaluate, PartialExit, ClosePosition, ClosePositionSells,
             SavePositions
    <3>8. QED
      BY <3>6, <3>7 DEF ApplyAdjustment
  <2>1. heap'[o].stop = callers[c].stop
    BY <2>0 DEF ApplyAdjustment, PositionObject
  <2>2. /\ callers[c].stop \in Int /\ callers[c].seen \in Int
        /\ callers[c].stop >= callers[c].seen
    BY DEF ApplyAdjustment, TrackerInv, CallersInv, CallerOK
  <2>3. QED
    BY <2>0, <2>1, <2>2
<1>2. QED
  BY TrackerInvariant, <1>1, PTL DEF TrackerSpec, StopLoweredByRaceOnly

(* Positions are known by ids of AddPosition, in memory and in the file.   *)
IdsInv == Tracked \subseteq Ids /\ DOMAIN saved.open \subseteq Ids

LEMMA IdsStep == IdsInv /\ [TrackerNext]_trackerVars => IdsInv'
<1> SUFFICES ASSUME IdsInv, [TrackerNext]_trackerVars PROVE IdsInv'
  OBVIOUS
<1>1. ASSUME NEW id \in Ids, AddPosition(id) PROVE IdsInv'
  <2>1. Tracked' = Tracked \cup {id} /\ saved' = saved
    BY <1>1 DEF AddPosition, With, Tracked
  <2>2. QED
    BY <2>1 DEF IdsInv
<1>2. ASSUME NEW id, NEW n, SellShares(id, n), UNCHANGED saved PROVE IdsInv'
  BY <1>2 DEF SellShares, Without, IdsInv, Tracked
<1>3. CASE \E c \in Callers, id \in Tracked, price \in Prices, ind \in Indicators :
             UpdatePositionPrice(c, id, price, ind.old)
  BY <1>3 DEF UpdatePositionPrice, IdsInv, Tracked
<1>4. CASE \E c \in Callers, ind \in Indicators : GetAndEvaluate(c, ind)
  BY <1>4 DEF GetAndEvaluate, IdsInv, Tracked
<1>5. CASE \E c \in Callers : ApplyAdjustment(c)
  BY <1>5 DEF ApplyAdjustment, IdsInv, Tracked
<1>6. CASE \E c \in Callers, id \in Tracked : ClosePosition(c, id)
  BY <1>6 DEF ClosePosition, IdsInv, Tracked
<1>7. CASE SavePositions
  BY <1>7 DEF SavePositions, IdsInv, Tracked
<1>8. CASE LoadPositions
  BY <1>8 DEF LoadPositions, IdsInv, Tracked
<1>9. CASE UNCHANGED trackerVars
  BY <1>9 DEF trackerVars, IdsInv, Tracked
<1>10. QED
  BY <1>1, <1>2, <1>3, <1>4, <1>5, <1>6, <1>7, <1>8, <1>9
     DEF TrackerNext, PartialExit, ClosePositionSells

(* No stop and no number of shares is ever negative, and every position is *)
(* an object of the heap (position_tracker.go).                            *)
THEOREM TrackerTypeCorrect == TrackerSpec => []TrackerTypeOK
<1>1. TrackerInit => IdsInv
  BY DEF TrackerInit, IdsInv, Tracked, NoFile
<1>2. TrackerInv /\ IdsInv => TrackerTypeOK
  BY DEF TrackerInv, HeapInv, OpenInv, ClosedInv, IdsInv, TrackerTypeOK, PositionObject
<1>3. QED
  BY TrackerInvariant, IdsStep, <1>1, <1>2, PTL DEF TrackerSpec
=============================================================================
