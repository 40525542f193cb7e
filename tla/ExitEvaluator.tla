--------------------------- MODULE ExitEvaluator ---------------------------
(***************************************************************************)
(* The daily exit evaluator (cmd/exit-evaluator), its decision engine      *)
(* (internal/position/exit_engine.go) and its order executor               *)
(* (internal/trading/exit_executor.go).                                    *)
(*                                                                         *)
(* One run is a process of its own: it reads every open row of the table   *)
(* positions once, then takes the rows one by one: quote, floor counter,   *)
(* decision, sell order, update of the row.  Nothing locks the table and   *)
(* nothing stops a second run, so Runners is the set of processes that may *)
(* be alive together.  A run can die between any two of its steps, and     *)
(* every call it makes can fail; MaxFaults bounds how often that happens.  *)
(* The holder may close a position by hand at any time.                    *)
(*                                                                         *)
(* The quote is abstracted to what the code compares: whether the price is *)
(* at the floor, how many profit targets it clears, and which emergency    *)
(* thresholds the floor-hit probability exceeds.                           *)
(***************************************************************************)
EXTENDS Integers, Functions

CONSTANTS
  Positions,      \* ids of the rows the table may hold
  Runners,        \* processes running cmd/exit-evaluator
  Quantity,       \* Quantity[p]: shares bought when p is opened
  NullTargets,    \* rows opened with NULL target_1..3 (the bot sets none)
  TradingDays,    \* the calendar days on which the exchange is open
  MaxDay,         \* bound: last calendar day of a behaviour
  MaxFaults,      \* bound: crashes and failed calls in a behaviour
  NoDate,         \* SQL NULL for last_floor_date
  NoOrder         \* a runner that has no decision in hand

Days == 0 .. MaxDay

(* What is compared with the emergency threshold, 30.0 or 15.0 when the    *)
(* VN-Index drop is critical: at most 15, at most 30, above 30, as the ML  *)
(* service says, or 10 when it fails, or 100 in a foreign-limit emergency. *)
Risks == {"low", "elevated", "high"}

(* How many profit targets the price clears: target 2 (+25% AND target_2)  *)
(* is never reached without target 1 (+15% OR target_1).                   *)
Gains == 0 .. 2

(* filled holds 1 when target1_filled, 2 when target2_filled is TRUE. *)
Row == [status : {"absent", "open", "closed"}, quantity : Nat,
        filled : SUBSET {1, 2},
        floorHitDays : Nat, lastFloorDate : Days \cup {NoDate}]

Order == [pos : Positions, level : 0 .. 2, shares : Nat]

ASSUME QuantityAssumption == Quantity \in [Positions -> Nat \ {0}]
ASSUME BoundsAssumption == MaxDay \in Nat /\ MaxFaults \in Nat
ASSUME NullTargetsAssumption == NullTargets \subseteq Positions
ASSUME TradingDaysAssumption == TradingDays \subseteq Days
ASSUME NoDateAssumption == NoDate \notin Int
ASSUME NoOrderAssumption == NoOrder \notin Order

VARIABLES
  positions,    \* the table positions
  booked,       \* booked[p]: shares of p sold in exits its row accounts for
  tranches,     \* tranches[p]: target exits of p the broker has filled
  floorSeen,    \* floorSeen[p]: days on which a run saw p at its floor
  today,        \* the calendar day
  faults,       \* crashes and failed calls so far
  overlapped,   \* two runs have been alive at the same time
  phase,        \* phase[r]: where process r stands
  runDay,       \* runDay[r]: "today" as captured when the run started
  tightened,    \* tightened[r]: emergency threshold is 15.0, not 30.0
  queue,        \* queue[r]: rows still to evaluate, as the run read them
  order         \* order[r]: the decision being executed

table   == <<positions, floorSeen>>
ledger  == <<booked, tranches>>
runner  == <<phase, runDay, tightened, queue, order>>
vars    == <<positions, booked, tranches, floorSeen, today, faults, overlapped,
             phase, runDay, tightened, queue, order>>

NoRow == [status |-> "absent", quantity |-> 0, filled |-> {},
          floorHitDays |-> 0, lastFloorDate |-> NoDate]

EmptyQueue == [p \in {} |-> NoRow]

NewRow(p) == [NoRow EXCEPT !.status = "open", !.quantity = Quantity[p]]

Open == {p \in Positions : positions[p].status = "open"}

Active == {r \in Runners : phase[r] \notin {"idle", "fatal"}}

Fault == faults < MaxFaults /\ faults' = faults + 1

Init ==
  /\ positions = [p \in Positions |-> NoRow]
  /\ booked    = [p \in Positions |-> 0]
  /\ tranches  = [p \in Positions |-> 0]
  /\ floorSeen = [p \in Positions |-> {}]
  /\ today = 0
  /\ faults = 0
  /\ overlapped = FALSE
  /\ phase     = [r \in Runners |-> "idle"]
  /\ runDay    = [r \in Runners |-> 0]
  /\ tightened = [r \in Runners |-> FALSE]
  /\ queue     = [r \in Runners |-> EmptyQueue]
  /\ order     = [r \in Runners |-> NoOrder]

-----------------------------------------------------------------------------
(* The decision engine: pure functions of one row and one quote.           *)

CalculateExitShares(initialShares, percentage) ==
  (initialShares * percentage) \div 100

(* Seeded faults, used nowhere in the specification: a gap that does not   *)
(* reset the counter, one that is subtracted from it, a second hit on one  *)
(* day that counts again.                                                  *)
CheckFloorHit_GapCounts(row, atFloor, day) ==
  IF atFloor THEN [row EXCEPT !.floorHitDays = @ + 1, !.lastFloorDate = day]
  ELSE row

CheckFloorHit_GapSubtracts(row, atFloor, day) ==
  LET count == IF row.lastFloorDate = NoDate THEN 1
               ELSE IF row.lastFloorDate = day - 1 THEN row.floorHitDays + 1
               ELSE row.floorHitDays - (day - row.lastFloorDate)
  IN IF atFloor
     THEN [row EXCEPT !.floorHitDays = count, !.lastFloorDate = day]
     ELSE row

CheckFloorHit_SameDayCounts(row, atFloor, day) ==
  IF ~atFloor THEN row
  ELSE [row EXCEPT !.lastFloorDate = day,
          !.floorHitDays = IF row.lastFloorDate \in {day - 1, day} THEN @ + 1 ELSE 1]

CheckFloorHit(row, atFloor, day) ==
  LET count == IF row.lastFloorDate = day THEN row.floorHitDays
               ELSE IF row.lastFloorDate = day - 1 THEN row.floorHitDays + 1
               ELSE 1
  IN IF atFloor
     THEN [row EXCEPT !.floorHitDays = count, !.lastFloorDate = day]
     ELSE row

(* Seeded fault: > 3 for >= 3. *)
CheckEmergencyExit_AfterThree(row, risk, tight) ==
  risk = "high" \/ (tight /\ risk = "elevated") \/ row.floorHitDays > 3

CheckEmergencyExit(row, risk, tight) ==
  risk = "high" \/ (tight /\ risk = "elevated") \/ row.floorHitDays >= 3

(* Seeded fault: the flag of target 1 is not looked at. *)
ShouldExitTarget1_Again(row, gain) == gain >= 1

ShouldExitTarget1(row, gain) == 1 \notin row.filled /\ gain >= 1

ShouldExitTarget2(row, gain) ==
  1 \in row.filled /\ 2 \notin row.filled /\ gain >= 2

(* InitialShares and CurrentShares are the same column, quantity.  Target  *)
(* 3 is not implemented in the code: nothing is decided for it.            *)
EvaluatePosition(p, row, gain, risk, tight) ==
  LET Exit(level, shares) == [pos |-> p, level |-> level, shares |-> shares]
  IN IF CheckEmergencyExit(row, risk, tight) THEN Exit(0, row.quantity)
     ELSE IF ShouldExitTarget1(row, gain)
          THEN Exit(1, CalculateExitShares(row.quantity, 30))
     ELSE IF ShouldExitTarget2(row, gain)
          THEN Exit(2, CalculateExitShares(row.quantity, 30))
     ELSE NoOrder

-----------------------------------------------------------------------------
(* One run of the process.                                                 *)

NextPosition(r, p) == queue' = [queue EXCEPT ![r] = Restrict(@, DOMAIN @ \ {p})]

StopRun(r, outcome) ==
  /\ phase' = [phase EXCEPT ![r] = outcome]
  /\ runDay' = [runDay EXCEPT ![r] = 0]
  /\ tightened' = [tightened EXCEPT ![r] = FALSE]
  /\ queue' = [queue EXCEPT ![r] = EmptyQueue]
  /\ order' = [order EXCEPT ![r] = NoOrder]

(* A critical drop of the VN-Index halves the threshold; a failed call     *)
(* leaves it alone.                                                        *)
CheckVNIndexDrop(r) ==
  \E critical \in BOOLEAN : tightened' = [tightened EXCEPT ![r] = critical]

(* The process starts, reads all open rows, and asks for the VN-Index. The *)
(* clock is read right after, and taken to show the day of the read.       *)
GetOpenPositionsWithExitTracking(r) ==
  /\ r \notin Active
  /\ Open \cap NullTargets = {}
  /\ phase' = [phase EXCEPT ![r] = "evaluating"]
  /\ runDay' = [runDay EXCEPT ![r] = today]
  /\ CheckVNIndexDrop(r)
  /\ queue' = [queue EXCEPT ![r] = Restrict(positions, Open)]
  /\ overlapped' = (overlapped \/ Active # {})
  /\ UNCHANGED <<table, ledger, today, faults, order>>

(* A NULL target cannot be scanned into a float64: the whole read fails    *)
(* and the process ends in log.Fatalf.                                     *)
ScanFails(r) ==
  /\ r \notin Active
  /\ Open \cap NullTargets # {}
  /\ phase' = [phase EXCEPT ![r] = "fatal"]
  /\ UNCHANGED <<table, ledger, today, faults, overlapped, runDay, tightened,
                 queue, order>>

(* The read of the table fails for another reason: log.Fatalf as well.     *)
QueryFails(r) ==
  /\ r \notin Active
  /\ Fault
  /\ phase' = [phase EXCEPT ![r] = "fatal"]
  /\ UNCHANGED <<table, ledger, today, overlapped, runDay, tightened, queue,
                 order>>

(* GetSymbolInfo fails: the position is skipped and counted as an error.   *)
GetSymbolInfoFails(r, p) ==
  /\ phase[r] = "evaluating" /\ p \in DOMAIN queue[r]
  /\ Fault
  /\ NextPosition(r, p)
  /\ UNCHANGED <<table, ledger, today, overlapped, phase, runDay, tightened,
                 order>>

UpdateFloorCounter(p, row) ==
  positions' = [positions EXCEPT ![p].floorHitDays = row.floorHitDays,
                                 ![p].lastFloorDate = row.lastFloorDate]

(* The floor counter, written through when the price is at the floor; a    *)
(* failed write is logged and the decision uses the counter in memory.     *)
SaveFloorHit(p, row, atFloor, day) ==
  \/ /\ atFloor
     /\ floorSeen' = [floorSeen EXCEPT ![p] = @ \cup {day}]
     /\ \/ UpdateFloorCounter(p, row) /\ UNCHANGED faults
        \/ Fault /\ UNCHANGED positions
  \/ ~atFloor /\ UNCHANGED <<table, faults>>

(* evaluateOne up to the decision.  A decision for no shares at all is an  *)
(* error of ExecuteExit and leaves the row as it is.                       *)
EvaluateOne(r, p) ==
  /\ phase[r] = "evaluating" /\ p \in DOMAIN queue[r]
  /\ \E atFloor \in BOOLEAN, gain \in Gains, risk \in Risks :
       LET row == CheckFloorHit(queue[r][p], atFloor, runDay[r])
           decision == EvaluatePosition(p, row, gain, risk, tightened[r])
       IN /\ SaveFloorHit(p, row, atFloor, runDay[r])
          /\ IF decision # NoOrder /\ decision.shares > 0
             THEN /\ order' = [order EXCEPT ![r] = decision]
                  /\ phase' = [phase EXCEPT ![r] = "decided"]
             ELSE UNCHANGED <<order, phase>>
  /\ NextPosition(r, p)
  /\ UNCHANGED <<ledger, today, overlapped, runDay, tightened>>

(* Seeded fault: an order the broker will not take is retried for ever.    *)
ExecuteExit_NoRetryLimit(r) ==
  /\ phase[r] = "decided"
  /\ order[r].shares > 3
  /\ tranches' = [tranches EXCEPT ![order[r].pos] =
                    IF order[r].level = 0 THEN @ ELSE @ + 1]
  /\ phase' = [phase EXCEPT ![r] = "ordered"]
  /\ UNCHANGED <<table, booked, today, faults, overlapped, runDay, tightened,
                 queue, order>>

(* ExecuteExit: the executor simulates the broker, which fills every order *)
(* in full.                                                                *)
ExecuteExit(r) ==
  /\ phase[r] = "decided"
  /\ tranches' = [tranches EXCEPT ![order[r].pos] =
                    IF order[r].level = 0 THEN @ ELSE @ + 1]
  /\ phase' = [phase EXCEPT ![r] = "ordered"]
  /\ UNCHANGED <<table, booked, today, faults, overlapped, runDay, tightened,
                 queue, order>>

(* Seeded faults: the update of a target leaves its flag alone, or saves   *)
(* is_closed as the run had read it.                                       *)
ExitedRow_NoFlag(row, o) ==
  LET left == IF row.quantity > o.shares THEN row.quantity - o.shares ELSE 0
  IN IF o.level = 0 THEN [row EXCEPT !.status = "closed", !.quantity = 0]
     ELSE [row EXCEPT !.quantity = left]

ExitedRow_Reopens(row, o) ==
  IF o.level = 0 THEN [row EXCEPT !.status = "closed", !.quantity = 0]
  ELSE [row EXCEPT !.status = "open", !.filled = @ \cup {o.level}]

ExitedRow(row, o) ==
  LET left == IF row.quantity > o.shares THEN row.quantity - o.shares ELSE 0
  IN IF o.level = 0 THEN [row EXCEPT !.status = "closed", !.quantity = 0]
     ELSE [row EXCEPT !.filled = @ \cup {o.level}, !.quantity = left]

(* Seeded fault: the table has no CHECK on quantity. *)
QuantityPositive_Missing(row) == TRUE

(* CHECK chk_positions_quantity_positive: no statement may leave a row of  *)
(* positions, open or closed, without shares.                              *)
QuantityPositive(row) == row.quantity > 0

(* The UPDATE finds the row by id alone: it neither looks at is_closed nor *)
(* at what the run had read.  The table refuses it when no share is left,  *)
(* which is always so after an emergency exit; like any failed UPDATE that *)
(* is logged, the loop goes on, and the order stands.                      *)
UpdateExitTracking(r) ==
  /\ phase[r] = "ordered"
  /\ LET o == order[r]
         row == ExitedRow(positions[o.pos], o)
     IN IF QuantityPositive(row)
        THEN /\ positions' = [positions EXCEPT ![o.pos] = row]
             /\ booked' = [booked EXCEPT ![o.pos] = @ + o.shares]
        ELSE UNCHANGED <<positions, booked>>
  /\ order' = [order EXCEPT ![r] = NoOrder]
  /\ phase' = [phase EXCEPT ![r] = "evaluating"]
  /\ UNCHANGED <<tranches, floorSeen, today, faults, overlapped, runDay,
                 tightened, queue>>

(* The UPDATE does not reach the table: the same, and the row stays as it  *)
(* was.                                                                    *)
UpdateExitTrackingFails(r) ==
  /\ phase[r] = "ordered"
  /\ Fault
  /\ order' = [order EXCEPT ![r] = NoOrder]
  /\ phase' = [phase EXCEPT ![r] = "evaluating"]
  /\ UNCHANGED <<table, ledger, today, overlapped, runDay, tightened, queue>>

Finish(r) ==
  /\ phase[r] = "evaluating" /\ DOMAIN queue[r] = {}
  /\ StopRun(r, "idle")
  /\ UNCHANGED <<table, ledger, today, faults, overlapped>>

(* The process is killed; all it had in memory is gone.                    *)
Crash(r) ==
  /\ r \in Active
  /\ Fault
  /\ StopRun(r, "idle")
  /\ UNCHANGED <<table, ledger, today, overlapped>>

-----------------------------------------------------------------------------
(* Around the evaluator, also while a run is alive: a row is inserted, with*)
(* targets by a script of ml-service, with NULL targets by the bot; the    *)
(* holder's sale by hand closes it and leaves the quantity in the row, the *)
(* calendar moves on.  Buying more of an open position is in               *)
(* PositionLedger.                                                         *)

OpenPosition(p) ==
  /\ positions[p].status = "absent"
  /\ positions' = [positions EXCEPT ![p] = NewRow(p)]
  /\ UNCHANGED <<ledger, floorSeen, today, faults, overlapped, runner>>

ClosePosition(p) ==
  /\ positions[p].status = "open"
  /\ positions' = [positions EXCEPT ![p].status = "closed"]
  /\ UNCHANGED <<ledger, floorSeen, today, faults, overlapped, runner>>

NextDay ==
  /\ today < MaxDay
  /\ today' = today + 1
  /\ UNCHANGED <<table, ledger, faults, overlapped, runner>>

-----------------------------------------------------------------------------
Start(r) == GetOpenPositionsWithExitTracking(r) \/ ScanFails(r)

(* What a process does when no call fails. *)
Step(r) ==
  \/ Start(r)
  \/ \E p \in Positions : EvaluateOne(r, p)
  \/ ExecuteExit(r)
  \/ UpdateExitTracking(r)
  \/ Finish(r)

Failure(r) ==
  \/ QueryFails(r)
  \/ \E p \in Positions : GetSymbolInfoFails(r, p)
  \/ UpdateExitTrackingFails(r)
  \/ Crash(r)

Environment == NextDay \/ \E p \in Positions : OpenPosition(p) \/ ClosePosition(p)

Next == (\E r \in Runners : Step(r) \/ Failure(r)) \/ Environment

Spec == Init /\ [][Next]_vars

(* The scheduler starts the process again and again, and a live process    *)
(* takes its next step; nothing says when a call fails or the day ends.    *)
FairSpec == Spec /\ \A r \in Runners : WF_vars(Step(r))

-----------------------------------------------------------------------------
(* Properties.                                                             *)

(* Every column and every variable of a run keeps its type; in particular  *)
(* no write ever takes a floor counter or a quantity below zero.           *)
TypeOK ==
  /\ positions \in [Positions -> Row]
  /\ booked \in [Positions -> Nat]
  /\ tranches \in [Positions -> Nat]
  /\ floorSeen \in [Positions -> SUBSET Days]
  /\ today \in Days
  /\ faults \in 0 .. MaxFaults
  /\ overlapped \in BOOLEAN
  /\ phase \in [Runners -> {"idle", "fatal", "evaluating", "decided", "ordered"}]
  /\ runDay \in [Runners -> Days]
  /\ tightened \in [Runners -> BOOLEAN]
  /\ queue = [r \in Runners |-> queue[r]]
  /\ \A r \in Runners : /\ DOMAIN queue[r] \subseteq Positions
                        /\ queue[r] \in [DOMAIN queue[r] -> Row]
  /\ order \in [Runners -> Order \cup {NoOrder}]

Bought(p) == IF positions[p].status = "absent" THEN 0 ELSE Quantity[p]

(* Whatever runs overlap, fail and die, the shares a row has lost are the  *)
(* shares its booked exits sold: two exits computed from one reading of    *)
(* the row never take the same share off twice, and none is written off    *)
(* unsold.  The relative UPDATE and the CHECK on quantity give this, where *)
(* GREATEST(quantity - n, 0) alone would not.                              *)
LedgerBalanced ==
  \A p \in Positions : positions[p].quantity + booked[p] = Bought(p)

FilledCount(row) ==
  (IF 1 \in row.filled THEN 1 ELSE 0) + (IF 2 \in row.filled THEN 1 ELSE 0)

TrancheInFlight(p) ==
  \E r \in Runners :
    phase[r] = "ordered" /\ order[r].pos = p /\ order[r].level # 0

(* As long as no two runs were alive together, a target is sold a second   *)
(* time only after a failure between the order and the update of the row:  *)
(* the broker has filled no more target exits of a position than the row   *)
(* shows, but for one in flight and one for each failure.                  *)
EachTrancheSoldOnce ==
  ~overlapped => \A p \in Positions :
    tranches[p] <= FilledCount(positions[p]) + faults
                     + (IF TrancheInFlight(p) THEN 1 ELSE 0)

(* A floor counter of k in the table means the price was seen at the floor *)
(* on each of the k days up to last_floor_date, across failed writes,      *)
(* crashes, and runs that overlap or last past midnight: an emergency exit *)
(* for three floor days never counts a day twice or skips one.             *)
CountedDaysSeen(row, seen) ==
  row.floorHitDays > 0 =>
    /\ row.lastFloorDate \in Days
    /\ (row.lastFloorDate - row.floorHitDays + 1) .. row.lastFloorDate \subseteq seen

FloorCounterSound ==
  \A p \in Positions : CountedDaysSeen(positions[p], floorSeen[p])

RowAdvances(old, new) ==
  /\ old.status = "closed" => new.status = "closed"
  /\ old.filled \subseteq new.filled
  /\ new.filled # {2}
  /\ new.quantity <= old.quantity

(* Late writes by stale runs never turn a row back: a closed row stays     *)
(* closed, a filled target stays filled, target 2 is filled only after     *)
(* target 1, and the shares of a row never grow again.                     *)
RowsOnlyAdvance ==
  [][\A p \in Positions : positions[p].status # "absent" =>
       RowAdvances(positions[p], positions'[p])]_vars

RungOf(row) ==
  IF row.status = "absent" THEN "none"
  ELSE IF row.status = "closed" THEN "closed"
  ELSE IF 2 \in row.filled THEN "second"
  ELSE IF 1 \in row.filled THEN "first"
  ELSE "full"

Ladder == INSTANCE ExitLadder
            WITH rung <- [p \in Positions |-> RungOf(positions[p])],
                 shares <- [p \in Positions |->
                              IF positions[p].status = "open"
                              THEN positions[p].quantity ELSE 0]

(* One run at a time, the books go through the exits the way ExitLadder    *)
(* says, whatever fails, whenever the run dies, and when the holder closes *)
(* a position under a run that still has it in hand.                       *)
LadderRefined == Ladder!LadderSpec

(* A run always ends, by itself or because the process dies.               *)
RunEnds == \A r \in Runners : r \in Active ~> r \notin Active

EmergencyOrdered(p) ==
  \E r \in Runners :
    phase[r] = "ordered" /\ order[r].pos = p /\ order[r].level = 0

(* An open position whose stored counter reached three floor days is sold  *)
(* as an emergency in the end, also when the run that stored the counter   *)
(* died before its order, unless a floor hit after a gap resets the        *)
(* counter first or the holder closes the position.                        *)
EmergencyHeeded ==
  \A p \in Positions :
    positions[p].status = "open" /\ positions[p].floorHitDays >= 3
      ~> \/ EmergencyOrdered(p)
         \/ positions[p].status = "closed" \/ positions[p].floorHitDays < 3

(* main.go: "UpdateExitTracking persists an exit result: updates quantity, *)
(* fills, and closes when full."  An emergency exit of all shares closes   *)
(* its row when no call fails.                                             *)
FullExitCloses ==
  [][\A r \in Runners :
       /\ phase[r] = "ordered" /\ order[r].level = 0
       /\ phase'[r] = "evaluating" /\ faults' = faults
         => positions'[order[r].pos].status = "closed"]_vars

(* main.go: "EvaluateAllPositions runs the full evaluation loop across     *)
(* every open position."  A run ends before its loop only when a call has  *)
(* failed.                                                                 *)
EveryRunReachesTheLoop == \A r \in Runners : phase[r] = "fatal" => faults > 0

(* exit_engine.go: "Consecutive trading day - increment."  When the next   *)
(* trading day sees the floor again, the counter goes up by one.           *)
NextTradingDay(d, e) ==
  /\ d \in TradingDays /\ e \in TradingDays /\ d < e
  /\ \A x \in TradingDays : ~(d < x /\ x < e)

FloorCountsTradingDays ==
  [][\A p \in Positions :
       NextTradingDay(positions[p].lastFloorDate, positions'[p].lastFloorDate)
         => positions'[p].floorHitDays = positions[p].floorHitDays + 1]_vars
=============================================================================
