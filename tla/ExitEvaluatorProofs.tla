------------------------ MODULE ExitEvaluatorProofs ------------------------
(***************************************************************************)
(* Proofs about ExitEvaluator, for any number of positions, processes,     *)
(* days and failures.                                                      *)
(***************************************************************************)
EXTENDS ExitEvaluator, TLAPS

-----------------------------------------------------------------------------
(* Lemmas about the decision engine.                                       *)

(* CheckFloorHit returns a row, and touches nothing but the floor counter. *)
LEMMA FloorHitRow ==
  ASSUME NEW row \in Row, NEW atFloor \in BOOLEAN, NEW day \in Days
  PROVE  LET hit == CheckFloorHit(row, atFloor, day)
         IN /\ hit \in Row
            /\ hit.status = row.status
            /\ hit.quantity = row.quantity
            /\ hit.filled = row.filled
<1>1. /\ day \in Int /\ NoDate \notin Days /\ row.floorHitDays \in Nat
  BY BoundsAssumption, NoDateAssumption DEF Row, Days
<1>2. CASE ~atFloor
  BY <1>2 DEF CheckFloorHit
<1>3. CASE atFloor
  <2> DEFINE count == CheckFloorHit(row, atFloor, day).floorHitDays
  <2>1. count \in Nat
    BY <1>1, <1>3 DEF CheckFloorHit, Row
  <2>2. CheckFloorHit(row, atFloor, day) =
          [row EXCEPT !.floorHitDays = count, !.lastFloorDate = day]
    BY <1>3 DEF CheckFloorHit, Row
  <2>3. QED
    BY <2>1, <2>2 DEF Row
<1>4. QED
  BY <1>2, <1>3

(* A tranche is a number of shares the row can give. *)
LEMMA TrancheBound ==
  ASSUME NEW n \in Nat
  PROVE  CalculateExitShares(n, 30) \in Nat /\ CalculateExitShares(n, 30) <= n
  BY DEF CalculateExitShares

(* What EvaluatePosition can decide for a row. *)
LEMMA DecisionCases ==
  ASSUME NEW p \in Positions, NEW row \in Row, NEW gain \in Gains,
         NEW risk \in Risks, NEW tight \in BOOLEAN
  PROVE  LET d == EvaluatePosition(p, row, gain, risk, tight)
         IN \/ d = NoOrder
            \/ d = [pos |-> p, level |-> 0, shares |-> row.quantity]
            \/ /\ d = [pos |-> p, level |-> 1,
                       shares |-> CalculateExitShares(row.quantity, 30)]
               /\ 1 \notin row.filled
            \/ /\ d = [pos |-> p, level |-> 2,
                       shares |-> CalculateExitShares(row.quantity, 30)]
               /\ 1 \in row.filled
               /\ 2 \notin row.filled
  BY DEF EvaluatePosition, ShouldExitTarget1, ShouldExitTarget2

(* A decision that is not NoOrder is an order for the position asked about.*)
LEMMA DecisionIsOrder ==
  ASSUME NEW p \in Positions, NEW row \in Row, NEW gain \in Gains,
         NEW risk \in Risks, NEW tight \in BOOLEAN,
         EvaluatePosition(p, row, gain, risk, tight) # NoOrder
  PROVE  /\ EvaluatePosition(p, row, gain, risk, tight) \in Order
         /\ EvaluatePosition(p, row, gain, risk, tight).pos = p
<1>1. row.quantity \in Nat
  BY DEF Row
<1>2. CalculateExitShares(row.quantity, 30) \in Nat
  BY <1>1, TrancheBound
<1>3. QED
  BY <1>1, <1>2, DecisionCases DEF Order

(* What the table accepts of an exit: a tranche that leaves some shares.   *)
RowBooked(old, o, new) ==
  /\ o.level \in {1, 2} /\ o.shares < old.quantity
  /\ new.status = old.status
  /\ new.filled = old.filled \cup {o.level}
  /\ new.quantity = old.quantity - o.shares
  /\ new.floorHitDays = old.floorHitDays
  /\ new.lastFloorDate = old.lastFloorDate

(* The row the table accepts is a row again, with the tranche taken off it.*)
LEMMA ExitedRowFacts ==
  ASSUME NEW row \in Row, NEW o \in Order, QuantityPositive(ExitedRow(row, o))
  PROVE  ExitedRow(row, o) \in Row /\ RowBooked(row, o, ExitedRow(row, o))
<1> DEFINE left == IF row.quantity > o.shares THEN row.quantity - o.shares ELSE 0
           new == [row EXCEPT !.filled = row.filled \cup {o.level}, !.quantity = left]
<1>1. /\ row.quantity \in Nat /\ o.shares \in Nat /\ o.level \in 0 .. 2
  BY DEF Row, Order
<1>2. left \in Nat /\ left > 0 => left = row.quantity - o.shares /\ o.shares < row.quantity
  BY <1>1
<1>3. ExitedRow(row, o) =
        IF o.level = 0 THEN [row EXCEPT !.status = "closed", !.quantity = 0]
        ELSE new
  BY DEF ExitedRow
<1>4. left \in Nat
  BY <1>1
<1> HIDE DEF left
<1>5. o.level # 0
  <2>1. [row EXCEPT !.status = "closed", !.quantity = 0].quantity = 0
    BY DEF Row
  <2>2. QED
    BY <1>3, <2>1 DEF QuantityPositive
<1>6. /\ new.quantity = left /\ new.status = row.status
      /\ new.filled = row.filled \cup {o.level}
      /\ new.floorHitDays = row.floorHitDays
      /\ new.lastFloorDate = row.lastFloorDate
  BY DEF Row
<1>7. new \in Row
  <2>1. row.filled \cup {o.level} \in SUBSET {1, 2}
    BY <1>1, <1>5 DEF Row
  <2>2. QED
    BY <1>4, <2>1 DEF Row
<1>8. ExitedRow(row, o) = new
  BY <1>3, <1>5
<1> HIDE DEF new
<1>9. left > 0
  BY <1>6, <1>8 DEF QuantityPositive
<1>10. o.level \in {1, 2}
  BY <1>1, <1>5
<1>11. QED
  BY <1>2, <1>4, <1>6, <1>7, <1>8, <1>9, <1>10 DEF RowBooked

-----------------------------------------------------------------------------
(* The state has its types.  Most of the work is in the two actions that   *)
(* write rows or orders; the others replace values by values of the type.  *)

Executing(r) == phase[r] \in {"decided", "ordered"}

(* A run that executes a decision has one in hand.                         *)
OrderInHand == \A r \in Runners : Executing(r) => order[r] \in Order

(* The empty table and idle processes have their types.                    *)
LEMMA TypeInit == Init => TypeOK /\ OrderInHand
<1> SUFFICES ASSUME Init PROVE TypeOK /\ OrderInHand
  OBVIOUS
<1>1. NoRow \in Row
  BY DEF NoRow, Row
<1>2. 0 \in Days
  BY BoundsAssumption DEF Days
<1>3. OrderInHand
  BY DEF Init, OrderInHand, Executing
<1>4. \A r \in Runners : DOMAIN queue[r] = {} /\ queue[r] \in [DOMAIN queue[r] -> Row]
  BY DEF Init, EmptyQueue
<1>5. queue = [r \in Runners |-> queue[r]]
  BY DEF Init
<1>6. positions \in [Positions -> Row] /\ floorSeen \in [Positions -> SUBSET Days]
  BY <1>1 DEF Init
<1>7. booked \in [Positions -> Nat] /\ tranches \in [Positions -> Nat]
  BY DEF Init
<1>8. today \in Days /\ faults \in 0 .. MaxFaults /\ runDay \in [Runners -> Days]
  BY <1>2, BoundsAssumption DEF Init
<1>9. /\ phase \in [Runners -> {"idle", "fatal", "evaluating", "decided", "ordered"}]
      /\ order \in [Runners -> Order \cup {NoOrder}]
  BY DEF Init
<1>10. overlapped \in BOOLEAN /\ tightened \in [Runners -> BOOLEAN]
  BY DEF Init
<1>11. QED
  BY <1>3, <1>4, <1>5, <1>6, <1>7, <1>8, <1>9, <1>10 DEF TypeOK

(* What the floor counter write does to the table. *)
LEMMA SaveFloorHitFacts ==
  ASSUME TypeOK, NEW p \in Positions, NEW row \in Row, NEW atFloor \in BOOLEAN,
         NEW day \in Days, SaveFloorHit(p, row, atFloor, day)
  PROVE  /\ positions' \in [Positions -> Row]
         /\ floorSeen' \in [Positions -> SUBSET Days]
         /\ faults' \in 0 .. MaxFaults
         /\ \A q \in Positions :
              /\ positions'[q].status = positions[q].status
              /\ positions'[q].quantity = positions[q].quantity
              /\ positions'[q].filled = positions[q].filled
              /\ q # p => positions'[q] = positions[q]
              /\ floorSeen[q] \subseteq floorSeen'[q]
<1>1. CASE ~atFloor
  <2>1. positions' = positions /\ floorSeen' = floorSeen /\ faults' = faults
    BY <1>1 DEF SaveFloorHit, table
  <2>2. QED
    BY <2>1 DEF TypeOK
<1>2. CASE atFloor
  <2>1. /\ floorSeen' \in [Positions -> SUBSET Days]
        /\ \A q \in Positions : floorSeen[q] \subseteq floorSeen'[q]
    BY <1>2 DEF SaveFloorHit, TypeOK
  <2>2. CASE UNCHANGED positions /\ Fault
    BY <2>1, <2>2, BoundsAssumption DEF TypeOK, Fault
  <2>3. CASE UpdateFloorCounter(p, row) /\ UNCHANGED faults
    <3>1. /\ row.floorHitDays \in Nat
          /\ row.lastFloorDate \in Days \cup {NoDate}
          /\ positions[p] \in Row
      BY DEF TypeOK, Row
    <3> DEFINE new == [positions[p] EXCEPT !.floorHitDays = row.floorHitDays,
                                          !.lastFloorDate = row.lastFloorDate]
    <3>2. /\ new \in Row /\ new.status = positions[p].status
          /\ new.quantity = positions[p].quantity /\ new.filled = positions[p].filled
      BY <3>1 DEF Row
    <3>3. positions' = [positions EXCEPT ![p] = new]
      BY <2>3 DEF UpdateFloorCounter, TypeOK
    <3> HIDE DEF new
    <3>4. QED
      BY <2>1, <2>3, <3>2, <3>3 DEF TypeOK
  <2>4. QED
    BY <1>2, <2>2, <2>3 DEF SaveFloorHit
<1>3. QED
  BY <1>1, <1>2

(* The rows a run has still to evaluate are some of those it had. *)
LEMMA NextPositionFacts ==
  ASSUME TypeOK, NEW r \in Runners, NEW p \in Positions, NextPosition(r, p)
  PROVE  /\ queue' = [s \in Runners |-> queue'[s]]
         /\ \A s \in Runners :
              /\ DOMAIN queue'[s] \subseteq DOMAIN queue[s]
              /\ s = r => DOMAIN queue'[s] = DOMAIN queue[s] \ {p}
              /\ \A q \in DOMAIN queue'[s] : queue'[s][q] = queue[s][q]
              /\ queue'[s] \in [DOMAIN queue'[s] -> Row]
  BY DEF TypeOK, NextPosition, Restrict

(* A run that stops leaves nothing behind in memory. *)
LEMMA StopRunFacts ==
  ASSUME TypeOK, NEW r \in Runners, NEW outcome \in {"idle", "fatal"},
         StopRun(r, outcome)
  PROVE  /\ phase' = [phase EXCEPT ![r] = outcome]
         /\ runDay' \in [Runners -> Days]
         /\ tightened' \in [Runners -> BOOLEAN]
         /\ queue' = [s \in Runners |-> queue'[s]]
         /\ \A s \in Runners :
              IF s = r THEN DOMAIN queue'[s] = {} /\ order'[s] = NoOrder
              ELSE queue'[s] = queue[s] /\ order'[s] = order[s]
         /\ \A s \in Runners : queue'[s] \in [DOMAIN queue'[s] -> Row]
         /\ order' \in [Runners -> Order \cup {NoOrder}]
  BY BoundsAssumption DEF TypeOK, StopRun, Days, EmptyQueue

(* The UPDATE of a run: refused, or the tranche is booked. *)
LEMMA UpdateCases ==
  ASSUME TypeOK, OrderInHand, NEW r \in Runners, UpdateExitTracking(r)
  PROVE  /\ order[r] \in Order /\ order[r].pos \in Positions
         /\ order[r].shares \in Nat
         /\ \/ positions' = positions /\ booked' = booked
            \/ /\ positions' \in [Positions -> Row]
               /\ booked' \in [Positions -> Nat]
               /\ RowBooked(positions[order[r].pos], order[r],
                            positions'[order[r].pos])
               /\ booked'[order[r].pos] = booked[order[r].pos] + order[r].shares
               /\ \A q \in Positions \ {order[r].pos} :
                    positions'[q] = positions[q] /\ booked'[q] = booked[q]
<1>1. order[r] \in Order
  BY DEF OrderInHand, Executing, UpdateExitTracking
<1>2. order[r].pos \in Positions /\ order[r].shares \in Nat
  BY <1>1 DEF Order
<1> DEFINE row == ExitedRow(positions[order[r].pos], order[r])
<1>3. CASE ~QuantityPositive(row)
  BY <1>1, <1>2, <1>3 DEF UpdateExitTracking
<1>4. CASE QuantityPositive(row)
  <2>1. positions[order[r].pos] \in Row /\ positions \in [Positions -> Row]
    BY <1>2 DEF TypeOK
  <2>2. row \in Row /\ RowBooked(positions[order[r].pos], order[r], row)
    BY <1>1, <1>4, <2>1, ExitedRowFacts
  <2>3. /\ positions' = [positions EXCEPT ![order[r].pos] = row]
        /\ booked' = [booked EXCEPT ![order[r].pos] = @ + order[r].shares]
    BY <1>4 DEF UpdateExitTracking
  <2> HIDE DEF row
  <2>4. /\ positions' \in [Positions -> Row] /\ positions'[order[r].pos] = row
        /\ \A q \in Positions \ {order[r].pos} : positions'[q] = positions[q]
    BY <1>2, <2>1, <2>2, <2>3
  <2>5. /\ booked' \in [Positions -> Nat]
        /\ booked'[order[r].pos] = booked[order[r].pos] + order[r].shares
        /\ \A q \in Positions \ {order[r].pos} : booked'[q] = booked[q]
    BY <1>2, <2>3 DEF TypeOK
  <2>6. QED
    BY <1>1, <1>2, <2>2, <2>4, <2>5
<1>5. QED
  BY <1>3, <1>4

(* Every step keeps the types.                                             *)
LEMMA TypeStep == TypeOK /\ OrderInHand /\ [Next]_vars => TypeOK'
<1> SUFFICES ASSUME TypeOK, OrderInHand, [Next]_vars PROVE TypeOK'
  OBVIOUS
<1>1. ASSUME NEW r \in Runners, GetOpenPositionsWithExitTracking(r) PROVE TypeOK'
  BY <1>1 DEF TypeOK, GetOpenPositionsWithExitTracking, CheckVNIndexDrop, table,
              ledger, Restrict, Open
<1>2. ASSUME NEW r \in Runners, ScanFails(r) PROVE TypeOK'
  BY <1>2 DEF TypeOK, ScanFails, table, ledger
<1>3. ASSUME NEW r \in Runners, QueryFails(r) PROVE TypeOK'
  BY <1>3, BoundsAssumption DEF TypeOK, QueryFails, Fault, table, ledger
<1>4. ASSUME NEW r \in Runners, NEW p \in Positions, GetSymbolInfoFails(r, p)
      PROVE  TypeOK'
  <2>1. faults' \in 0 .. MaxFaults
    BY <1>4, BoundsAssumption DEF TypeOK, GetSymbolInfoFails, Fault
  <2>2. \A s \in Runners : DOMAIN queue'[s] \subseteq Positions
    BY <1>4, NextPositionFacts DEF GetSymbolInfoFails, TypeOK
  <2>3. QED
    BY <1>4, <2>1, <2>2, NextPositionFacts
       DEF TypeOK, GetSymbolInfoFails, table, ledger
<1>5. ASSUME NEW r \in Runners, NEW p \in Positions, EvaluateOne(r, p)
      PROVE  TypeOK'
  <2>1. PICK atFloor \in BOOLEAN, gain \in Gains, risk \in Risks :
          LET row == CheckFloorHit(queue[r][p], atFloor, runDay[r])
              decision == EvaluatePosition(p, row, gain, risk, tightened[r])
          IN /\ SaveFloorHit(p, row, atFloor, runDay[r])
             /\ IF decision # NoOrder /\ decision.shares > 0
                THEN /\ order' = [order EXCEPT ![r] = decision]
                     /\ phase' = [phase EXCEPT ![r] = "decided"]
                ELSE UNCHANGED <<order, phase>>
    BY <1>5 DEF EvaluateOne
  <2> DEFINE row == CheckFloorHit(queue[r][p], atFloor, runDay[r])
             decision == EvaluatePosition(p, row, gain, risk, tightened[r])
  <2>2. queue[r][p] \in Row /\ runDay[r] \in Days /\ tightened[r] \in BOOLEAN
    BY <1>5 DEF EvaluateOne, TypeOK
  <2>3. row \in Row
    BY <2>2, FloorHitRow
  <2>4. decision # NoOrder => decision \in Order
    BY <2>2, <2>3, DecisionIsOrder
  <2>5. /\ positions' \in [Positions -> Row]
        /\ floorSeen' \in [Positions -> SUBSET Days]
        /\ faults' \in 0 .. MaxFaults
    BY <2>1, <2>2, <2>3, SaveFloorHitFacts
  <2> HIDE DEF decision
  <2>6. order' \in [Runners -> Order \cup {NoOrder}]
    BY <2>1, <2>4 DEF TypeOK, decision
  <2>7. phase' \in [Runners -> {"idle", "fatal", "evaluating", "decided", "ordered"}]
    BY <2>1 DEF TypeOK
  <2>8. /\ queue' = [s \in Runners |-> queue'[s]]
        /\ \A s \in Runners : /\ DOMAIN queue'[s] \subseteq Positions
                              /\ queue'[s] \in [DOMAIN queue'[s] -> Row]
    <3>1. NextPosition(r, p)
      BY <1>5 DEF EvaluateOne
    <3>2. QED
      BY <3>1, NextPositionFacts DEF TypeOK
  <2>9. /\ booked' = booked /\ tranches' = tranches /\ today' = today
        /\ overlapped' = overlapped /\ runDay' = runDay /\ tightened' = tightened
    BY <1>5 DEF EvaluateOne, ledger
  <2>10. QED
    BY <2>5, <2>6, <2>7, <2>8, <2>9 DEF TypeOK
<1>6. ASSUME NEW r \in Runners, ExecuteExit(r) PROVE TypeOK'
  <2>1. order[r].pos \in Positions
    BY <1>6 DEF OrderInHand, Executing, ExecuteExit, Order
  <2>2. tranches' \in [Positions -> Nat]
    BY <1>6, <2>1 DEF TypeOK, ExecuteExit
  <2>3. QED
    BY <1>6, <2>2 DEF TypeOK, ExecuteExit, table
<1>7. ASSUME NEW r \in Runners, UpdateExitTracking(r) PROVE TypeOK'
  <2>1. positions' \in [Positions -> Row] /\ booked' \in [Positions -> Nat]
    BY <1>7, UpdateCases DEF TypeOK
  <2>2. QED
    BY <1>7, <2>1 DEF TypeOK, UpdateExitTracking
<1>8. ASSUME NEW r \in Runners, UpdateExitTrackingFails(r) PROVE TypeOK'
  BY <1>8, BoundsAssumption DEF TypeOK, UpdateExitTrackingFails, Fault, table, ledger
<1>9. ASSUME NEW r \in Runners, Finish(r) PROVE TypeOK'
  BY <1>9, StopRunFacts DEF TypeOK, Finish, table, ledger
<1>10. ASSUME NEW r \in Runners, Crash(r) PROVE TypeOK'
  <2>1. faults' \in 0 .. MaxFaults
    BY <1>10, BoundsAssumption DEF TypeOK, Crash, Fault
  <2>2. QED
    BY <1>10, <2>1, StopRunFacts DEF TypeOK, Crash, table, ledger
<1>11. ASSUME NEW p \in Positions, OpenPosition(p) PROVE TypeOK'
  <2>1. NewRow(p) \in Row
    BY QuantityAssumption DEF NewRow, NoRow, Row
  <2>2. QED
    BY <1>11, <2>1 DEF TypeOK, OpenPosition, ledger, runner
<1>12. ASSUME NEW p \in Positions, ClosePosition(p) PROVE TypeOK'
  <2>1. positions[p] \in Row
    BY DEF TypeOK
  <2>2. [positions[p] EXCEPT !.status = "closed"] \in Row
    BY <2>1 DEF Row
  <2>3. positions' \in [Positions -> Row]
    BY <1>12, <2>2 DEF TypeOK, ClosePosition
  <2>4. QED
    BY <1>12, <2>3 DEF TypeOK, ClosePosition, ledger, runner
<1>13. CASE NextDay
  BY <1>13, BoundsAssumption DEF TypeOK, NextDay, table, ledger, runner, Days
<1>14. CASE UNCHANGED vars
  BY <1>14 DEF TypeOK, vars
<1>15. QED
  BY <1>1, <1>2, <1>3, <1>4, <1>5, <1>6, <1>7, <1>8, <1>9, <1>10, <1>11, <1>12,
     <1>13, <1>14 DEF Next, Step, Start, Failure, Environment

(* A run gets to executing only by deciding on an order.                   *)
LEMMA OrderInHandStep == TypeOK /\ OrderInHand /\ [Next]_vars => OrderInHand'
<1> SUFFICES ASSUME TypeOK, OrderInHand, [Next]_vars PROVE OrderInHand'
  OBVIOUS
<1> USE DEF OrderInHand, Executing
<1>1. ASSUME NEW r \in Runners, Start(r) \/ QueryFails(r) PROVE OrderInHand'
  BY <1>1 DEF TypeOK, Start, GetOpenPositionsWithExitTracking, ScanFails, QueryFails
<1>2. ASSUME NEW r \in Runners, NEW p \in Positions, GetSymbolInfoFails(r, p)
      PROVE  OrderInHand'
  BY <1>2 DEF GetSymbolInfoFails
<1>3. ASSUME NEW r \in Runners, NEW p \in Positions, EvaluateOne(r, p)
      PROVE  OrderInHand'
  <2>1. PICK atFloor \in BOOLEAN, gain \in Gains, risk \in Risks :
          LET row == CheckFloorHit(queue[r][p], atFloor, runDay[r])
              decision == EvaluatePosition(p, row, gain, risk, tightened[r])
          IN IF decision # NoOrder /\ decision.shares > 0
             THEN /\ order' = [order EXCEPT ![r] = decision]
                  /\ phase' = [phase EXCEPT ![r] = "decided"]
             ELSE UNCHANGED <<order, phase>>
    BY <1>3 DEF EvaluateOne
  <2> DEFINE row == CheckFloorHit(queue[r][p], atFloor, runDay[r])
             decision == EvaluatePosition(p, row, gain, risk, tightened[r])
  <2>2. queue[r][p] \in Row /\ runDay[r] \in Days /\ tightened[r] \in BOOLEAN
    BY <1>3 DEF EvaluateOne, TypeOK
  <2>3. decision # NoOrder => decision \in Order
    BY <2>2, FloorHitRow, DecisionIsOrder
  <2> HIDE DEF decision
  <2>4. QED
    BY <2>1, <2>3 DEF TypeOK, decision
<1>4. ASSUME NEW r \in Runners, ExecuteExit(r) PROVE OrderInHand'
  BY <1>4 DEF TypeOK, ExecuteExit
<1>5. ASSUME NEW r \in Runners, UpdateExitTracking(r) \/ UpdateExitTrackingFails(r)
      PROVE  OrderInHand'
  BY <1>5 DEF TypeOK, UpdateExitTracking, UpdateExitTrackingFails
<1>6. ASSUME NEW r \in Runners, Finish(r) \/ Crash(r) PROVE OrderInHand'
  BY <1>6 DEF TypeOK, Finish, Crash, StopRun
<1>7. CASE Environment \/ UNCHANGED vars
  BY <1>7 DEF Environment, NextDay, OpenPosition, ClosePosition, runner, vars
<1>8. QED
  BY <1>1, <1>2, <1>3, <1>4, <1>5, <1>6, <1>7 DEF Next, Step, Failure

(* Every behaviour keeps the types, so counters and quantities never go    *)
(* below zero, and a run that executes has an order in hand.               *)
THEOREM TypeCorrect == Spec => [](TypeOK /\ OrderInHand)
<1>1. TypeOK /\ OrderInHand /\ [Next]_vars => (TypeOK /\ OrderInHand)'
  BY TypeStep, OrderInHandStep
<1>2. QED
  BY <1>1, TypeInit, PTL DEF Spec

-----------------------------------------------------------------------------
(* The floor counter.  The invariant also speaks of the rows a run has     *)
(* read and not yet evaluated: their counters will be written back later,  *)
(* possibly after another run has written its own.                         *)

FloorInv ==
  /\ FloorCounterSound
  /\ \A r \in Runners : \A p \in DOMAIN queue[r] :
       CountedDaysSeen(queue[r][p], floorSeen[p])

(* One more hit on a sound counter gives a sound counter. *)
LEMMA FloorHitCounts ==
  ASSUME NEW row \in Row, NEW day \in Days, NEW seen \in SUBSET Days,
         CountedDaysSeen(row, seen)
  PROVE  CountedDaysSeen(CheckFloorHit(row, TRUE, day), seen \cup {day})
<1> DEFINE hit == CheckFloorHit(row, TRUE, day)
<1>1. /\ day \in Int /\ NoDate \notin Int /\ row.floorHitDays \in Nat
      /\ row.lastFloorDate \in Int \/ row.lastFloorDate = NoDate
  BY BoundsAssumption, NoDateAssumption DEF Row, Days
<1>2. hit.lastFloorDate = day
  BY DEF CheckFloorHit, Row
<1>3. CASE row.lastFloorDate = day
  <2>1. hit.floorHitDays = row.floorHitDays
    BY <1>3 DEF CheckFloorHit, Row
  <2> HIDE DEF hit
  <2>2. CountedDaysSeen(hit, seen \cup {day})
    BY <1>2, <1>3, <2>1 DEF CountedDaysSeen
  <2>3. QED
    BY <2>2 DEF hit
<1>4. CASE row.lastFloorDate # day /\ row.lastFloorDate = day - 1
  <2>1. hit.floorHitDays = row.floorHitDays + 1
    BY <1>4 DEF CheckFloorHit, Row
  <2>2. (day - (row.floorHitDays + 1) + 1) .. day \subseteq seen \cup {day}
    <3>1. CASE row.floorHitDays = 0
      BY <1>1, <3>1
    <3>2. CASE row.floorHitDays > 0
      <4>1. (row.lastFloorDate - row.floorHitDays + 1) .. row.lastFloorDate \subseteq seen
        BY <3>2 DEF CountedDaysSeen
      <4>2. day - row.floorHitDays .. day - 1 \subseteq seen
        BY <1>1, <1>4, <4>1
      <4>3. QED
        BY <1>1, <4>2
    <3>3. QED
      BY <1>1, <3>1, <3>2
  <2> HIDE DEF hit
  <2>3. CountedDaysSeen(hit, seen \cup {day})
    BY <1>2, <2>1, <2>2 DEF CountedDaysSeen
  <2>4. QED
    BY <2>3 DEF hit
<1>5. CASE row.lastFloorDate # day /\ row.lastFloorDate # day - 1
  <2>1. hit.floorHitDays = 1
    BY <1>5 DEF CheckFloorHit, Row
  <2> HIDE DEF hit
  <2>2. CountedDaysSeen(hit, seen \cup {day})
    BY <1>1, <1>2, <2>1 DEF CountedDaysSeen
  <2>3. QED
    BY <2>2 DEF hit
<1>6. QED
  BY <1>3, <1>4, <1>5

(* Seeing the floor on more days does no harm. *)
LEMMA MoreDaysSeen ==
  ASSUME NEW row, NEW seen, NEW more, seen \subseteq more, CountedDaysSeen(row, seen)
  PROVE  CountedDaysSeen(row, more)
  BY DEF CountedDaysSeen

(* No counter is above zero at first.                                      *)
LEMMA FloorInit == Init => FloorInv
  BY DEF Init, FloorInv, FloorCounterSound, CountedDaysSeen, NoRow, EmptyQueue

(* A step keeps every counter sound, in the table and in memory.           *)
LEMMA FloorStep ==
  TypeOK /\ OrderInHand /\ FloorInv /\ [Next]_vars => FloorInv'
<1> SUFFICES ASSUME TypeOK, OrderInHand, FloorInv, [Next]_vars PROVE FloorInv'
  OBVIOUS
<1>1. ASSUME NEW r \in Runners, GetOpenPositionsWithExitTracking(r) PROVE FloorInv'
  <2>1. \A s \in Runners : \A p \in DOMAIN queue'[s] :
          \/ s = r /\ p \in Positions /\ queue'[s][p] = positions[p]
          \/ p \in DOMAIN queue[s] /\ queue'[s][p] = queue[s][p]
    BY <1>1 DEF TypeOK, GetOpenPositionsWithExitTracking, Restrict, Open
  <2>2. positions' = positions /\ floorSeen' = floorSeen
    BY <1>1 DEF GetOpenPositionsWithExitTracking, table
  <2>3. QED
    BY <2>1, <2>2 DEF FloorInv, FloorCounterSound
<1>2. ASSUME NEW r \in Runners, NEW p \in Positions, GetSymbolInfoFails(r, p)
      PROVE  FloorInv'
  <2>1. positions' = positions /\ floorSeen' = floorSeen /\ NextPosition(r, p)
    BY <1>2 DEF GetSymbolInfoFails, table
  <2>2. QED
    BY <2>1, NextPositionFacts DEF FloorInv, FloorCounterSound
<1>3. ASSUME NEW r \in Runners, NEW p \in Positions, EvaluateOne(r, p)
      PROVE  FloorInv'
  <2> DEFINE row(atFloor) == CheckFloorHit(queue[r][p], atFloor, runDay[r])
  <2>1. PICK atFloor \in BOOLEAN : SaveFloorHit(p, row(atFloor), atFloor, runDay[r])
    BY <1>3 DEF EvaluateOne
  <2>2. NextPosition(r, p) /\ p \in DOMAIN queue[r]
    BY <1>3 DEF EvaluateOne
  <2>3. queue[r][p] \in Row /\ runDay[r] \in Days /\ floorSeen[p] \in SUBSET Days
    BY <2>2 DEF TypeOK
  <2>4. row(atFloor) \in Row
    BY <2>3, FloorHitRow
  <2> HIDE DEF row
  <2>5. /\ \A q \in Positions : floorSeen[q] \subseteq floorSeen'[q]
        /\ \A q \in Positions \ {p} : positions'[q] = positions[q]
    BY <2>1, <2>3, <2>4, SaveFloorHitFacts
  <2>6. \A s \in Runners : \A q \in DOMAIN queue'[s] :
          CountedDaysSeen(queue'[s][q], floorSeen'[q])
    <3>1. \A s \in Runners : \A q \in DOMAIN queue'[s] :
            q \in Positions /\ q \in DOMAIN queue[s] /\ queue'[s][q] = queue[s][q]
      BY <2>2, NextPositionFacts DEF TypeOK
    <3>2. SUFFICES ASSUME NEW s \in Runners, NEW q \in DOMAIN queue'[s]
                   PROVE  CountedDaysSeen(queue'[s][q], floorSeen'[q])
      OBVIOUS
    <3>3. CountedDaysSeen(queue[s][q], floorSeen[q])
      BY <3>1 DEF FloorInv
    <3>4. floorSeen[q] \subseteq floorSeen'[q] /\ queue'[s][q] = queue[s][q]
      BY <2>5, <3>1
    <3>5. CountedDaysSeen(queue[s][q], floorSeen'[q])
      BY <3>3, <3>4, MoreDaysSeen
    <3>6. QED
      BY <3>4, <3>5
  <2>7. CountedDaysSeen(positions'[p], floorSeen'[p])
    <3>1. CASE positions'[p] = positions[p]
      <4>1. CountedDaysSeen(positions[p], floorSeen[p])
        BY DEF FloorInv, FloorCounterSound
      <4>2. floorSeen[p] \subseteq floorSeen'[p]
        BY <2>5
      <4>3. CountedDaysSeen(positions[p], floorSeen'[p])
        BY <4>1, <4>2, MoreDaysSeen
      <4>4. QED
        BY <3>1, <4>3
    <3>2. CASE positions'[p] # positions[p]
      <4>1. /\ atFloor
            /\ UpdateFloorCounter(p, row(atFloor))
            /\ floorSeen' = [floorSeen EXCEPT ![p] = @ \cup {runDay[r]}]
        BY <2>1, <3>2 DEF SaveFloorHit, table
      <4>2. /\ positions'[p].floorHitDays = row(TRUE).floorHitDays
            /\ positions'[p].lastFloorDate = row(TRUE).lastFloorDate
        <5>1. positions \in [Positions -> Row]
          BY DEF TypeOK
        <5>2. positions[p] \in Row
          BY <5>1
        <5>3. QED
          BY <4>1, <5>1, <5>2 DEF UpdateFloorCounter, Row
      <4>3. floorSeen'[p] = floorSeen[p] \cup {runDay[r]}
        BY <4>1 DEF TypeOK
      <4>4. CountedDaysSeen(queue[r][p], floorSeen[p])
        BY <2>2 DEF FloorInv
      <4>5. CountedDaysSeen(row(TRUE), floorSeen'[p])
        BY <2>3, <4>3, <4>4, FloorHitCounts DEF row
      <4>6. QED
        BY <4>2, <4>5 DEF CountedDaysSeen
    <3>3. QED
      BY <3>1, <3>2
  <2>8. QED
    <3>1. ASSUME NEW q \in Positions
          PROVE  CountedDaysSeen(positions'[q], floorSeen'[q])
      <4>1. CountedDaysSeen(positions[q], floorSeen[q])
        BY DEF FloorInv, FloorCounterSound
      <4>2. CountedDaysSeen(positions[q], floorSeen'[q])
        BY <2>5, <4>1, MoreDaysSeen
      <4>3. QED
        BY <2>5, <2>7, <4>2
    <3>2. QED
      BY <2>6, <3>1 DEF FloorInv, FloorCounterSound
<1>4. ASSUME NEW r \in Runners, UpdateExitTracking(r) PROVE FloorInv'
  <2>1. \A p \in Positions :
          /\ positions'[p].floorHitDays = positions[p].floorHitDays
          /\ positions'[p].lastFloorDate = positions[p].lastFloorDate
    BY <1>4, UpdateCases DEF RowBooked
  <2>2. queue' = queue /\ floorSeen' = floorSeen
    BY <1>4 DEF UpdateExitTracking
  <2>3. QED
    BY <2>1, <2>2 DEF FloorInv, FloorCounterSound, CountedDaysSeen
<1>5. ASSUME NEW r \in Runners, Finish(r) \/ Crash(r) PROVE FloorInv'
  <2>1. positions' = positions /\ floorSeen' = floorSeen /\ StopRun(r, "idle")
    BY <1>5 DEF Finish, Crash, table
  <2>2. QED
    BY <2>1, StopRunFacts DEF FloorInv, FloorCounterSound
<1>6. ASSUME NEW p \in Positions, OpenPosition(p) PROVE FloorInv'
  <2>1. /\ \A q \in Positions : q # p => positions'[q] = positions[q]
        /\ positions'[p].floorHitDays = 0
        /\ queue' = queue /\ floorSeen' = floorSeen
    BY <1>6 DEF OpenPosition, TypeOK, NewRow, NoRow, runner
  <2>2. QED
    BY <2>1 DEF FloorInv, FloorCounterSound, CountedDaysSeen
<1>7. ASSUME NEW p \in Positions, ClosePosition(p) PROVE FloorInv'
  <2>1. /\ \A q \in Positions :
             /\ positions'[q].floorHitDays = positions[q].floorHitDays
             /\ positions'[q].lastFloorDate = positions[q].lastFloorDate
        /\ queue' = queue /\ floorSeen' = floorSeen
    BY <1>7 DEF ClosePosition, TypeOK, Row, runner
  <2>2. QED
    BY <2>1 DEF FloorInv, FloorCounterSound, CountedDaysSeen
<1>8. CASE \/ NextDay \/ UNCHANGED vars
           \/ \E r \in Runners : \/ ScanFails(r) \/ QueryFails(r) \/ ExecuteExit(r)
                                 \/ UpdateExitTrackingFails(r)
  <2>1. positions' = positions /\ floorSeen' = floorSeen /\ queue' = queue
    BY <1>8 DEF NextDay, vars, ScanFails, QueryFails, ExecuteExit,
                UpdateExitTrackingFails, table, runner
  <2>2. QED
    BY <2>1 DEF FloorInv, FloorCounterSound
<1>9. QED
  BY <1>1, <1>2, <1>3, <1>4, <1>5, <1>6, <1>7, <1>8
     DEF Next, Step, Start, Failure, Environment

(* A stored counter of k stands for the price seen at the floor on each of *)
(* the k days up to last_floor_date.                                       *)
THEOREM FloorCounter == Spec => []FloorCounterSound
<1>1. TypeOK /\ OrderInHand /\ FloorInv /\ [Next]_vars => FloorInv'
  BY FloorStep
<1>2. FloorInv => FloorCounterSound
  BY DEF FloorInv
<1>3. QED
  BY <1>1, <1>2, FloorInit, TypeCorrect, PTL DEF Spec

-----------------------------------------------------------------------------
(* Runs that overlap.  A run may hold rows and an order that another run   *)
(* has outdated; all it can rely on is that rows only advance: a target it *)
(* read as filled is filled.                                               *)

RowInv ==
  \A p \in Positions :
    /\ positions[p].status = "absent" =>
         positions[p].quantity = 0 /\ positions[p].filled = {}
    /\ positions[p].filled # {2}

SnapshotInv ==
  \A r \in Runners : \A p \in DOMAIN queue[r] :
    /\ positions[p].status # "absent"
    /\ 1 \in queue[r][p].filled => 1 \in positions[p].filled

OrderInv ==
  \A r \in Runners : Executing(r) =>
    /\ positions[order[r].pos].status # "absent"
    /\ order[r].level = 2 => 1 \in positions[order[r].pos].filled

StaleInv == RowInv /\ SnapshotInv /\ OrderInv

(* Nothing has been read from an empty table.                              *)
LEMMA StaleInit == Init => StaleInv
<1> SUFFICES ASSUME Init PROVE StaleInv
  OBVIOUS
<1>1. RowInv
  BY DEF Init, RowInv, NoRow
<1>2. SnapshotInv
  BY DEF Init, SnapshotInv, EmptyQueue
<1>3. OrderInv
  BY DEF Init, OrderInv, Executing
<1>4. QED
  BY <1>1, <1>2, <1>3 DEF StaleInv

SameHolding(old, new) ==
  new.status = old.status /\ new.quantity = old.quantity /\ new.filled = old.filled

(* Evaluating a position writes its floor counter at most.                 *)
LEMMA EvaluateOneRows ==
  ASSUME TypeOK, NEW r \in Runners, NEW q \in Positions, EvaluateOne(r, q),
         NEW p \in Positions
  PROVE  /\ SameHolding(positions[p], positions'[p])
         /\ p # q => positions'[p] = positions[p]
<1>1. PICK atFloor \in BOOLEAN :
        SaveFloorHit(q, CheckFloorHit(queue[r][q], atFloor, runDay[r]), atFloor,
                     runDay[r])
  BY DEF EvaluateOne
<1>2. queue[r][q] \in Row /\ runDay[r] \in Days
  BY DEF EvaluateOne, TypeOK
<1>3. CheckFloorHit(queue[r][q], atFloor, runDay[r]) \in Row
  BY <1>2, FloorHitRow
<1>4. QED
  BY <1>1, <1>2, <1>3, SaveFloorHitFacts DEF SameHolding

(* What one step does to a row: nothing, or it evaluates it, books the     *)
(* order of some run, or opens or closes the position.                     *)
LEMMA RowCases ==
  ASSUME TypeOK, OrderInHand, [Next]_vars, NEW p \in Positions
  PROVE  \/ positions'[p] = positions[p]
         \/ /\ \E r \in Runners : EvaluateOne(r, p)
            /\ SameHolding(positions[p], positions'[p])
         \/ \E r \in Runners :
              /\ UpdateExitTracking(r) /\ order[r].pos = p
              /\ RowBooked(positions[p], order[r], positions'[p])
         \/ OpenPosition(p)
         \/ ClosePosition(p)
<1> DEFINE Goal ==
      \/ positions'[p] = positions[p]
      \/ /\ \E r \in Runners : EvaluateOne(r, p)
         /\ SameHolding(positions[p], positions'[p])
      \/ \E r \in Runners :
           /\ UpdateExitTracking(r) /\ order[r].pos = p
           /\ RowBooked(positions[p], order[r], positions'[p])
      \/ OpenPosition(p)
      \/ ClosePosition(p)
<1>1. ASSUME NEW r \in Runners, NEW q \in Positions, EvaluateOne(r, q) PROVE Goal
  BY <1>1, EvaluateOneRows
<1>2. ASSUME NEW r \in Runners, UpdateExitTracking(r) PROVE Goal
  <2>1. CASE order[r].pos = p
    BY <1>2, <2>1, UpdateCases
  <2>2. CASE order[r].pos # p
    BY <1>2, <2>2, UpdateCases
  <2>3. QED
    BY <2>1, <2>2
<1>3. ASSUME NEW q \in Positions, OpenPosition(q) \/ ClosePosition(q), q # p
      PROVE  Goal
  BY <1>3 DEF OpenPosition, ClosePosition, TypeOK
<1>4. CASE UNCHANGED positions
  BY <1>4
<1>5. \/ \E r \in Runners, q \in Positions : EvaluateOne(r, q)
      \/ \E r \in Runners : UpdateExitTracking(r)
      \/ \E q \in Positions : OpenPosition(q) \/ ClosePosition(q)
      \/ UNCHANGED positions
  BY DEF Next, Step, Start, Failure, Environment, vars, table,
         GetOpenPositionsWithExitTracking, ScanFails, QueryFails,
         GetSymbolInfoFails, ExecuteExit, UpdateExitTrackingFails, Finish,
         Crash, NextDay
<1>6. QED
  BY <1>1, <1>2, <1>3, <1>4, <1>5

(* What closing and opening do to a row. *)
LEMMA ClosedRow ==
  ASSUME TypeOK, NEW p \in Positions, ClosePosition(p)
  PROVE  /\ positions[p].status = "open" /\ positions'[p].status = "closed"
         /\ positions'[p].quantity = positions[p].quantity
         /\ positions'[p].filled = positions[p].filled
  BY DEF ClosePosition, TypeOK, Row

(* A row that has just been opened has no target filled.                   *)
LEMMA OpenedRow ==
  ASSUME TypeOK, NEW p \in Positions, OpenPosition(p)
  PROVE  /\ positions[p].status = "absent" /\ positions'[p].status = "open"
         /\ positions'[p].quantity = Quantity[p]
         /\ positions'[p].filled = {}
  BY QuantityAssumption DEF OpenPosition, TypeOK, NewRow, NoRow

(* What one step may do to a row that exists. *)
LEMMA StepAdvances ==
  ASSUME TypeOK, OrderInHand, StaleInv, [Next]_vars,
         NEW p \in Positions, positions[p].status # "absent"
  PROVE  /\ RowAdvances(positions[p], positions'[p])
         /\ positions'[p].status # "absent"
<1>1. /\ positions[p] \in Row /\ positions[p].quantity \in Nat
      /\ positions[p].filled # {2}
  BY DEF TypeOK, Row, StaleInv, RowInv
<1>2. CASE SameHolding(positions[p], positions'[p])
  BY <1>1, <1>2 DEF SameHolding, RowAdvances
<1>3. ASSUME NEW r \in Runners, UpdateExitTracking(r), order[r].pos = p,
             RowBooked(positions[p], order[r], positions'[p])
      PROVE  /\ RowAdvances(positions[p], positions'[p])
             /\ positions'[p].status # "absent"
  <2>1. order[r].level = 2 => 1 \in positions[p].filled
    BY <1>3 DEF UpdateExitTracking, Executing, StaleInv, OrderInv
  <2>2. order[r].shares \in Nat
    BY <1>3, UpdateCases
  <2>3. positions'[p].filled # {2} /\ positions[p].filled \subseteq positions'[p].filled
    BY <1>1, <1>3, <2>1 DEF RowBooked
  <2>4. positions'[p].quantity <= positions[p].quantity
    BY <1>1, <1>3, <2>2 DEF RowBooked
  <2>5. positions'[p].status = positions[p].status
    BY <1>3 DEF RowBooked
  <2>6. QED
    BY <2>3, <2>4, <2>5 DEF RowAdvances
<1>4. CASE ClosePosition(p)
  BY <1>1, <1>4, ClosedRow DEF RowAdvances
<1>5. positions'[p] = positions[p] => SameHolding(positions[p], positions'[p])
  BY DEF SameHolding
<1>6. QED
  BY <1>2, <1>3, <1>4, <1>5, RowCases DEF OpenPosition

(* No row comes to show target 2 without target 1.                         *)
LEMMA RowStep ==
  TypeOK /\ OrderInHand /\ StaleInv /\ [Next]_vars => RowInv'
<1> SUFFICES ASSUME TypeOK, OrderInHand, StaleInv, [Next]_vars,
                    NEW p \in Positions
             PROVE  /\ positions'[p].status = "absent" =>
                         positions'[p].quantity = 0 /\ positions'[p].filled = {}
                    /\ positions'[p].filled # {2}
  BY DEF RowInv
<1>1. CASE positions[p].status # "absent"
  BY <1>1, StepAdvances DEF RowAdvances
<1>2. CASE positions[p].status = "absent"
  <2>1. positions[p].quantity = 0 /\ positions[p].filled = {}
    BY <1>2 DEF StaleInv, RowInv
  <2>2. CASE SameHolding(positions[p], positions'[p])
    BY <2>1, <2>2 DEF SameHolding
  <2>3. CASE OpenPosition(p)
    BY <2>3, OpenedRow
  <2>4. ~ClosePosition(p)
    BY <1>2 DEF ClosePosition
  <2>5. \A r \in Runners : UpdateExitTracking(r) => order[r].pos # p
    BY <1>2 DEF UpdateExitTracking, Executing, StaleInv, OrderInv
  <2>6. positions'[p] = positions[p] => SameHolding(positions[p], positions'[p])
    BY DEF SameHolding
  <2>7. QED
    BY <2>2, <2>3, <2>4, <2>5, <2>6, RowCases
<1>3. QED
  BY <1>1, <1>2

(* The rows a run still has to evaluate are rows it had, or, when it has   *)
(* just started, the open rows of the table.                               *)
LEMMA QueueCases ==
  ASSUME TypeOK, [Next]_vars, NEW r \in Runners, NEW p \in DOMAIN queue'[r]
  PROVE  /\ p \in Positions
         /\ \/ p \in DOMAIN queue[r] /\ queue'[r][p] = queue[r][p]
            \/ /\ GetOpenPositionsWithExitTracking(r)
               /\ positions' = positions
               /\ positions[p].status = "open" /\ queue'[r][p] = positions[p]
<1> DEFINE Kept == p \in DOMAIN queue[r] /\ queue'[r][p] = queue[r][p]
           Goal == \/ Kept
                   \/ /\ GetOpenPositionsWithExitTracking(r)
                      /\ positions' = positions
                      /\ p \in Positions
                      /\ positions[p].status = "open" /\ queue'[r][p] = positions[p]
<1>1. ASSUME NEW s \in Runners, GetOpenPositionsWithExitTracking(s) PROVE Goal
  <2>1. CASE s = r
    BY <1>1, <2>1 DEF GetOpenPositionsWithExitTracking, TypeOK, Restrict, Open, table
  <2>2. CASE s # r
    BY <1>1, <2>2 DEF GetOpenPositionsWithExitTracking, TypeOK
  <2>3. QED
    BY <2>1, <2>2
<1>2. ASSUME NEW s \in Runners, NEW q \in Positions, NextPosition(s, q) PROVE Kept
  BY <1>2, NextPositionFacts
<1>3. ASSUME NEW s \in Runners, StopRun(s, "idle") PROVE Kept
  BY <1>3, StopRunFacts
<1>4. ASSUME queue' = queue PROVE Kept
  <2>1. p \in DOMAIN queue[r]
    BY <1>4
  <2>2. QED
    BY <1>4, <2>1
<1>5. \/ \E s \in Runners : GetOpenPositionsWithExitTracking(s)
      \/ \E s \in Runners, q \in Positions : NextPosition(s, q)
      \/ \E s \in Runners : StopRun(s, "idle")
      \/ queue' = queue
  BY DEF Next, Step, Start, Failure, Environment, vars, runner, EvaluateOne,
         ScanFails, QueryFails, GetSymbolInfoFails, ExecuteExit,
         UpdateExitTracking, UpdateExitTrackingFails, Finish, Crash, NextDay,
         OpenPosition, ClosePosition
<1>6. Goal
  BY <1>1, <1>2, <1>3, <1>4, <1>5
<1>7. DOMAIN queue[r] \subseteq Positions
  BY DEF TypeOK
<1>8. QED
  BY <1>6, <1>7

(* What a run has read as filled stays filled in the table.                *)
LEMMA SnapshotStep ==
  TypeOK /\ OrderInHand /\ StaleInv /\ [Next]_vars => SnapshotInv'
<1> SUFFICES ASSUME TypeOK, OrderInHand, StaleInv, [Next]_vars,
                    NEW r \in Runners, NEW p \in DOMAIN queue'[r]
             PROVE  /\ positions'[p].status # "absent"
                    /\ 1 \in queue'[r][p].filled => 1 \in positions'[p].filled
  BY DEF SnapshotInv
<1>1. p \in Positions
  BY QueueCases
<1>2. CASE p \in DOMAIN queue[r] /\ queue'[r][p] = queue[r][p]
  <2>1. /\ positions[p].status # "absent"
        /\ 1 \in queue[r][p].filled => 1 \in positions[p].filled
    BY <1>2 DEF StaleInv, SnapshotInv
  <2>2. RowAdvances(positions[p], positions'[p]) /\ positions'[p].status # "absent"
    BY <1>1, <2>1, StepAdvances
  <2>3. QED
    BY <1>2, <2>1, <2>2 DEF RowAdvances
<1>3. CASE /\ positions' = positions
           /\ positions[p].status = "open" /\ queue'[r][p] = positions[p]
  BY <1>3
<1>4. QED
  BY <1>2, <1>3, QueueCases

(* The order a run has in hand is one it had, or the decision it has just  *)
(* taken for a row it had read.                                            *)
LEMMA OrderCases ==
  ASSUME TypeOK, OrderInHand, [Next]_vars, NEW r \in Runners, Executing(r)'
  PROVE  \/ Executing(r) /\ order'[r] = order[r]
         \/ \E p \in DOMAIN queue[r] :
              /\ EvaluateOne(r, p)
              /\ p \in Positions /\ p \notin DOMAIN queue'[r]
              /\ order'[r].pos = p /\ order'[r].shares > 0
              /\ \/ /\ order'[r].level = 0
                    /\ order'[r].shares = queue[r][p].quantity
                 \/ /\ order'[r].level = 1 /\ 1 \notin queue[r][p].filled
                    /\ order'[r].shares = CalculateExitShares(queue[r][p].quantity, 30)
                 \/ /\ order'[r].level = 2 /\ 1 \in queue[r][p].filled
                    /\ 2 \notin queue[r][p].filled
                    /\ order'[r].shares = CalculateExitShares(queue[r][p].quantity, 30)
<1> DEFINE Kept == Executing(r) /\ order'[r] = order[r]
           Taken(p) ==
              /\ EvaluateOne(r, p)
              /\ p \in Positions /\ p \notin DOMAIN queue'[r]
              /\ order'[r].pos = p /\ order'[r].shares > 0
              /\ \/ /\ order'[r].level = 0
                    /\ order'[r].shares = queue[r][p].quantity
                 \/ /\ order'[r].level = 1 /\ 1 \notin queue[r][p].filled
                    /\ order'[r].shares = CalculateExitShares(queue[r][p].quantity, 30)
                 \/ /\ order'[r].level = 2 /\ 1 \in queue[r][p].filled
                    /\ 2 \notin queue[r][p].filled
                    /\ order'[r].shares = CalculateExitShares(queue[r][p].quantity, 30)
<1> USE DEF Executing
<1>1. ASSUME NEW s \in Runners, Start(s) \/ QueryFails(s) \/ ExecuteExit(s)
                              \/ UpdateExitTracking(s) \/ UpdateExitTrackingFails(s)
      PROVE  Kept
  BY <1>1 DEF TypeOK, Start, GetOpenPositionsWithExitTracking, ScanFails,
              QueryFails, ExecuteExit, UpdateExitTracking, UpdateExitTrackingFails
<1>2. ASSUME NEW s \in Runners, Finish(s) \/ Crash(s) PROVE Kept
  BY <1>2 DEF TypeOK, Finish, Crash, StopRun
<1>3. ASSUME NEW s \in Runners, NEW p \in Positions, EvaluateOne(s, p), s # r
      PROVE  Kept
  <2>1. phase'[r] = phase[r] /\ order'[r] = order[r]
    BY <1>3 DEF TypeOK, EvaluateOne
  <2>2. QED
    BY <2>1
<1>4. ASSUME NEW p \in Positions, EvaluateOne(r, p) PROVE p \in DOMAIN queue[r] /\ Taken(p)
  <2>1. PICK atFloor \in BOOLEAN, gain \in Gains, risk \in Risks :
          LET row == CheckFloorHit(queue[r][p], atFloor, runDay[r])
              decision == EvaluatePosition(p, row, gain, risk, tightened[r])
          IN IF decision # NoOrder /\ decision.shares > 0
             THEN /\ order' = [order EXCEPT ![r] = decision]
                  /\ phase' = [phase EXCEPT ![r] = "decided"]
             ELSE UNCHANGED <<order, phase>>
    BY <1>4 DEF EvaluateOne
  <2> DEFINE row == CheckFloorHit(queue[r][p], atFloor, runDay[r])
             decision == EvaluatePosition(p, row, gain, risk, tightened[r])
  <2>2. /\ phase[r] = "evaluating" /\ p \in DOMAIN queue[r]
        /\ NextPosition(r, p)
        /\ queue[r][p] \in Row /\ runDay[r] \in Days /\ tightened[r] \in BOOLEAN
    BY <1>4 DEF EvaluateOne, TypeOK
  <2>3. /\ row \in Row /\ row.quantity = queue[r][p].quantity
        /\ row.filled = queue[r][p].filled
    BY <2>2, FloorHitRow
  <2> HIDE DEF row
  <2>4. \/ decision = NoOrder
        \/ decision = [pos |-> p, level |-> 0, shares |-> row.quantity]
        \/ /\ decision = [pos |-> p, level |-> 1,
                          shares |-> CalculateExitShares(row.quantity, 30)]
           /\ 1 \notin row.filled
        \/ /\ decision = [pos |-> p, level |-> 2,
                          shares |-> CalculateExitShares(row.quantity, 30)]
           /\ 1 \in row.filled /\ 2 \notin row.filled
    BY <2>2, <2>3, DecisionCases
  <2> HIDE DEF decision
  <2>5. /\ decision # NoOrder /\ decision.shares > 0
        /\ order' = [order EXCEPT ![r] = decision]
    BY <2>1, <2>2 DEF decision, row
  <2>6. order'[r] = decision
    BY <2>5 DEF TypeOK
  <2>7. p \notin DOMAIN queue'[r]
    BY <2>2, NextPositionFacts
  <2>8. QED
    BY <1>4, <2>2, <2>3, <2>4, <2>5, <2>6, <2>7
<1>5. ASSUME NEW s \in Runners, NEW p \in Positions, GetSymbolInfoFails(s, p)
      PROVE  Kept
  BY <1>5 DEF GetSymbolInfoFails
<1>6. ASSUME phase' = phase, order' = order PROVE Kept
  BY <1>6
<1> HIDE DEF Taken, Kept
<1>7. Kept \/ \E p \in DOMAIN queue[r] : Taken(p)
  <2>1. \/ \E s \in Runners : \/ Start(s) \/ QueryFails(s) \/ ExecuteExit(s)
                             \/ UpdateExitTracking(s) \/ UpdateExitTrackingFails(s)
        \/ \E s \in Runners : Finish(s) \/ Crash(s)
        \/ \E s \in Runners, p \in Positions : EvaluateOne(s, p)
        \/ \E s \in Runners, p \in Positions : GetSymbolInfoFails(s, p)
        \/ phase' = phase /\ order' = order
    BY DEF Next, Step, Failure, Environment, NextDay, OpenPosition, ClosePosition,
           runner, vars
  <2>2. ASSUME NEW s \in Runners, NEW p \in Positions, EvaluateOne(s, p)
        PROVE  Kept \/ \E q \in DOMAIN queue[r] : Taken(q)
    BY <2>2, <1>3, <1>4
  <2>3. CASE \E s \in Runners : \/ Start(s) \/ QueryFails(s) \/ ExecuteExit(s)
                               \/ UpdateExitTracking(s) \/ UpdateExitTrackingFails(s)
    BY <2>3, <1>1
  <2>4. CASE \E s \in Runners : Finish(s) \/ Crash(s)
    BY <2>4, <1>2
  <2>5. CASE \E s \in Runners, p \in Positions : EvaluateOne(s, p)
    BY <2>5, <2>2
  <2>6. CASE \E s \in Runners, p \in Positions : GetSymbolInfoFails(s, p)
    BY <2>6, <1>5
  <2>7. CASE phase' = phase /\ order' = order
    BY <2>7, <1>6
  <2>8. QED
    BY <2>1, <2>3, <2>4, <2>5, <2>6, <2>7
<1>8. QED
  BY <1>7 DEF Kept, Taken

(* An order for target 2 stays behind a filled target 1.                   *)
LEMMA OrderStep ==
  TypeOK /\ OrderInHand /\ StaleInv /\ [Next]_vars => OrderInv'
<1> SUFFICES ASSUME TypeOK, OrderInHand, StaleInv, [Next]_vars,
                    NEW r \in Runners, Executing(r)'
             PROVE  LET o == order'[r]
                    IN /\ positions'[o.pos].status # "absent"
                       /\ o.level = 2 => 1 \in positions'[o.pos].filled
  BY DEF OrderInv, Executing
<1>1. CASE Executing(r) /\ order'[r] = order[r]
  <2> DEFINE p == order[r].pos
  <2>1. /\ p \in Positions /\ positions[p].status # "absent"
        /\ order[r].level = 2 => 1 \in positions[p].filled
    BY <1>1 DEF StaleInv, OrderInv, OrderInHand, Order
  <2>2. RowAdvances(positions[p], positions'[p]) /\ positions'[p].status # "absent"
    BY <2>1, StepAdvances
  <2>3. QED
    BY <1>1, <2>1, <2>2 DEF RowAdvances
<1>2. ASSUME NEW p \in DOMAIN queue[r], p \in Positions, order'[r].pos = p,
             order'[r].level = 2 => 1 \in queue[r][p].filled
      PROVE  LET o == order'[r]
             IN /\ positions'[o.pos].status # "absent"
                /\ o.level = 2 => 1 \in positions'[o.pos].filled
  <2>1. /\ positions[p].status # "absent"
        /\ 1 \in queue[r][p].filled => 1 \in positions[p].filled
    BY <1>2 DEF StaleInv, SnapshotInv
  <2>2. RowAdvances(positions[p], positions'[p]) /\ positions'[p].status # "absent"
    BY <1>2, <2>1, StepAdvances
  <2>3. QED
    BY <1>2, <2>1, <2>2 DEF RowAdvances
<1>3. QED
  BY <1>1, <1>2, OrderCases

(* The three parts together are inductive.                                 *)
LEMMA StaleStep ==
  TypeOK /\ OrderInHand /\ StaleInv /\ [Next]_vars => StaleInv'
  BY RowStep, SnapshotStep, OrderStep DEF StaleInv

(* No step turns a row back, however many runs are alive and whatever they *)
(* had read.                                                               *)
THEOREM Advancing == Spec => RowsOnlyAdvance
<1>1. TypeOK /\ OrderInHand /\ StaleInv /\ [Next]_vars =>
        [\A p \in Positions : positions[p].status # "absent" =>
           RowAdvances(positions[p], positions'[p])]_vars
  BY StepAdvances
<1>2. QED
  BY <1>1, StaleInit, StaleStep, TypeCorrect, PTL DEF Spec, RowsOnlyAdvance

-----------------------------------------------------------------------------
(* The ledger.                                                             *)

(* What one step does to a row and its booked exits. *)
LEMMA LedgerCases ==
  ASSUME TypeOK, OrderInHand, [Next]_vars, NEW p \in Positions
  PROVE  \/ /\ booked'[p] = booked[p]
            /\ \/ SameHolding(positions[p], positions'[p])
               \/ OpenPosition(p)
               \/ ClosePosition(p)
         \/ \E r \in Runners :
              /\ UpdateExitTracking(r) /\ order[r].pos = p
              /\ order[r].shares \in Nat
              /\ RowBooked(positions[p], order[r], positions'[p])
              /\ booked'[p] = booked[p] + order[r].shares
<1>1. positions'[p] = positions[p] => SameHolding(positions[p], positions'[p])
  BY DEF SameHolding
<1>2. CASE \E r \in Runners : UpdateExitTracking(r)
  <2>1. PICK r \in Runners : UpdateExitTracking(r)
    BY <1>2
  <2>2. CASE order[r].pos = p
    BY <1>1, <2>1, <2>2, UpdateCases
  <2>3. CASE order[r].pos # p
    BY <1>1, <2>1, <2>3, UpdateCases
  <2>4. QED
    BY <2>2, <2>3
<1>3. CASE ~\E r \in Runners : UpdateExitTracking(r)
  <2>1. booked' = booked
    BY <1>3 DEF Next, Step, Start, Failure, Environment, vars, ledger,
         GetOpenPositionsWithExitTracking, ScanFails, QueryFails, EvaluateOne,
         GetSymbolInfoFails, ExecuteExit, UpdateExitTrackingFails, Finish, Crash,
         NextDay, OpenPosition, ClosePosition
  <2>2. QED
    BY <1>1, <1>3, <2>1, RowCases
<1>4. QED
  BY <1>2, <1>3

(* A step moves shares from a row to its booked exits or leaves both.      *)
LEMMA LedgerStep ==
  TypeOK /\ OrderInHand /\ StaleInv /\ LedgerBalanced /\ [Next]_vars
    => LedgerBalanced'
<1> SUFFICES ASSUME TypeOK, OrderInHand, StaleInv, LedgerBalanced, [Next]_vars,
                    NEW p \in Positions
             PROVE  positions'[p].quantity + booked'[p] = Bought(p)'
  BY DEF LedgerBalanced
<1>1. /\ positions[p].quantity \in Nat /\ booked[p] \in Nat /\ Quantity[p] \in Nat
      /\ positions[p].quantity + booked[p] = Bought(p)
  BY QuantityAssumption DEF TypeOK, Row, LedgerBalanced
<1>2. CASE booked'[p] = booked[p] /\ SameHolding(positions[p], positions'[p])
  BY <1>1, <1>2 DEF SameHolding, Bought
<1>3. CASE booked'[p] = booked[p] /\ ClosePosition(p)
  BY <1>1, <1>3, ClosedRow DEF Bought
<1>4. CASE booked'[p] = booked[p] /\ OpenPosition(p)
  <2>1. positions[p].quantity = 0 /\ Bought(p) = 0 /\ Bought(p)' = Quantity[p]
    BY <1>4, OpenedRow DEF StaleInv, RowInv, Bought
  <2>2. QED
    BY <1>1, <1>4, <2>1, OpenedRow
<1>5. ASSUME NEW r \in Runners, UpdateExitTracking(r), order[r].pos = p,
             order[r].shares \in Nat,
             RowBooked(positions[p], order[r], positions'[p]),
             booked'[p] = booked[p] + order[r].shares
      PROVE  positions'[p].quantity + booked'[p] = Bought(p)'
  <2>1. Bought(p)' = Bought(p)
    BY <1>5 DEF RowBooked, Bought
  <2>2. positions'[p].quantity = positions[p].quantity - order[r].shares
    BY <1>5 DEF RowBooked
  <2>3. QED
    BY <1>1, <1>5, <2>1, <2>2
<1>6. QED
  BY <1>2, <1>3, <1>4, <1>5, LedgerCases

(* Whatever overlaps, fails or dies, a row has lost exactly the shares its *)
(* booked exits sold.                                                      *)
THEOREM Balanced == Spec => []LedgerBalanced
<1>1. Init => LedgerBalanced
  BY DEF Init, LedgerBalanced, Bought, NoRow
<1>2. TypeOK /\ OrderInHand /\ StaleInv /\ LedgerBalanced /\ [Next]_vars
        => StaleInv' /\ LedgerBalanced'
  BY StaleStep, LedgerStep
<1>3. QED
  BY <1>1, <1>2, StaleInit, TypeCorrect, PTL DEF Spec

-----------------------------------------------------------------------------
(* One run at a time.  Then what a run has read is what the table still    *)
(* says of the rows to come, and the order in hand fits its row.           *)

OneRun == ~overlapped => \A r, s \in Active : r = s

IdleInv == \A r \in Runners : r \notin Active => DOMAIN queue[r] = {}

FreshInv ==
  ~overlapped => \A r \in Runners : \A p \in DOMAIN queue[r] :
    /\ positions[p].status # "absent"
    /\ queue[r][p].quantity = positions[p].quantity
    /\ queue[r][p].filled = positions[p].filled

Fits(o, row) ==
  /\ row.status # "absent" /\ o.shares > 0
  /\ \/ o.level = 0 /\ o.shares = row.quantity
     \/ /\ o.level = 1 /\ 1 \notin row.filled
        /\ o.shares = CalculateExitShares(row.quantity, 30)
     \/ /\ o.level = 2 /\ 1 \in row.filled /\ 2 \notin row.filled
        /\ o.shares = CalculateExitShares(row.quantity, 30)

FitInv ==
  ~overlapped => \A r \in Runners : Executing(r) =>
    order[r].pos \notin DOMAIN queue[r] /\ Fits(order[r], positions[order[r].pos])

SingleInv == OneRun /\ IdleInv /\ FreshInv /\ FitInv

(* Nobody is alive at first.                                               *)
LEMMA SingleInit == Init => SingleInv
<1> SUFFICES ASSUME Init PROVE SingleInv
  OBVIOUS
<1>1. Active = {} /\ \A r \in Runners : DOMAIN queue[r] = {} /\ ~Executing(r)
  BY DEF Init, Active, Executing, EmptyQueue
<1>2. QED
  BY <1>1 DEF SingleInv, OneRun, IdleInv, FreshInv, FitInv

(* An overlap is remembered.                                               *)
LEMMA OverlapStays == TypeOK /\ [Next]_vars => (overlapped => overlapped')
  BY DEF TypeOK, Next, Step, Start, Failure, Environment, vars,
         GetOpenPositionsWithExitTracking, ScanFails, QueryFails, EvaluateOne,
         GetSymbolInfoFails, ExecuteExit, UpdateExitTracking,
         UpdateExitTrackingFails, Finish, Crash, NextDay, OpenPosition,
         ClosePosition

(* Who is alive after a step was alive before, or has just started.        *)
LEMMA ActiveCases ==
  ASSUME TypeOK, [Next]_vars
  PROVE  \/ Active' \subseteq Active
         \/ \E r \in Runners :
              /\ GetOpenPositionsWithExitTracking(r)
              /\ r \notin Active /\ Active' = Active \cup {r}
              /\ overlapped' = (overlapped \/ Active # {})
<1> USE DEF Active, TypeOK
<1>1. ASSUME NEW r \in Runners, GetOpenPositionsWithExitTracking(r)
      PROVE  /\ r \notin Active /\ Active' = Active \cup {r}
             /\ overlapped' = (overlapped \/ Active # {})
  BY <1>1 DEF GetOpenPositionsWithExitTracking
<1>2. ASSUME NEW r \in Runners, ScanFails(r) \/ QueryFails(r)
      PROVE  Active' \subseteq Active
  BY <1>2 DEF ScanFails, QueryFails
<1>3. ASSUME NEW r \in Runners, NEW p \in Positions, EvaluateOne(r, p)
      PROVE  Active' \subseteq Active
  <2>1. r \in Active /\ \A s \in Runners : s # r => phase'[s] = phase[s]
    BY <1>3 DEF EvaluateOne
  <2>2. QED
    BY <2>1
<1>4. ASSUME NEW r \in Runners, \/ ExecuteExit(r) \/ UpdateExitTracking(r)
                              \/ UpdateExitTrackingFails(r)
      PROVE  Active' \subseteq Active
  BY <1>4 DEF ExecuteExit, UpdateExitTracking, UpdateExitTrackingFails
<1>5. ASSUME NEW r \in Runners, StopRun(r, "idle") PROVE Active' \subseteq Active
  BY <1>5 DEF StopRun
<1>6. ASSUME phase' = phase PROVE Active' \subseteq Active
  BY <1>6
<1>7. \/ \E r \in Runners : GetOpenPositionsWithExitTracking(r)
      \/ \E r \in Runners : ScanFails(r) \/ QueryFails(r)
      \/ \E r \in Runners, p \in Positions : EvaluateOne(r, p)
      \/ \E r \in Runners : \/ ExecuteExit(r) \/ UpdateExitTracking(r)
                            \/ UpdateExitTrackingFails(r)
      \/ \E r \in Runners : StopRun(r, "idle")
      \/ phase' = phase
  BY DEF Next, Step, Start, Failure, Environment, vars, runner,
         GetSymbolInfoFails, Finish, Crash, NextDay, OpenPosition,
         ClosePosition
<1>8. QED
  BY <1>1, <1>2, <1>3, <1>4, <1>5, <1>6, <1>7

(* Without an overlap no second process is alive.                          *)
LEMMA OneRunStep == TypeOK /\ OneRun /\ [Next]_vars => OneRun'
  BY ActiveCases, OverlapStays DEF OneRun

(* A process that is not alive has nothing to evaluate.                    *)
LEMMA IdleStep == TypeOK /\ IdleInv /\ [Next]_vars => IdleInv'
<1> SUFFICES ASSUME TypeOK, IdleInv, [Next]_vars, NEW r \in Runners,
                    NEW p \in DOMAIN queue'[r]
             PROVE  r \in Active'
  BY DEF IdleInv
<1>1. CASE p \in DOMAIN queue[r]
  <2>1. r \in Active
    BY <1>1 DEF IdleInv
  <2>2. ~StopRun(r, "idle") /\ ~StopRun(r, "fatal")
    BY StopRunFacts
  <2>3. ASSUME NEW s \in Runners, GetOpenPositionsWithExitTracking(s)
        PROVE  r \in Active'
    BY <2>1, <2>3 DEF GetOpenPositionsWithExitTracking, Active, TypeOK
  <2>4. ASSUME NEW s \in Runners, ScanFails(s) \/ QueryFails(s) PROVE r \in Active'
    BY <2>1, <2>4 DEF ScanFails, QueryFails, Active, TypeOK
  <2>5. ASSUME NEW s \in Runners, NEW q \in Positions, EvaluateOne(s, q)
        PROVE  r \in Active'
    BY <2>1, <2>5 DEF EvaluateOne, Active, TypeOK
  <2>6. ASSUME NEW s \in Runners, \/ ExecuteExit(s) \/ UpdateExitTracking(s)
                                \/ UpdateExitTrackingFails(s)
        PROVE  r \in Active'
    BY <2>1, <2>6 DEF ExecuteExit, UpdateExitTracking, UpdateExitTrackingFails,
                      Active, TypeOK
  <2>7. ASSUME NEW s \in Runners, StopRun(s, "idle") PROVE r \in Active'
    BY <2>1, <2>2, <2>7 DEF StopRun, Active, TypeOK
  <2>8. ASSUME phase' = phase PROVE r \in Active'
    BY <2>1, <2>8 DEF Active
  <2>9. QED
    BY <2>3, <2>4, <2>5, <2>6, <2>7, <2>8
       DEF Next, Step, Start, Failure, Environment, vars, runner,
           GetSymbolInfoFails, Finish, Crash, NextDay, OpenPosition,
         ClosePosition
<1>2. CASE GetOpenPositionsWithExitTracking(r)
  BY <1>2 DEF GetOpenPositionsWithExitTracking, Active, TypeOK
<1>3. QED
  BY <1>1, <1>2, QueueCases

(* Without an overlap, the run that acts is the run that has rows to       *)
(* evaluate or an order in hand.                                           *)
LEMMA SameRun ==
  ASSUME OneRun, IdleInv, ~overlapped, NEW r \in Runners, NEW s \in Runners,
         r \in Active, Executing(s) \/ DOMAIN queue[s] # {}
  PROVE  r = s
  BY DEF OneRun, IdleInv, Active, Executing

(* Only its own steps change the rows a lone run has still to evaluate.    *)
LEMMA FreshStep ==
  TypeOK /\ OrderInHand /\ SingleInv /\ [Next]_vars => FreshInv'
<1> SUFFICES ASSUME TypeOK, OrderInHand, SingleInv, [Next]_vars, ~overlapped',
                    NEW r \in Runners, NEW p \in DOMAIN queue'[r]
             PROVE  /\ positions'[p].status # "absent"
                    /\ queue'[r][p].quantity = positions'[p].quantity
                    /\ queue'[r][p].filled = positions'[p].filled
  BY DEF FreshInv
<1>1. ~overlapped /\ OneRun /\ IdleInv /\ FreshInv /\ FitInv
  BY OverlapStays DEF SingleInv
<1>2. p \in Positions
  BY QueueCases
<1>3. CASE p \in DOMAIN queue[r] /\ queue'[r][p] = queue[r][p]
  <2>1. /\ positions[p].status # "absent"
        /\ queue[r][p].quantity = positions[p].quantity
        /\ queue[r][p].filled = positions[p].filled
    BY <1>1, <1>3 DEF FreshInv
  <2>2. ASSUME NEW s \in Runners, EvaluateOne(s, p) PROVE FALSE
    <3>1. s = r
      BY <1>1, <1>3, <2>2, SameRun DEF EvaluateOne, Active
    <3>2. NextPosition(r, p)
      BY <2>2, <3>1 DEF EvaluateOne
    <3>3. QED
      BY <1>2, <3>2, NextPositionFacts
  <2>3. ASSUME NEW s \in Runners, UpdateExitTracking(s), order[s].pos = p PROVE FALSE
    <3>1. s = r
      BY <1>1, <1>3, <2>3, SameRun DEF UpdateExitTracking, Active
    <3>2. order[r].pos \notin DOMAIN queue[r]
      BY <1>1, <2>3, <3>1 DEF FitInv, Executing, UpdateExitTracking
    <3>3. QED
      BY <1>3, <2>3, <3>1, <3>2
  <2>4. ~OpenPosition(p)
    BY <2>1 DEF OpenPosition
  <2>5. CASE positions'[p] = positions[p]
    BY <1>3, <2>1, <2>5
  <2>6. CASE ClosePosition(p)
    BY <1>2, <1>3, <2>1, <2>6, ClosedRow
  <2>7. QED
    BY <1>2, <2>2, <2>3, <2>4, <2>5, <2>6, RowCases
<1>4. CASE /\ positions' = positions
           /\ positions[p].status = "open" /\ queue'[r][p] = positions[p]
  BY <1>4
<1>5. QED
  BY <1>3, <1>4, QueueCases

(* The order of a lone run fits its row until it is carried out.           *)
LEMMA FitStep ==
  TypeOK /\ OrderInHand /\ SingleInv /\ [Next]_vars => FitInv'
<1> SUFFICES ASSUME TypeOK, OrderInHand, SingleInv, [Next]_vars, ~overlapped',
                    NEW r \in Runners, Executing(r)'
             PROVE  /\ order'[r].pos \notin DOMAIN queue'[r]
                    /\ Fits(order'[r], positions'[order'[r].pos])
  BY DEF FitInv, Executing
<1>1. ~overlapped /\ OneRun /\ IdleInv /\ FreshInv /\ FitInv
  BY OverlapStays DEF SingleInv
<1>2. CASE Executing(r) /\ order'[r] = order[r]
  <2> DEFINE p == order[r].pos
  <2>1. p \in Positions /\ p \notin DOMAIN queue[r] /\ Fits(order[r], positions[p])
    BY <1>1, <1>2 DEF FitInv, OrderInHand, Order
  <2>2. p \notin DOMAIN queue'[r]
    <3>1. ~GetOpenPositionsWithExitTracking(r)
      BY <1>2 DEF GetOpenPositionsWithExitTracking, Active, Executing
    <3>2. QED
      BY <2>1, <3>1, QueueCases
  <2>3. ASSUME NEW s \in Runners, UpdateExitTracking(s) PROVE FALSE
    <3>1. s = r
      BY <1>1, <1>2, <2>3, SameRun DEF UpdateExitTracking, Active
    <3>2. phase'[r] = "evaluating"
      BY <2>3, <3>1 DEF UpdateExitTracking, TypeOK
    <3>3. QED
      BY <3>2 DEF Executing
  <2>4. ~OpenPosition(p)
    BY <2>1 DEF OpenPosition, Fits
  <2>5. /\ positions'[p].status # "absent"
        /\ positions'[p].quantity = positions[p].quantity
        /\ positions'[p].filled = positions[p].filled
    <3>1. positions'[p] = positions[p] => SameHolding(positions[p], positions'[p])
      BY DEF SameHolding
    <3>2. SameHolding(positions[p], positions'[p]) \/ ClosePosition(p)
      BY <2>1, <2>3, <2>4, <3>1, RowCases
    <3>3. QED
      BY <2>1, <3>2, ClosedRow DEF SameHolding, Fits
  <2>6. Fits(order[r], positions'[p])
    BY <2>1, <2>5 DEF Fits
  <2>7. QED
    BY <1>2, <2>2, <2>6
<1>3. ASSUME NEW p \in DOMAIN queue[r], EvaluateOne(r, p), p \in Positions,
             p \notin DOMAIN queue'[r],
             order'[r].pos = p, order'[r].shares > 0,
             \/ /\ order'[r].level = 0
                /\ order'[r].shares = queue[r][p].quantity
             \/ /\ order'[r].level = 1 /\ 1 \notin queue[r][p].filled
                /\ order'[r].shares = CalculateExitShares(queue[r][p].quantity, 30)
             \/ /\ order'[r].level = 2 /\ 1 \in queue[r][p].filled
                /\ 2 \notin queue[r][p].filled
                /\ order'[r].shares = CalculateExitShares(queue[r][p].quantity, 30)
      PROVE  /\ order'[r].pos \notin DOMAIN queue'[r]
             /\ Fits(order'[r], positions'[order'[r].pos])
  <2>1. /\ positions[p].status # "absent"
        /\ queue[r][p].quantity = positions[p].quantity
        /\ queue[r][p].filled = positions[p].filled
    BY <1>1, <1>3 DEF FreshInv
  <2>2. SameHolding(positions[p], positions'[p])
    BY <1>3, EvaluateOneRows
  <2>3. Fits(order'[r], positions'[p])
    BY <1>3, <2>1, <2>2 DEF Fits, SameHolding
  <2>4. QED
    BY <1>3, <2>3
<1>4. QED
  BY <1>2, <1>3, OrderCases

(* The parts of the invariant of a lone run together are inductive.        *)
LEMMA SingleStep ==
  TypeOK /\ OrderInHand /\ SingleInv /\ [Next]_vars => SingleInv'
  BY OneRunStep, IdleStep, FreshStep, FitStep DEF SingleInv

-----------------------------------------------------------------------------
(* The tranches.                                                           *)

(* The table accepts a tranche that fits its row. *)
LEMMA FitIsBooked ==
  ASSUME TypeOK, OrderInHand, NEW r \in Runners, UpdateExitTracking(r),
         Fits(order[r], positions[order[r].pos]), order[r].level # 0
  PROVE  RowBooked(positions[order[r].pos], order[r], positions'[order[r].pos])
<1>1. order[r] \in Order /\ order[r].pos \in Positions /\ order[r].shares \in Nat
  BY UpdateCases
<1>2. PICK row \in Row : row = positions[order[r].pos]
  BY <1>1 DEF TypeOK
<1>3. row.quantity \in Nat
  BY DEF Row
<1>4. /\ order[r].shares = CalculateExitShares(row.quantity, 30)
      /\ order[r].shares > 0
  BY <1>2 DEF Fits
<1>5. order[r].shares < row.quantity
  BY <1>3, <1>4 DEF CalculateExitShares
<1>6. ExitedRow(row, order[r]).quantity = row.quantity - order[r].shares
  <2>1. ExitedRow(row, order[r]) =
          [row EXCEPT !.filled = row.filled \cup {order[r].level},
                      !.quantity = row.quantity - order[r].shares]
    BY <1>5 DEF ExitedRow
  <2>2. QED
    BY <2>1 DEF Row
<1>7. QuantityPositive(ExitedRow(row, order[r]))
  BY <1>1, <1>3, <1>5, <1>6 DEF QuantityPositive
<1>8. positions' = [positions EXCEPT ![order[r].pos] = ExitedRow(row, order[r])]
  BY <1>2, <1>7 DEF UpdateExitTracking
<1>9. RowBooked(row, order[r], ExitedRow(row, order[r]))
  BY <1>1, <1>7, ExitedRowFacts
<1>10. QED
  BY <1>1, <1>2, <1>8, <1>9 DEF TypeOK

(* A target exit in flight stays in flight until its run updates the row,  *)
(* fails to, or dies, and only ExecuteExit fills target exits.             *)
LEMMA FlightStays ==
  ASSUME TypeOK, [Next]_vars, NEW p \in Positions,
         \A r \in Runners : ~UpdateExitTracking(r) /\ ~UpdateExitTrackingFails(r)
                              /\ ~Crash(r)
  PROVE  /\ faults' \in Nat /\ faults \in Nat /\ faults <= faults'
         /\ (\A r \in Runners : ~ExecuteExit(r)) => tranches' = tranches
         /\ TrancheInFlight(p) => TrancheInFlight(p)'
<1>1. /\ faults' = faults \/ faults' = faults + 1
      /\ (\A r \in Runners : ~ExecuteExit(r)) => tranches' = tranches
  <2>1. faults' = faults \/ faults' = faults + 1
    BY DEF Next, Step, Start, Failure, Environment, vars, Fault,
         GetOpenPositionsWithExitTracking, ScanFails, QueryFails, EvaluateOne,
         SaveFloorHit, GetSymbolInfoFails, ExecuteExit, Finish, NextDay,
         OpenPosition, ClosePosition
  <2>2. (\A r \in Runners : ~ExecuteExit(r)) => tranches' = tranches
    BY DEF Next, Step, Start, Failure, Environment, vars, ledger,
         GetOpenPositionsWithExitTracking, ScanFails, QueryFails, EvaluateOne,
         GetSymbolInfoFails, Finish, NextDay, OpenPosition, ClosePosition
  <2>3. QED
    BY <2>1, <2>2
<1>2. ASSUME NEW s \in Runners, phase[s] = "ordered"
      PROVE  phase'[s] = "ordered" /\ order'[s] = order[s]
  <2>1. ASSUME NEW r \in Runners, NEW q \in Positions, EvaluateOne(r, q)
        PROVE  phase'[s] = "ordered" /\ order'[s] = order[s]
    <3>1. r # s
      BY <1>2, <2>1 DEF EvaluateOne
    <3>2. QED
      BY <1>2, <2>1, <3>1 DEF EvaluateOne, TypeOK
  <2>2. ASSUME NEW r \in Runners,
               GetOpenPositionsWithExitTracking(r) \/ ScanFails(r) \/ QueryFails(r)
        PROVE  phase'[s] = "ordered" /\ order'[s] = order[s]
    BY <1>2, <2>2 DEF GetOpenPositionsWithExitTracking, ScanFails, QueryFails,
                      Active, TypeOK
  <2>3. ASSUME NEW r \in Runners, ExecuteExit(r)
        PROVE  phase'[s] = "ordered" /\ order'[s] = order[s]
    BY <1>2, <2>3 DEF ExecuteExit, TypeOK
  <2>4. ASSUME NEW r \in Runners, Finish(r)
        PROVE  phase'[s] = "ordered" /\ order'[s] = order[s]
    BY <1>2, <2>4 DEF Finish, StopRun, TypeOK
  <2>5. CASE phase' = phase /\ order' = order
    BY <1>2, <2>5
  <2>6. \/ \E r \in Runners, q \in Positions : EvaluateOne(r, q)
        \/ \E r \in Runners : \/ GetOpenPositionsWithExitTracking(r) \/ ScanFails(r)
                              \/ QueryFails(r) \/ ExecuteExit(r) \/ Finish(r)
        \/ phase' = phase /\ order' = order
    BY DEF Next, Step, Start, Failure, Environment, vars, runner,
         GetSymbolInfoFails, NextDay, OpenPosition, ClosePosition
  <2>7. QED
    BY <2>1, <2>2, <2>3, <2>4, <2>5, <2>6
<1>3. TrancheInFlight(p) => TrancheInFlight(p)'
  BY <1>2 DEF TrancheInFlight
<1>4. faults \in Nat /\ faults' \in Nat /\ faults <= faults'
  BY <1>1, BoundsAssumption DEF TypeOK
<1>5. QED
  BY <1>1, <1>3, <1>4

(* A row shows no fewer filled targets after a step than before. *)
LEMMA FilledGrows ==
  ASSUME TypeOK, OrderInHand, StaleInv, [Next]_vars, NEW p \in Positions
  PROVE  positions[p].filled \subseteq positions'[p].filled
<1>1. CASE positions[p].status # "absent"
  BY <1>1, StepAdvances DEF RowAdvances
<1>2. CASE positions[p].status = "absent"
  BY <1>2 DEF StaleInv, RowInv
<1>3. QED
  BY <1>1, <1>2

(* Every step keeps the account of filled target exits.                    *)
LEMMA TrancheStep ==
  TypeOK /\ OrderInHand /\ StaleInv /\ SingleInv /\ EachTrancheSoldOnce /\ [Next]_vars
    => EachTrancheSoldOnce'
<1> SUFFICES ASSUME TypeOK, OrderInHand, StaleInv, SingleInv, EachTrancheSoldOnce,
                    [Next]_vars, ~overlapped', NEW p \in Positions
             PROVE  tranches'[p] <= FilledCount(positions'[p]) + faults'
                                      + (IF TrancheInFlight(p)' THEN 1 ELSE 0)
  BY DEF EachTrancheSoldOnce
<1>1. /\ ~overlapped /\ OneRun /\ FitInv
      /\ tranches[p] <= FilledCount(positions[p]) + faults
                          + (IF TrancheInFlight(p) THEN 1 ELSE 0)
  BY OverlapStays DEF SingleInv, EachTrancheSoldOnce
<1>2. /\ tranches[p] \in Nat /\ tranches'[p] \in Nat
      /\ faults \in Nat /\ faults' \in Nat
  BY TypeStep, BoundsAssumption DEF TypeOK
<1>3. /\ FilledCount(positions[p]) \in Nat /\ FilledCount(positions'[p]) \in Nat
      /\ FilledCount(positions[p]) <= FilledCount(positions'[p])
  BY FilledGrows DEF FilledCount
<1>4. ASSUME NEW r \in Runners, UpdateExitTrackingFails(r) \/ Crash(r)
      PROVE  faults' = faults + 1 /\ tranches' = tranches
  BY <1>4 DEF UpdateExitTrackingFails, Crash, Fault, ledger
<1>5. CASE \E r \in Runners : UpdateExitTrackingFails(r) \/ Crash(r)
  BY <1>1, <1>2, <1>3, <1>4, <1>5
<1>6. ASSUME NEW r \in Runners, UpdateExitTracking(r)
      PROVE  tranches'[p] <= FilledCount(positions'[p]) + faults'
                                  + (IF TrancheInFlight(p)' THEN 1 ELSE 0)
  <2>1. /\ tranches' = tranches /\ faults' = faults
        /\ order[r].pos \in Positions
    BY <1>6, UpdateCases DEF UpdateExitTracking
  <2>2. CASE order[r].pos = p /\ order[r].level # 0
    <3>1. Fits(order[r], positions[p])
      BY <1>1, <1>6, <2>2 DEF FitInv, Executing, UpdateExitTracking
    <3>2. RowBooked(positions[p], order[r], positions'[p])
      BY <1>6, <2>2, <3>1, FitIsBooked
    <3>3. FilledCount(positions'[p]) = FilledCount(positions[p]) + 1
      BY <3>1, <3>2 DEF Fits, RowBooked, FilledCount
    <3>4. QED
      BY <1>1, <1>2, <1>3, <2>1, <3>3
  <2>3. CASE ~(order[r].pos = p /\ order[r].level # 0)
    <3>1. ASSUME NEW s \in Runners, phase[s] = "ordered",
                 order[s].pos = p /\ order[s].level # 0
          PROVE  FALSE
      <4>1. s \in Active /\ r \in Active
        BY <1>6, <3>1 DEF Active, UpdateExitTracking
      <4>2. QED
        BY <1>1, <2>3, <3>1, <4>1 DEF OneRun
    <3>2. ~TrancheInFlight(p)
      BY <3>1 DEF TrancheInFlight
    <3>3. QED
      BY <1>1, <1>2, <1>3, <2>1, <3>2
  <2>4. QED
    BY <2>2, <2>3
<1>7. ASSUME NEW r \in Runners, ExecuteExit(r)
      PROVE  tranches'[p] <= FilledCount(positions'[p]) + faults'
                                  + (IF TrancheInFlight(p)' THEN 1 ELSE 0)
  <2>1. faults' = faults /\ r \in Active /\ phase[r] = "decided"
    BY <1>7 DEF ExecuteExit, Active
  <2>2. ~TrancheInFlight(p)
    <3>1. ASSUME NEW s \in Runners, phase[s] = "ordered" PROVE FALSE
      <4>1. s \in Active
        BY <3>1 DEF Active
      <4>2. QED
        BY <1>1, <2>1, <3>1, <4>1 DEF OneRun
    <3>2. QED
      BY <3>1 DEF TrancheInFlight
  <2>3. CASE order[r].pos = p /\ order[r].level # 0
    <3>1. tranches'[p] = tranches[p] + 1
      BY <1>7, <2>3 DEF ExecuteExit, TypeOK
    <3>2. TrancheInFlight(p)'
      BY <1>7, <2>3 DEF ExecuteExit, TypeOK, TrancheInFlight
    <3>3. QED
      BY <1>1, <1>2, <1>3, <2>1, <2>2, <3>1, <3>2
  <2>4. CASE ~(order[r].pos = p /\ order[r].level # 0)
    <3>1. tranches'[p] = tranches[p]
      BY <1>7, <2>4 DEF ExecuteExit, TypeOK
    <3>2. QED
      BY <1>1, <1>2, <1>3, <2>1, <2>2, <3>1
  <2>5. QED
    BY <2>3, <2>4
<1>8. CASE \A r \in Runners : /\ ~UpdateExitTracking(r) /\ ~ExecuteExit(r)
                              /\ ~UpdateExitTrackingFails(r) /\ ~Crash(r)
  <2>1. /\ faults <= faults' /\ tranches' = tranches
        /\ TrancheInFlight(p) => TrancheInFlight(p)'
    BY <1>8, FlightStays
  <2>2. QED
    BY <1>1, <1>2, <1>3, <2>1
<1>9. QED
  BY <1>5, <1>6, <1>7, <1>8

(* As long as no two runs were alive together, a target is sold again only *)
(* after a failure between the order and the update of the row.            *)
THEOREM TranchesOnce == Spec => []EachTrancheSoldOnce
<1>1. Init => EachTrancheSoldOnce
  <2> SUFFICES ASSUME Init, NEW p \in Positions
               PROVE  tranches[p] <= FilledCount(positions[p]) + faults
                                       + (IF TrancheInFlight(p) THEN 1 ELSE 0)
    BY DEF EachTrancheSoldOnce
  <2>1. tranches[p] = 0 /\ faults = 0 /\ FilledCount(positions[p]) \in Nat
    BY DEF Init, FilledCount
  <2>2. QED
    BY <2>1
<1>2. TypeOK /\ OrderInHand /\ StaleInv /\ SingleInv /\ EachTrancheSoldOnce
        /\ [Next]_vars => StaleInv' /\ SingleInv' /\ EachTrancheSoldOnce'
  BY StaleStep, SingleStep, TrancheStep
<1>3. QED
  BY <1>1, <1>2, StaleInit, SingleInit, TypeCorrect, PTL DEF Spec

-----------------------------------------------------------------------------
(* Refinement.                                                             *)

(* The shares of a holding as ExitLadder sees them. *)
Held(row) == IF row.status = "open" THEN row.quantity ELSE 0

(* A booked tranche is a step up the ladder, or the position was closed in *)
(* the meantime and the ladder shows nothing.                              *)
LEMMA BookedClimbs ==
  ASSUME NEW old \in Row, NEW new, NEW o \in Order, Fits(o, old),
         old.filled # {2}, RowBooked(old, o, new)
  PROVE  \/ RungOf(new) = RungOf(old) /\ Held(new) = Held(old)
         \/ /\ (30 * Held(old)) \div 100 > 0
            /\ Held(new) = Held(old) - (30 * Held(old)) \div 100
            /\ \/ RungOf(old) = "full" /\ RungOf(new) = "first"
               \/ RungOf(old) = "first" /\ RungOf(new) = "second"
<1>1. old.quantity \in Nat /\ old.filled \in SUBSET {1, 2}
  BY DEF Row
<1>2. CASE old.status # "open"
  <2>1. old.status = "closed" /\ new.status = "closed"
    BY <1>2 DEF Row, Fits, RowBooked
  <2>2. QED
    BY <2>1 DEF RungOf, Held
<1>3. CASE old.status = "open"
  <2>1. new.status = "open" /\ Held(old) = old.quantity /\ Held(new) = new.quantity
    BY <1>3 DEF RowBooked, Held
  <2>2. /\ (30 * old.quantity) \div 100 > 0
        /\ new.quantity = old.quantity - (30 * old.quantity) \div 100
    <3>1. CalculateExitShares(old.quantity, 30) = (30 * old.quantity) \div 100
      BY <1>1 DEF CalculateExitShares
    <3>2. o.shares = CalculateExitShares(old.quantity, 30) /\ o.shares > 0
      BY DEF Fits, RowBooked
    <3>3. QED
      BY <3>1, <3>2 DEF RowBooked
  <2>3. 2 \in old.filled => 1 \in old.filled
    BY <1>1
  <2>4. \/ RungOf(old) = "full" /\ RungOf(new) = "first"
        \/ RungOf(old) = "first" /\ RungOf(new) = "second"
    BY <1>3, <2>1, <2>3 DEF RungOf, Fits, RowBooked
  <2>5. QED
    BY <2>1, <2>2, <2>4
<1>4. QED
  BY <1>2, <1>3

(* As long as no two runs were alive together, every step of the table is  *)
(* a step of ExitLadder or leaves the ladder where it is.                  *)
THEOREM Refinement == Spec /\ []~overlapped => LadderRefined
<1>1. Init => Ladder!LadderInit
  BY DEF Init, Ladder!LadderInit, RungOf, NoRow
<1>2. TypeOK /\ OrderInHand /\ StaleInv /\ SingleInv /\ [Next]_vars /\ ~overlapped
        => [Ladder!LadderNext]_(Ladder!ladder)
  <2> SUFFICES ASSUME TypeOK, OrderInHand, StaleInv, SingleInv, [Next]_vars,
                      ~overlapped
               PROVE  [Ladder!LadderNext]_(Ladder!ladder)
    OBVIOUS
  <2>1. ASSUME NEW p \in Positions,
               \A q \in Positions \ {p} : positions'[q] = positions[q]
        PROVE  /\ [q \in Positions |-> RungOf(positions'[q])] =
                    [[q \in Positions |-> RungOf(positions[q])]
                       EXCEPT ![p] = RungOf(positions'[p])]
               /\ [q \in Positions |-> IF positions'[q].status = "open"
                                       THEN positions'[q].quantity ELSE 0] =
                    [[q \in Positions |-> IF positions[q].status = "open"
                                          THEN positions[q].quantity ELSE 0]
                       EXCEPT ![p] = Held(positions'[p])]
    BY <2>1 DEF Held
  <2>2. CASE \A p \in Positions : /\ RungOf(positions'[p]) = RungOf(positions[p])
                                  /\ Held(positions'[p]) = Held(positions[p])
    BY <2>2 DEF Held, Ladder!ladder
  <2>3. ASSUME NEW r \in Runners, UpdateExitTracking(r)
        PROVE  [Ladder!LadderNext]_(Ladder!ladder)
    <3>1. /\ order[r] \in Order /\ order[r].pos \in Positions
          /\ \/ positions' = positions
             \/ /\ RowBooked(positions[order[r].pos], order[r],
                             positions'[order[r].pos])
                /\ \A q \in Positions \ {order[r].pos} : positions'[q] = positions[q]
      BY <2>3, UpdateCases
    <3>2. PICK p \in Positions : p = order[r].pos
      BY <3>1
    <3>3. /\ positions[p] \in Row /\ Fits(order[r], positions[p])
          /\ positions[p].filled # {2}
      BY <2>3, <3>2 DEF TypeOK, SingleInv, FitInv, UpdateExitTracking, Executing,
                        StaleInv, RowInv
    <3>4. CASE positions' = positions
      BY <2>2, <3>4
    <3>5. CASE /\ RowBooked(positions[p], order[r], positions'[p])
               /\ \A q \in Positions \ {p} : positions'[q] = positions[q]
      <4>1. CASE /\ RungOf(positions'[p]) = RungOf(positions[p])
                 /\ Held(positions'[p]) = Held(positions[p])
        <5>1. \A q \in Positions : /\ RungOf(positions'[q]) = RungOf(positions[q])
                                   /\ Held(positions'[q]) = Held(positions[q])
          BY <3>5, <4>1
        <5>2. QED
          BY <2>2, <5>1
      <4>2. ASSUME NEW from, NEW to, RungOf(positions[p]) = from,
                   RungOf(positions'[p]) = to,
                   (30 * Held(positions[p])) \div 100 > 0,
                   Held(positions'[p]) =
                     Held(positions[p]) - (30 * Held(positions[p])) \div 100
            PROVE  Ladder!SellTranche(p, from, to)
        BY <2>1, <3>5, <4>2 DEF Ladder!SellTranche, Held
      <4>3. QED
        BY <3>1, <3>3, <3>5, <4>1, <4>2, BookedClimbs DEF Ladder!LadderNext
    <3>6. QED
      BY <3>1, <3>2, <3>4, <3>5
  <2>4. ASSUME NEW p \in Positions, OpenPosition(p) PROVE Ladder!LadderNext
    <3>1. /\ RungOf(positions[p]) = "none" /\ RungOf(positions'[p]) = "full"
          /\ Held(positions'[p]) = Quantity[p]
      BY <2>4, OpenedRow DEF RungOf, Held
    <3>2. \A q \in Positions \ {p} : positions'[q] = positions[q]
      BY <2>4 DEF OpenPosition, TypeOK
    <3>3. Ladder!Buy(p)
      BY <2>1, <3>1, <3>2 DEF Ladder!Buy
    <3>4. QED
      BY <3>3 DEF Ladder!LadderNext
  <2>5. ASSUME NEW p \in Positions, ClosePosition(p) PROVE Ladder!LadderNext
    <3>1. /\ RungOf(positions[p]) \in {"full", "first", "second"}
          /\ RungOf(positions'[p]) = "closed"
          /\ Held(positions'[p]) = 0
      BY <2>5, ClosedRow DEF RungOf, Held
    <3>2. \A q \in Positions \ {p} : positions'[q] = positions[q]
      BY <2>5 DEF ClosePosition, TypeOK
    <3>3. Ladder!CloseOut(p)
      BY <2>1, <3>1, <3>2 DEF Ladder!CloseOut
    <3>4. QED
      BY <3>3 DEF Ladder!LadderNext
  <2>6. QED
    <3>1. CASE \E r \in Runners : UpdateExitTracking(r)
      BY <2>3, <3>1
    <3>2. CASE \E p \in Positions : OpenPosition(p) \/ ClosePosition(p)
      BY <2>4, <2>5, <3>2
    <3>3. CASE /\ ~\E r \in Runners : UpdateExitTracking(r)
               /\ ~\E p \in Positions : OpenPosition(p) \/ ClosePosition(p)
      <4>1. \A p \in Positions : SameHolding(positions[p], positions'[p])
        BY <3>3, RowCases DEF SameHolding
      <4>2. QED
        BY <2>2, <4>1 DEF SameHolding, RungOf, Held
    <3>4. QED
      BY <3>1, <3>2, <3>3
<1>3. TypeOK /\ OrderInHand /\ StaleInv /\ SingleInv /\ [Next]_vars
        => StaleInv' /\ SingleInv'
  BY StaleStep, SingleStep
<1>4. QED
  BY <1>1, <1>2, <1>3, StaleInit, SingleInit, TypeCorrect, PTL
     DEF Spec, LadderRefined, Ladder!LadderSpec
=============================================================================
