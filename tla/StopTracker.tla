---------------------------- MODULE StopTracker ----------------------------
(***************************************************************************)
(* The position tracker with automatic stops                               *)
(* (internal/position/tracker.go, managed_tracker.go), used by several     *)
(* callers at once.  GetPosition hands out pointers: an evaluation and its *)
(* application work on the object after the tracker's lock is released,    *)
(* and ApplyAdjustment takes no lock at all.  Objects therefore have an    *)
(* identity of their own, apart from the id under which they are tracked.  *)
(***************************************************************************)
EXTENDS StopEngine, Sequences, FiniteSetsExt

CONSTANTS
  Callers,      \* goroutines that use the tracker
  Objects,      \* position objects that may be allocated
  Entry, InitialStop, Shares, Targets,  \* the position that is added
  Prices,       \* quotes
  Indicators,   \* the indicators a caller may pass, and whether a month passed
  Ids           \* ticker and second of an AddPosition

ASSUME TrackerAssumption ==
  /\ IsFiniteSet(Objects)
  /\ {Entry, InitialStop, Shares} \subseteq Nat
  /\ Entry > InitialStop /\ InitialStop > 0 /\ Shares > 0

ASSUME TrackerInputs ==
  /\ Prices \subseteq Nat /\ Targets \in Seq(Nat)
  /\ Indicators \subseteq [atr : Int, ema : Int, swingLow : Int, old : BOOLEAN]

VARIABLES
  heap,        \* the objects
  positions,   \* the open positions: id to object
  closed,      \* closedPositions
  callers,     \* what each caller is doing
  saved        \* the file: copies of the objects of the open positions

trackerVars == <<heap, positions, closed, callers, saved>>

NoObject == "none"
NoFile == [open |-> <<>>, written |-> FALSE]

NoAlerts == [stop |-> {}, targets |-> {}, timeLong |-> FALSE, largeProfit |-> FALSE]
Resting == [at |-> "idle", id |-> NoObject, object |-> NoObject, price |-> 0, stop |-> 0,
            seen |-> 0, shares |-> 0, alerts |-> NoAlerts]

Free == [entry |-> 0, stop |-> 0, risk |-> 0, targets |-> <<>>, highest |-> 0,
         remaining |-> 0, sold |-> 0, used |-> FALSE]

TrackerInit ==
  /\ heap = [o \in Objects |-> Free]
  /\ positions = <<>> /\ closed = {}
  /\ callers = [c \in Callers |-> Resting]
  /\ saved = NoFile

FreeObjects == {o \in Objects : ~heap[o].used}
Tracked == DOMAIN positions
Without(f, x) == [y \in DOMAIN f \ {x} |-> f[y]]
With(f, x, v) == [y \in DOMAIN f \cup {x} |-> IF y = x THEN v ELSE f[y]]

(* The id is the ticker and the second: a second position of the same      *)
(* second takes the place of the first.                                    *)
AddPosition(id) ==
  /\ FreeObjects # {}
  /\ LET o == CHOOSE x \in FreeObjects : TRUE
     IN  /\ heap' = [heap EXCEPT ![o] =
              [entry |-> Entry, stop |-> InitialStop, risk |-> Entry - InitialStop,
               targets |-> Targets, highest |-> Entry,
               remaining |-> Shares, sold |-> 0, used |-> TRUE]]
         /\ positions' = With(positions, id, o)
  /\ UNCHANGED <<closed, callers, saved>>

(* calculateStopMetrics and checkStopAlerts: a stop that is hit is not     *)
(* also reported as less than 2% of the price away.                        *)
StopAlerts(o, price) ==
  IF price <= o.stop THEN {"STOP_HIT"}
  ELSE IF (price - o.stop) * 100 < 2 * price THEN {"STOP_CLOSE"} ELSE {}

(* calculateTargetProgress, cut off at 0 and 100%.                         *)
PercentComplete(o, target, price) ==
  LET way == ((price - o.entry) * 100) \div (target - o.entry)
  IN  IF target <= o.entry \/ way < 0 THEN 0 ELSE IF way > 100 THEN 100 ELSE way

TargetAlerts(o, price) ==
  UNION {IF price >= o.targets[i] THEN {<<"TARGET_HIT", i>>}
         ELSE IF PercentComplete(o, o.targets[i], price) >= 90
         THEN {<<"TARGET_CLOSE", i>>} ELSE {} : i \in DOMAIN o.targets}

(* CheckAlerts; `old` is whether thirty days have passed.                  *)
CheckAlerts(o, price, old) ==
  [stop |-> StopAlerts(o, price), targets |-> TargetAlerts(o, price),
   timeLong |-> old, largeProfit |-> o.risk > 0 /\ price - o.entry >= 4 * o.risk]

(* UpdatePositionWithStopManagement, first the price under the lock and    *)
(* the alerts it returns.                                                  *)
UpdatePositionPrice(c, id, price, old) ==
  /\ callers[c].at = "idle" /\ id \in Tracked
  /\ heap' = [heap EXCEPT ![positions[id]].highest = IF price > @ THEN price ELSE @]
  /\ callers' = [callers EXCEPT ![c] =
       [Resting EXCEPT !.at = "get", !.id = id, !.price = price,
                       !.alerts = CheckAlerts(heap[positions[id]], price, old)]]
  /\ UNCHANGED <<positions, closed, saved>>

(* GetPosition, and the evaluation of the object it hands out.             *)
GetAndEvaluate(c, ind) ==
  /\ callers[c].at = "get"
  /\ LET id == callers[c].id
         stops == IF id \in Tracked
                  THEN EvaluateStopAdjustment(heap[positions[id]], callers[c].price, ind)
                  ELSE {}
     IN  callers' = [callers EXCEPT ![c] =
           IF stops = {} THEN Resting
           ELSE [@ EXCEPT !.at = "apply", !.object = positions[id],
                          !.stop = CHOOSE s \in stops : TRUE,
                          !.seen = heap[positions[id]].stop]]
  /\ UNCHANGED <<heap, positions, closed, saved>>

(* No lock: the stop of the object is what it is by now.                   *)
ApplyAdjustment(c) ==
  /\ callers[c].at = "apply"
  /\ heap' = [heap EXCEPT ![callers[c].object].stop = callers[c].stop]
  /\ callers' = [callers EXCEPT ![c] = Resting]
  /\ UNCHANGED <<positions, closed, saved>>

(* Seeded fault: the shares are not checked again under the lock.          *)
EnoughShares_Unchecked(o, n) == TRUE

EnoughShares(o, n) == n <= heap[o].remaining

(* PartialExit, under the lock: refused, or recorded and, with no share    *)
(* left, moved to the closed positions.                                    *)
SellShares(id, n) ==
  LET o == positions[id]
  IN  IF id \notin Tracked \/ ~EnoughShares(o, n)
      THEN UNCHANGED <<heap, positions, closed>>
      ELSE /\ heap' = [heap EXCEPT ![o].remaining = @ - n, ![o].sold = @ + n]
           /\ IF heap[o].remaining = n
              THEN closed' = closed \cup {o} /\ positions' = Without(positions, id)
              ELSE UNCHANGED <<closed, positions>>

PartialExit(id, n) ==
  /\ id \in Tracked
  /\ SellShares(id, n)
  /\ UNCHANGED <<callers, saved>>

(* ClosePosition reads the remaining shares and sells as many, in two      *)
(* critical sections.                                                      *)
ClosePosition(c, id) ==
  /\ callers[c].at = "idle" /\ id \in Tracked
  /\ callers' = [callers EXCEPT ![c] = [Resting EXCEPT !.at = "close", !.id = id,
                                          !.shares = heap[positions[id]].remaining]]
  /\ UNCHANGED <<heap, positions, closed, saved>>

ClosePositionSells(c) ==
  /\ callers[c].at = "close"
  /\ SellShares(callers[c].id, callers[c].shares)
  /\ callers' = [callers EXCEPT ![c] = Resting]
  /\ UNCHANGED <<saved>>

(* The bound: the file is written once. *)
SavePositions ==
  /\ ~saved.written
  /\ saved' = [open |-> [id \in Tracked |-> heap[positions[id]]], written |-> TRUE]
  /\ UNCHANGED <<heap, positions, closed, callers>>

(* New objects are made from the file, one for each open position; those   *)
(* in memory are forgotten.  Closed positions are read only, so their      *)
(* copies need no object here.                                             *)
LoadPositions ==
  /\ saved.written /\ Cardinality(FreeObjects) >= Cardinality(DOMAIN saved.open)
  /\ \E f \in [DOMAIN saved.open -> FreeObjects] :
       /\ \A i, j \in DOMAIN f : f[i] = f[j] => i = j
       /\ positions' = f
       /\ heap' = [o \in Objects |->
            IF \E i \in DOMAIN f : f[i] = o
            THEN saved.open[CHOOSE i \in DOMAIN f : f[i] = o] ELSE heap[o]]
  /\ closed' = {}
  /\ UNCHANGED <<callers, saved>>

TrackerNext ==
  \/ \E id \in Ids : AddPosition(id)
  \/ \E c \in Callers, id \in Tracked, price \in Prices, ind \in Indicators :
       UpdatePositionPrice(c, id, price, ind.old)
  \/ \E c \in Callers, ind \in Indicators : GetAndEvaluate(c, ind)
  \/ \E c \in Callers : ApplyAdjustment(c)
  \/ \E id \in Tracked, n \in 1..Shares : PartialExit(id, n)
  \/ \E c \in Callers, id \in Tracked : ClosePosition(c, id)
  \/ \E c \in Callers : ClosePositionSells(c)
  \/ SavePositions \/ LoadPositions

TrackerSpec == TrackerInit /\ [][TrackerNext]_trackerVars

-----------------------------------------------------------------------------
(* Properties.                                                             *)

TrackerTypeOK ==
  /\ \A o \in Objects : {heap[o].stop, heap[o].remaining, heap[o].sold} \subseteq Nat
  /\ Tracked \subseteq Ids
  /\ \A id \in Tracked : positions[id] \in Objects
  /\ closed \subseteq Objects

(* NeverWidenStop: a stop goes down only when ApplyAdjustment applies an   *)
(* evaluation of an older stop, which another caller has raised since.     *)
StopLoweredByRaceOnly ==
  [][\A o \in Objects :
       heap[o].used /\ heap'[o].stop < heap[o].stop
         => \E c \in Callers : /\ callers[c].at = "apply" /\ callers[c].object = o
                               /\ callers[c].seen < heap[o].stop]_trackerVars

(* PartialExit, ClosePosition, a same-second AddPosition and LoadPositions *)
(* in any order sell no share twice and lose none: open positions have     *)
(* shares left, closed ones have none, and sold and remaining shares add   *)
(* up to the purchase.                                                     *)
SharesAddUp ==
  /\ \A o \in Objects : heap[o].used => heap[o].remaining + heap[o].sold = Shares
  /\ \A id \in Tracked : heap[positions[id]].remaining > 0
  /\ \A o \in closed : heap[o].remaining = 0
=============================================================================
