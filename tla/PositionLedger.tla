--------------------------- MODULE PositionLedger ---------------------------
(***************************************************************************)
(* The books of one user and one ticker: the rows of positions, the log of *)
(* purchases position_entries, the trigger between them (migration 000013) *)
(* and the Telegram commands /buy and /addposition that write both         *)
(* (bot_service_positions.go, position_service.go, position_repository.go).*)
(*                                                                         *)
(* A command looks the open position up, and either appends an entry to    *)
(* the log or creates a row and then an entry, in separate transactions.   *)
(* The bot handles one message at a time, but rows are also inserted by    *)
(* the scripts of ml-service, reduced by the exit evaluator and closed     *)
(* between its steps; calls fail and the process is restarted.             *)
(***************************************************************************)
EXTENDS Integers, FiniteSets

CONSTANTS
  Rows,         \* ids of the rows the table may hold: bounds their number
  Lots,         \* sizes of a purchase
  MaxAsked,     \* bound: shares ever asked to be recorded by commands
  MaxScripted,  \* bound: rows inserted by script
  MaxFaults     \* bound: failed calls and restarts

ASSUME RowsAssumption == IsFiniteSet(Rows)
ASSUME LotsAssumption == Lots \subseteq Nat \ {0}
ASSUME LedgerBoundsAssumption == {MaxAsked, MaxScripted, MaxFaults} \subseteq Nat

Commands == {"buy", "addposition"}

(* dated: first_entry_date and last_entry_date are set, not NULL.          *)
(* targets: target_1..3 are set, so that the exit evaluator can read it.   *)
Row == [status : {"absent", "open", "closed"}, quantity : Nat,
        dated : BOOLEAN, targets : BOOLEAN]

VARIABLES
  positions,   \* the rows
  entered,     \* SUM(shares_purchased) over position_entries
  asked,       \* shares the holder asked to record, repetitions included
  confirmed,   \* shares the bot has told the holder were recorded
  phase,       \* where the handler stands
  command,     \* the command it is handling
  lot,         \* and its shares
  scripted,    \* rows inserted by script
  blind,       \* lookups of /addposition whose error was dropped
  faults       \* failed calls and restarts so far

books   == <<positions, entered>>
handler == <<phase, command, lot>>
counts  == <<scripted, blind, faults>>
vars    == <<positions, entered, asked, confirmed, phase, command, lot,
             scripted, blind, faults>>

NoRow == [status |-> "absent", quantity |-> 0, dated |-> FALSE, targets |-> FALSE]

Open == {i \in Rows : positions[i].status = "open"}

Fault == faults < MaxFaults /\ faults' = faults + 1

Init ==
  /\ positions = [i \in Rows |-> NoRow]
  /\ entered = 0
  /\ asked = 0
  /\ confirmed = 0
  /\ phase = "idle"
  /\ command = "buy"
  /\ lot = 0
  /\ scripted = 0
  /\ blind = 0
  /\ faults = 0

Goto(p) == phase' = p /\ UNCHANGED <<command, lot>>

-----------------------------------------------------------------------------
(* The handlers of /buy and /addposition.                                  *)

HandleCommand(c, n) ==
  /\ phase = "idle"
  /\ asked + n <= MaxAsked
  /\ asked' = asked + n
  /\ phase' = "looking" /\ command' = c /\ lot' = n
  /\ UNCHANGED <<books, confirmed, counts>>

(* Seeded fault: /buy drops the error as /addposition does.                *)
LookupError_BuyDrops ==
  /\ Goto("creating")
  /\ blind' = IF command = "buy" THEN blind ELSE blind + 1

(* /buy gives up on an error; /addposition assigns it to _ and takes the   *)
(* nil position for "there is none".                                       *)
LookupError ==
  \/ command = "buy" /\ Goto("idle") /\ UNCHANGED blind
  \/ command = "addposition" /\ Goto("creating") /\ blind' = blind + 1

(* GetBySymbol: LIMIT 1 picks any open row.  It cannot be scanned as long  *)
(* as its entry dates are NULL.                                            *)
GetBySymbol ==
  /\ phase = "looking"
  /\ \/ Open = {} /\ Goto("creating") /\ UNCHANGED blind
     \/ \E i \in Open : positions[i].dated /\ Goto("adding") /\ UNCHANGED blind
     \/ \E i \in Open : ~positions[i].dated /\ LookupError
  /\ UNCHANGED <<books, asked, confirmed, scripted, faults>>

GetBySymbolFails ==
  /\ phase = "looking"
  /\ Fault
  /\ LookupError
  /\ UNCHANGED <<books, asked, confirmed, scripted>>

(* CreatePosition, first transaction: the row. *)
Create ==
  /\ phase = "creating"
  /\ \E i \in Rows :
       /\ positions[i].status = "absent"
       /\ positions' = [positions EXCEPT ![i] =
                          [NoRow EXCEPT !.status = "open", !.quantity = lot]]
  /\ Goto("entering")
  /\ UNCHANGED <<entered, asked, confirmed, counts>>

(* Seeded fault: the trigger adds up the new entry only.                   *)
UpdatePositionAverageCost_NewOnly(total, n) ==
  IF Open = {} THEN UNCHANGED positions
  ELSE \E i \in Open :
         positions' = [positions EXCEPT ![i].quantity = n, ![i].dated = TRUE]

(* The trigger on position_entries: whichever open row LIMIT 1 picks gets  *)
(* the total of all entries of the ticker, those of closed positions       *)
(* included; without an open row nothing happens.                          *)
UpdatePositionAverageCost(total, n) ==
  IF Open = {} THEN UNCHANGED positions
  ELSE \E i \in Open :
         positions' = [positions EXCEPT ![i].quantity = total, ![i].dated = TRUE]

(* CreateEntry, of AddEntry or as the second transaction of CreatePosition,*)
(* with the trigger it fires.                                              *)
CreateEntry ==
  /\ phase \in {"adding", "entering"}
  /\ entered' = entered + lot
  /\ UpdatePositionAverageCost(entered + lot, lot)
  /\ Goto("confirming")
  /\ UNCHANGED <<asked, confirmed, counts>>

(* Seeded fault: the error of the second transaction is only logged.       *)
WriteFails_Logged ==
  /\ phase \in {"creating", "adding", "entering"}
  /\ Fault
  /\ Goto(IF phase = "entering" THEN "confirming" ELSE "idle")
  /\ UNCHANGED <<books, asked, confirmed, scripted, blind>>

(* An INSERT fails and the command is given up; a row already created      *)
(* stays without its entry.                                                *)
WriteFails ==
  /\ phase \in {"creating", "adding", "entering"}
  /\ Fault
  /\ Goto("idle")
  /\ UNCHANGED <<books, asked, confirmed, scripted, blind>>

Confirm ==
  /\ phase = "confirming"
  /\ confirmed' = confirmed + lot
  /\ Goto("idle")
  /\ UNCHANGED <<books, asked, counts>>

(* The process is restarted; the holder gets no answer. *)
Restart ==
  /\ phase # "idle"
  /\ Fault
  /\ Goto("idle")
  /\ UNCHANGED <<books, asked, confirmed, scripted, blind>>

-----------------------------------------------------------------------------
(* The other writers.                                                      *)

(* ml-service/scripts/insert_vci_position.sql: no unique index exists, so  *)
(* ON CONFLICT DO NOTHING never finds a conflict.  No entry is written.    *)
InsertByScript(n) ==
  /\ scripted < MaxScripted
  /\ scripted' = scripted + 1
  /\ \E i \in Rows :
       /\ positions[i].status = "absent"
       /\ positions' = [positions EXCEPT ![i] =
            [status |-> "open", quantity |-> n, dated |-> FALSE, targets |-> TRUE]]
  /\ UNCHANGED <<entered, asked, confirmed, handler, blind, faults>>

(* Seeded fault: neither the statement nor the table stops at zero.        *)
UpdateExitTracking_NoCheck(i, n) ==
  /\ positions[i].targets
  /\ positions' = [positions EXCEPT ![i].quantity = @ - n]
  /\ UNCHANGED <<entered, asked, confirmed, handler, counts>>

(* The exit evaluator takes a tranche off a row it was able to read (see   *)
(* ExitEvaluator); the row may have been closed since.                     *)
UpdateExitTracking(i, n) ==
  /\ positions[i].targets
  /\ n < positions[i].quantity
  /\ positions' = [positions EXCEPT ![i].quantity = @ - n]
  /\ UNCHANGED <<entered, asked, confirmed, handler, counts>>

(* PositionRepository.Close after a sale by hand: the quantity stays. *)
Close(i) ==
  /\ positions[i].status = "open"
  /\ positions' = [positions EXCEPT ![i].status = "closed"]
  /\ UNCHANGED <<entered, asked, confirmed, handler, counts>>

-----------------------------------------------------------------------------
Handle == GetBySymbol \/ Create \/ CreateEntry \/ Confirm

Failure == GetBySymbolFails \/ WriteFails \/ Restart

Holder == \E n \in Lots : \/ \E c \in Commands : HandleCommand(c, n)
                          \/ InsertByScript(n)

Other == \E i \in Rows : Close(i) \/ \E n \in Lots : UpdateExitTracking(i, n)

Next == Handle \/ Failure \/ Holder \/ Other

Spec == Init /\ [][Next]_vars

-----------------------------------------------------------------------------
(* Properties.                                                             *)

(* Every variable keeps its type; in particular no exit takes the quantity *)
(* of a row below zero, whatever the trigger wrote into it before.         *)
TypeOK ==
  /\ positions \in [Rows -> Row]
  /\ entered \in Nat /\ asked \in Nat /\ confirmed \in Nat
  /\ lot \in Nat /\ scripted \in Nat /\ blind \in Nat
  /\ phase \in {"idle", "looking", "creating", "adding", "entering", "confirming"}
  /\ command \in Commands
  /\ faults \in 0 .. MaxFaults

(* A position is opened twice only by a script or after /addposition has   *)
(* dropped the error of its lookup: whatever fails and restarts, /buy      *)
(* never adds a second open row.                                           *)
DuplicatesExplained == Cardinality(Open) <= 1 + scripted + blind

(* What the bot confirms is in the log, and the log holds no purchase the  *)
(* holder did not ask for, through partial failures and restarts between   *)
(* the two transactions and before the answer.                             *)
ConfirmedIsEntered == confirmed <= entered /\ entered <= asked

(* As long as no row came from a script and no lookup error was dropped,   *)
(* an open row that has entries shows exactly the shares of the log,       *)
(* whatever failed or was closed before.                                   *)
RowShowsLog ==
  scripted = 0 /\ blind = 0 =>
    \A i \in Open : positions[i].dated => positions[i].quantity = entered

(* bot_service_positions.go: "/addposition usually implies creating a new  *)
(* logical position, but internal logic prevents duplicates."  A lookup    *)
(* that meets an open position does not end in creating another one.       *)
NoDuplicates ==
  [][phase = "looking" /\ Open # {} => phase' # "creating"]_vars
=============================================================================
