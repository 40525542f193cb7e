------------------------ MODULE PositionLedgerProofs ------------------------
(***************************************************************************)
(* Proofs about PositionLedger, for any number of rows, any sizes of       *)
(* purchase and any number of failures.                                    *)
(***************************************************************************)
EXTENDS PositionLedger, FiniteSetTheorems, TLAPS

(* The empty table and an idle handler have their types.                   *)
LEMMA LedgerTypeInit == Init => TypeOK
<1> SUFFICES ASSUME Init PROVE TypeOK
  OBVIOUS
<1>1. NoRow \in Row
  BY DEF NoRow, Row
<1>2. MaxFaults \in Nat
  BY LedgerBoundsAssumption
<1>3. QED
  BY <1>1, <1>2 DEF Init, TypeOK, Commands

(* The rows after one step are rows. *)
LEMMA RowsStay == TypeOK /\ [Next]_vars => positions' \in [Rows -> Row]
<1> SUFFICES ASSUME TypeOK, [Next]_vars PROVE positions' \in [Rows -> Row]
  OBVIOUS
<1>1. positions \in [Rows -> Row] /\ entered \in Nat /\ lot \in Nat
  BY DEF TypeOK
<1>2. ASSUME NEW i \in Rows, NEW row \in Row, positions' = [positions EXCEPT ![i] = row]
      PROVE  positions' \in [Rows -> Row]
  BY <1>1, <1>2
<1>3. CASE Create
  <2>1. [NoRow EXCEPT !.status = "open", !.quantity = lot] \in Row
    BY <1>1 DEF NoRow, Row
  <2>2. QED
    BY <1>2, <1>3, <2>1 DEF Create
<1>4. CASE CreateEntry
  <2>1. CASE UNCHANGED positions
    BY <1>1, <2>1
  <2>2. ASSUME NEW i \in Rows,
               positions' = [positions EXCEPT ![i].quantity = entered + lot,
                                              ![i].dated = TRUE]
        PROVE  positions' \in [Rows -> Row]
    <3> DEFINE row == [positions[i] EXCEPT !.quantity = entered + lot, !.dated = TRUE]
    <3>1. positions[i] \in Row /\ entered + lot \in Nat
      BY <1>1
    <3>2. row \in Row
      BY <3>1 DEF Row
    <3>3. positions' = [positions EXCEPT ![i] = row]
      BY <1>1, <2>2
    <3> HIDE DEF row
    <3>4. QED
      BY <1>2, <3>2, <3>3
  <2>3. QED
    BY <1>4, <2>1, <2>2 DEF CreateEntry, UpdatePositionAverageCost, Open
<1>5. ASSUME NEW n \in Lots, InsertByScript(n) PROVE positions' \in [Rows -> Row]
  <2>1. [status |-> "open", quantity |-> n, dated |-> FALSE, targets |-> TRUE] \in Row
    BY LotsAssumption DEF Row
  <2>2. QED
    BY <1>2, <1>5, <2>1 DEF InsertByScript
<1>6. ASSUME NEW i \in Rows, Close(i) PROVE positions' \in [Rows -> Row]
  <2>1. [positions[i] EXCEPT !.status = "closed"] \in Row
    BY <1>1 DEF Row
  <2>2. positions' = [positions EXCEPT ![i] = [positions[i] EXCEPT !.status = "closed"]]
    BY <1>1, <1>6 DEF Close
  <2>3. QED
    BY <1>2, <2>1, <2>2
<1>7. ASSUME NEW i \in Rows, NEW n \in Lots, UpdateExitTracking(i, n)
      PROVE  positions' \in [Rows -> Row]
  <2>1. positions[i].quantity - n \in Nat
    <3>1. positions[i].quantity \in Nat /\ n \in Nat
      BY <1>1, LotsAssumption DEF Row
    <3>2. QED
      BY <1>7, <3>1 DEF UpdateExitTracking
  <2>2. [positions[i] EXCEPT !.quantity = positions[i].quantity - n] \in Row
    BY <1>1, <2>1 DEF Row
  <2>3. positions' = [positions EXCEPT ![i] =
                        [positions[i] EXCEPT !.quantity = positions[i].quantity - n]]
    BY <1>1, <1>7 DEF UpdateExitTracking
  <2>4. QED
    BY <1>2, <2>2, <2>3
<1>8. CASE UNCHANGED positions
  BY <1>1, <1>8
<1>9. QED
  BY <1>3, <1>4, <1>5, <1>6, <1>7, <1>8
     DEF Next, Handle, Failure, Holder, Other, GetBySymbol, Confirm,
         GetBySymbolFails, WriteFails, Restart, HandleCommand, books, vars

(* Every step keeps the types.                                             *)
LEMMA LedgerTypeStep == TypeOK /\ [Next]_vars => TypeOK'
<1> SUFFICES ASSUME TypeOK, [Next]_vars PROVE TypeOK'
  OBVIOUS
<1>1. positions' \in [Rows -> Row]
  BY RowsStay
<1>2. /\ \A n \in Lots : n \in Nat
      /\ MaxFaults \in Nat
  BY LotsAssumption, LedgerBoundsAssumption
<1> USE DEF Goto, LookupError, Fault, books, handler, counts
<1>3. ASSUME NEW n \in Lots, NEW c \in Commands, HandleCommand(c, n) PROVE TypeOK'
  BY <1>1, <1>2, <1>3 DEF TypeOK, HandleCommand
<1>4. CASE GetBySymbol \/ GetBySymbolFails
  BY <1>1, <1>2, <1>4 DEF TypeOK, GetBySymbol, GetBySymbolFails
<1>5. CASE Create \/ CreateEntry \/ Confirm
  BY <1>1, <1>2, <1>5 DEF TypeOK, Create, CreateEntry, Confirm
<1>6. CASE WriteFails \/ Restart
  BY <1>1, <1>2, <1>6 DEF TypeOK, WriteFails, Restart
<1>7. ASSUME NEW n \in Lots, InsertByScript(n) PROVE TypeOK'
  BY <1>1, <1>7 DEF TypeOK, InsertByScript
<1>8. ASSUME NEW i \in Rows, NEW n \in Lots, Close(i) \/ UpdateExitTracking(i, n)
      PROVE  TypeOK'
  BY <1>1, <1>8 DEF TypeOK, Close, UpdateExitTracking
<1>9. ASSUME NEW i \in Rows, Close(i) PROVE TypeOK'
  BY <1>1, <1>9 DEF TypeOK, Close
<1>10. CASE UNCHANGED vars
  BY <1>10 DEF TypeOK, vars
<1>11. QED
  BY <1>3, <1>4, <1>5, <1>6, <1>7, <1>8, <1>9, <1>10
     DEF Next, Handle, Failure, Holder, Other

(* Every behaviour keeps the types: no exit takes a row below zero shares. *)
THEOREM LedgerTypeCorrect == Spec => []TypeOK
  BY LedgerTypeInit, LedgerTypeStep, PTL DEF Spec

-----------------------------------------------------------------------------
(* The log.  A purchase travels from asked to entered to confirmed; while  *)
(* the handler is on its way it owes the next of the three.                *)

LogInv ==
  /\ confirmed + (IF phase = "confirming" THEN lot ELSE 0) <= entered
  /\ entered + (IF phase \in {"looking", "creating", "adding", "entering"}
                THEN lot ELSE 0) <= asked

(* A purchase is entered and confirmed once at most.                       *)
LEMMA LogStep == TypeOK /\ LogInv /\ [Next]_vars => LogInv'
<1> SUFFICES ASSUME TypeOK, LogInv, [Next]_vars PROVE LogInv'
  OBVIOUS
<1>1. /\ entered \in Nat /\ asked \in Nat /\ confirmed \in Nat /\ lot \in Nat
      /\ \A n \in Lots : n \in Nat
  BY LotsAssumption DEF TypeOK
<1> USE DEF Goto, LookupError, books, handler, counts
<1>2. ASSUME NEW n \in Lots, NEW c \in Commands, HandleCommand(c, n) PROVE LogInv'
  BY <1>1, <1>2 DEF LogInv, HandleCommand
<1>3. CASE GetBySymbol \/ GetBySymbolFails
  BY <1>1, <1>3 DEF LogInv, GetBySymbol, GetBySymbolFails
<1>4. CASE Create
  BY <1>1, <1>4 DEF LogInv, Create
<1>5. CASE CreateEntry
  BY <1>1, <1>5 DEF LogInv, CreateEntry
<1>6. CASE Confirm
  BY <1>1, <1>6 DEF LogInv, Confirm
<1>7. CASE WriteFails \/ Restart
  BY <1>1, <1>7 DEF LogInv, WriteFails, Restart
<1>8. CASE UNCHANGED <<entered, asked, confirmed, handler>>
  BY <1>8 DEF LogInv
<1>9. QED
  BY <1>2, <1>3, <1>4, <1>5, <1>6, <1>7, <1>8
     DEF Next, Handle, Failure, Holder, Other, InsertByScript, Close,
         UpdateExitTracking, vars

(* The bot never confirms a purchase that is not in the log, and the log   *)
(* holds none that was not asked for.                                      *)
THEOREM Confirmed == Spec => []ConfirmedIsEntered
<1>1. Init => LogInv
  BY DEF Init, LogInv
<1>2. TypeOK /\ LogInv => ConfirmedIsEntered
  BY DEF TypeOK, LogInv, ConfirmedIsEntered
<1>3. QED
  BY <1>1, <1>2, LogStep, LedgerTypeCorrect, PTL DEF Spec

-----------------------------------------------------------------------------
(* The rows.  Without scripts and dropped errors the handler creates a row *)
(* only while none is open, so that LIMIT 1 has nothing to choose from.    *)

Undisturbed == scripted = 0 /\ blind = 0

RowsInv ==
  Undisturbed =>
    /\ \A i, j \in Open : i = j
    /\ phase = "creating" => Open = {}
    /\ \A i \in Rows : ~positions[i].targets
    /\ \A i \in Open : positions[i].dated => positions[i].quantity = entered

(* There is no row at first.                                               *)
LEMMA RowsInvInit == Init => RowsInv
  BY DEF Init, RowsInv, Open, NoRow

(* Undisturbed, the one open row keeps up with the log.                    *)
LEMMA RowsInvStep == TypeOK /\ RowsInv /\ [Next]_vars => RowsInv'
<1> SUFFICES ASSUME TypeOK, RowsInv, [Next]_vars, Undisturbed' PROVE RowsInv'
  BY DEF RowsInv
<1> USE DEF Goto, LookupError, books, handler, counts
<1>1. /\ scripted \in Nat /\ blind \in Nat
      /\ positions \in [Rows -> Row]
  BY DEF TypeOK
<1>2. Undisturbed
  BY <1>1 DEF Undisturbed, Next, Handle, Failure, Holder, Other, HandleCommand,
         GetBySymbol, GetBySymbolFails, Create, CreateEntry, Confirm, WriteFails,
         Restart, InsertByScript, Close, UpdateExitTracking, vars
<1>3. /\ \A i, j \in Open : i = j
      /\ phase = "creating" => Open = {}
      /\ \A i \in Rows : ~positions[i].targets
      /\ \A i \in Open : positions[i].dated => positions[i].quantity = entered
  BY <1>2 DEF RowsInv
<1>4. ASSUME UNCHANGED <<positions, entered>>,
             phase' # "creating" \/ phase = "creating" \/ Open = {}
      PROVE  RowsInv'
  BY <1>3, <1>4 DEF RowsInv, Open
<1>5. CASE GetBySymbol \/ GetBySymbolFails
  <2>1. blind' = 0 /\ blind = 0
    BY <1>2 DEF Undisturbed
  <2>2. phase' # "creating" \/ Open = {}
    BY <1>5, <2>1 DEF GetBySymbol, GetBySymbolFails
  <2>3. QED
    BY <1>4, <1>5, <2>2 DEF GetBySymbol, GetBySymbolFails
<1>6. CASE Create
  <2>1. PICK i \in Rows : positions' = [positions EXCEPT ![i] =
                            [NoRow EXCEPT !.status = "open", !.quantity = lot]]
    BY <1>6 DEF Create
  <2>2. /\ positions'[i].status = "open"
        /\ ~positions'[i].dated /\ ~positions'[i].targets
        /\ \A j \in Rows : j # i => positions'[j] = positions[j]
    BY <1>1, <2>1 DEF NoRow
  <2>3. Open' = {i}
    BY <1>3, <1>6, <2>2 DEF Create, Open
  <2>4. QED
    BY <1>3, <1>6, <2>2, <2>3 DEF RowsInv, Create
<1>7. CASE CreateEntry
  <2>1. phase' = "confirming" /\ entered' = entered + lot
    BY <1>7 DEF CreateEntry
  <2>2. CASE Open = {} /\ UNCHANGED positions
    BY <1>3, <2>1, <2>2 DEF RowsInv, Open
  <2>3. ASSUME NEW i \in Open,
               positions' = [positions EXCEPT ![i].quantity = entered + lot,
                                              ![i].dated = TRUE]
        PROVE  RowsInv'
    <3>1. i \in Rows /\ positions[i] \in Row
      BY <1>1, <2>3 DEF Open
    <3>2. /\ positions'[i].status = "open" /\ positions'[i].quantity = entered + lot
          /\ ~positions'[i].targets
          /\ \A j \in Rows : j # i => positions'[j] = positions[j]
      BY <1>1, <1>3, <2>3, <3>1 DEF Row, Open
    <3>3. Open' = {i}
      BY <1>3, <2>3, <3>1, <3>2 DEF Open
    <3>4. QED
      BY <1>3, <2>1, <3>2, <3>3 DEF RowsInv
  <2>4. QED
    BY <1>7, <2>2, <2>3 DEF CreateEntry, UpdatePositionAverageCost
<1>8. ASSUME NEW i \in Rows, Close(i) PROVE RowsInv'
  <2>1. /\ positions'[i].status = "closed" /\ ~positions'[i].targets
        /\ \A j \in Rows : j # i => positions'[j] = positions[j]
        /\ entered' = entered /\ phase' = phase
    BY <1>1, <1>3, <1>8 DEF Close, Row
  <2>2. Open' \subseteq Open /\ i \notin Open'
    BY <2>1 DEF Open
  <2>3. \A j \in Rows : ~positions'[j].targets
    BY <1>3, <2>1
  <2>4. \A j \in Open' : positions'[j] = positions[j]
    BY <2>1, <2>2 DEF Open
  <2>5. QED
    BY <1>3, <2>1, <2>2, <2>3, <2>4 DEF RowsInv
<1>9. ASSUME NEW i \in Rows, NEW n \in Lots, UpdateExitTracking(i, n) PROVE FALSE
  BY <1>3, <1>9 DEF UpdateExitTracking
<1>10. ASSUME NEW n \in Lots, InsertByScript(n) PROVE FALSE
  BY <1>1, <1>2, <1>10 DEF InsertByScript, Undisturbed
<1>11. CASE \/ Confirm \/ WriteFails \/ Restart \/ UNCHANGED vars
            \/ \E n \in Lots, c \in Commands : HandleCommand(c, n)
  BY <1>4, <1>11 DEF Confirm, WriteFails, Restart, HandleCommand, vars
<1>12. QED
  BY <1>5, <1>6, <1>7, <1>8, <1>9, <1>10, <1>11
     DEF Next, Handle, Failure, Holder, Other

(* As long as no row came from a script and no lookup error was dropped,   *)
(* the open row shows the shares of the log.                               *)
THEOREM LogShown == Spec => []RowShowsLog
<1>1. RowsInv => RowShowsLog
  BY DEF RowsInv, RowShowsLog, Undisturbed
<1>2. QED
  BY <1>1, RowsInvInit, RowsInvStep, LedgerTypeCorrect, PTL DEF Spec

-----------------------------------------------------------------------------
(* The number of open rows.  A handler about to create one counts as one   *)
(* row more: the lookup that sent it there found no open row, or dropped   *)
(* an error.                                                               *)

Creating == IF phase = "creating" THEN 1 ELSE 0

CountInv == Cardinality(Open) + Creating <= 1 + scripted + blind

(* One element more makes the cardinality one more at most.                *)
LEMMA OneMore ==
  ASSUME NEW S, IsFiniteSet(S), NEW x
  PROVE  /\ Cardinality(S \cup {x}) \in Nat
         /\ Cardinality(S \cup {x}) <= Cardinality(S) + 1
<1>1. Cardinality(S) \in Nat
  BY FS_CardinalityType
<1>2. Cardinality(S \cup {x}) = IF x \in S THEN Cardinality(S) ELSE Cardinality(S) + 1
  BY FS_AddElement
<1>3. QED
  BY <1>1, <1>2

(* A subset of a finite set has at most as many elements.                  *)
LEMMA NoMore ==
  ASSUME NEW S, IsFiniteSet(S), NEW T, T \subseteq S
  PROVE  Cardinality(T) \in Nat /\ Cardinality(T) <= Cardinality(S)
BY FS_Subset, FS_CardinalityType

(* There are finitely many open rows. *)
LEMMA OpenCount == IsFiniteSet(Open) /\ Cardinality(Open) \in Nat
<1>1. Open \subseteq Rows
  BY DEF Open
<1>2. QED
  BY <1>1, RowsAssumption, FS_Subset, FS_CardinalityType

(* A row is added by the script or by a handler that was creating one.     *)
LEMMA CountStep == TypeOK /\ CountInv /\ [Next]_vars => CountInv'
<1> SUFFICES ASSUME TypeOK, CountInv, [Next]_vars PROVE CountInv'
  OBVIOUS
<1>1. /\ Cardinality(Open) \in Nat /\ scripted \in Nat /\ blind \in Nat
      /\ positions \in [Rows -> Row]
  BY OpenCount DEF TypeOK
<1> USE DEF Goto, LookupError, books, handler, counts
<1>2. ASSUME Open' \subseteq Open, scripted' = scripted, blind' = blind,
             phase' # "creating" \/ phase = "creating"
      PROVE  CountInv'
  <2>1. Cardinality(Open') \in Nat /\ Cardinality(Open') <= Cardinality(Open)
    BY <1>2, OpenCount, NoMore
  <2>2. QED
    BY <1>1, <1>2, <2>1 DEF CountInv, Creating
<1>3. CASE GetBySymbol \/ GetBySymbolFails
  <2>1. Open' = Open /\ scripted' = scripted /\ phase # "creating"
    BY <1>3 DEF GetBySymbol, GetBySymbolFails, Open
  <2>2. \/ phase' # "creating" /\ blind' = blind
        \/ Open = {} /\ blind' = blind
        \/ blind' = blind + 1
    BY <1>3 DEF GetBySymbol, GetBySymbolFails
  <2>3. Open = {} => Cardinality(Open) = 0
    BY FS_EmptySet
  <2>4. QED
    BY <1>1, <2>1, <2>2, <2>3 DEF CountInv, Creating
<1>4. CASE Create
  <2>1. PICK i \in Rows : positions' = [positions EXCEPT ![i] =
                            [NoRow EXCEPT !.status = "open", !.quantity = lot]]
    BY <1>4 DEF Create
  <2>2. /\ positions'[i].status = "open"
        /\ \A j \in Rows : j # i => positions'[j] = positions[j]
    BY <1>1, <2>1 DEF NoRow
  <2>3. Open' = Open \cup {i}
    BY <2>2 DEF Open
  <2>4. Cardinality(Open') \in Nat /\ Cardinality(Open') <= Cardinality(Open) + 1
    BY <2>3, OpenCount, OneMore
  <2>5. phase = "creating" /\ phase' = "entering" /\ UNCHANGED <<scripted, blind>>
    BY <1>4 DEF Create
  <2>6. QED
    BY <1>1, <2>4, <2>5 DEF CountInv, Creating
<1>5. ASSUME NEW n \in Lots, InsertByScript(n) PROVE CountInv'
  <2>1. PICK i \in Rows : positions' = [positions EXCEPT ![i] =
            [status |-> "open", quantity |-> n, dated |-> FALSE, targets |-> TRUE]]
    BY <1>5 DEF InsertByScript
  <2>2. /\ positions'[i].status = "open"
        /\ \A j \in Rows : j # i => positions'[j] = positions[j]
    BY <1>1, <2>1
  <2>3. Open' = Open \cup {i}
    BY <2>2 DEF Open
  <2>4. Cardinality(Open') \in Nat /\ Cardinality(Open') <= Cardinality(Open) + 1
    BY <2>3, OpenCount, OneMore
  <2>5. phase' = phase /\ scripted' = scripted + 1 /\ blind' = blind
    BY <1>5 DEF InsertByScript
  <2>6. QED
    BY <1>1, <2>4, <2>5 DEF CountInv, Creating
<1>6. CASE CreateEntry
  <2>1. ASSUME NEW i \in Open,
               positions' = [positions EXCEPT ![i].quantity = entered + lot,
                                              ![i].dated = TRUE]
        PROVE  Open' = Open
    <3>1. i \in Rows /\ positions[i] \in Row
      BY <1>1, <2>1 DEF Open
    <3>2. /\ positions'[i].status = positions[i].status
          /\ \A j \in Rows : j # i => positions'[j] = positions[j]
      BY <1>1, <2>1, <3>1 DEF Row
    <3>3. QED
      BY <3>2 DEF Open
  <2>2. Open' = Open
    BY <1>6, <2>1 DEF CreateEntry, UpdatePositionAverageCost, Open
  <2>3. QED
    BY <1>2, <1>6, <2>2 DEF CreateEntry
<1>7. ASSUME NEW i \in Rows, Close(i) PROVE CountInv'
  <2>1. \A j \in Rows : positions'[j].status \in {positions[j].status, "closed"}
    BY <1>1, <1>7 DEF Close, Row
  <2>2. Open' \subseteq Open
    BY <2>1 DEF Open
  <2>3. QED
    BY <1>2, <1>7, <2>2 DEF Close
<1>8. ASSUME NEW i \in Rows, NEW n \in Lots, UpdateExitTracking(i, n) PROVE CountInv'
  <2>1. \A j \in Rows : positions'[j].status = positions[j].status
    BY <1>1, <1>8 DEF UpdateExitTracking, Row
  <2>2. Open' = Open
    BY <2>1 DEF Open
  <2>3. QED
    BY <1>2, <1>8, <2>2 DEF UpdateExitTracking
<1>9. CASE \/ Confirm \/ WriteFails \/ Restart \/ UNCHANGED vars
           \/ \E n \in Lots, c \in Commands : HandleCommand(c, n)
  BY <1>2, <1>9 DEF Confirm, WriteFails, Restart, HandleCommand, vars, Open
<1>10. QED
  BY <1>3, <1>4, <1>5, <1>6, <1>7, <1>8, <1>9 DEF Next, Handle, Failure, Holder, Other

(* Whatever fails and restarts, there is no more than one open row but for *)
(* those a script inserted and those whose lookup error was dropped.       *)
THEOREM Duplicates == Spec => []DuplicatesExplained
<1>1. Init => CountInv
  <2>1. ASSUME Init PROVE Open = {}
    BY <2>1 DEF Init, Open, NoRow
  <2>2. QED
    BY <2>1, FS_EmptySet DEF Init, CountInv, Creating
<1>2. TypeOK /\ CountInv => DuplicatesExplained
  BY OpenCount DEF TypeOK, CountInv, Creating, DuplicatesExplained
<1>3. QED
  BY <1>1, <1>2, CountStep, LedgerTypeCorrect, PTL DEF Spec
=============================================================================
