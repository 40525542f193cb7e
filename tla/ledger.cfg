SPECIFICATION Spec
CONSTANTS
  i1 = i1
  i2 = i2
  i3 = i3
  Rows = {i1, i2, i3}
  Lots <- SmallLots
  MaxAsked = 4
  MaxScripted = 1
  MaxFaults = 2
SYMMETRY AnyRow
INVARIANTS
  TypeOK
  DuplicatesExplained
  ConfirmedIsEntered
  RowShowsLog
CHECK_DEADLOCK FALSE
