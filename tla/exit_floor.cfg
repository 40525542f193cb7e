SPECIFICATION FairSpec
CONSTANTS
  p1 = p1
  p2 = p2
  p3 = p3
  r1 = r1
  r2 = r2
  Positions = {p1}
  Runners = {r1}
  Quantity <- OnlySmall
  NullTargets <- NoNullTargets
  TradingDays <- EveryDay
  MaxDay = 4
  MaxFaults = 2
  NoDate = NoDate
  NoOrder = NoOrder
INVARIANTS
  FloorCounterSound
PROPERTIES
  EmergencyHeeded
