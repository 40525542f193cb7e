SPECIFICATION Spec
CONSTANTS
  p1 = p1
  p2 = p2
  p3 = p3
  r1 = r1
  r2 = r2
  Positions = {p1}
  Runners = {r1}
  Quantity <- OnlyBig
  NullTargets <- NoNullTargets
  TradingDays <- EveryDay
  MaxDay = 2
  MaxFaults = 0
  NoDate = NoDate
  NoOrder = NoOrder
PROPERTIES
  FullExitCloses
