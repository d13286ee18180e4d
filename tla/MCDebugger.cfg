CONSTANTS
  Model = 3
  HaltAction = "debug"
  Refresh = 1
  Ins = {0}
  IrqBound = 0
  NmiBound = 0
  MaxTraps = 2
  Programs <- MCPrograms
  Disturbed = {}
  Commanded <- MCCommanded
  Sites <- MCSites
SPECIFICATION DebugSpec
INVARIANTS TableCounts
PROPERTIES NextReturns NextStops ListingAgrees
CHECK_DEADLOCK FALSE
