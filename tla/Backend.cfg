SPECIFICATION Spec
CONSTANTS
  NumberSlots = 3
  Depth = 4
  interleaveMap <- MCMap
  MaxSegments = 12
INVARIANTS WholeFrame DeletedIsQuiet
PROPERTIES IsChannel ProcessReturns StopEnds
CHECK_DEADLOCK FALSE
