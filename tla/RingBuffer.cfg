SPECIFICATION Spec
CONSTANTS
  N = 4
  MaxBatch = 5
  MaxItems = 11
INVARIANTS AvailableInRange NoDataRace
PROPERTIES IsChannel
