SPECIFICATION Spec
CONSTANTS
  UnitsPerBlock = 4
  BlocksPerCIF = 3
  NrBlocks = 10
  Attempts = 3
PROPERTIES StopReturns
