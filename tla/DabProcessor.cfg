SPECIFICATION Spec
CONSTANTS
  UnitsPerBlock = 4
  BlocksPerCIF = 3
  NrBlocks = 10
  Attempts = 3
INVARIANTS TypeOK FicAligned FicWordOfOneFrame QuietAfterStop LostOnlyIfReached
PROPERTIES StopReturnsOnceRunning
