SPECIFICATION Spec
CONSTANTS
  SubChs = {1, 2}
  Flags = {"fore"}
  BlocksPerCIF = 2
  LastBlock = 7
  MaxBackends = 3
  MaxFrames = 3
INVARIANTS NoUseAfterDelete VectorIsObjects CifOfOneFrame
PROPERTIES CifsInOrder
CHECK_DEADLOCK FALSE
