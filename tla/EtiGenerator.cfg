SPECIFICATION Spec
CONSTANTS
  Depth = 4
  Map <- Map4
  CifsPerFrame = 2
  BlocksPerCIF = 2
INVARIANTS InStep
PROPERTIES FramesGoOn
