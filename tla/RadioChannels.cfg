SPECIFICATION Spec
CONSTANTS
  NrChannels = 4
  Skip = {1}
  Live = {0, 3}
  Services = {"a", "b"}
  Guides = {"b"}
  Saved = {3, NoChannel}
  ScanModes = {"single", "continuous", "data"}
  UserOps = {"device", "background", "scan", "channel", "button", "reset", "service", "preset", "next", "mode"}
  NestedUser = FALSE
  MaxPosted = 2
  MaxClicks = 2
  NoChannel = NoChannel
  NoService = NoService
INVARIANTS  PresetAwaited
PROPERTIES ScanIsComplete UndisturbedScanEnds
CHECK_DEADLOCK FALSE
