SPECIFICATION Safe
CONSTANTS
  NrChannels = 4
  Skip = {1}
  Live = {0, 3}
  Services = {"a", "b"}
  Guides = {}
  Saved = {}
  ScanModes = {"single"}
  UserOps = {"service"}
  NestedUser = FALSE
  MaxPosted = 2
  MaxClicks = 1
  NoChannel = NoChannel
  NoService = NoService
INVARIANTS CurrentPlays
CHECK_DEADLOCK FALSE
