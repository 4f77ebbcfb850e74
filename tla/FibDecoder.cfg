SPECIFICATION MCSpec
CONSTANTS
  SIds = {1, 2}
  Labels = {"A", "B", "D"}
  SubChIds = {1, 2, 3}
  SCIdSet = {7}
  ClusterIds = {1, 2}
  Flags = {"traffic", "news"}
  NServices = 3
  NComps = 3
  MaxCompNr = 1
  AnnounceMax = 6
  Ensembles <- AllEnsembles
  GuiOps = {"subch", "audio", "packet"}
  NoSId = NoSId
  NoLabel = NoLabel
INVARIANTS TypeOK CompsDense CompsUnique CompsHaveSubChannel ServicesFound IndexStable AnnouncedResolvesStatic OnAirCanEnd
PROPERTIES ChangeDropsUnhealthy
