SPECIFICATION MCSpec
CONSTANTS
  SIds = {1, 2}
  Labels = {"A", "B", "D"}
  SubChIds = {1, 2, 3}
  SCIdSet = {7}
  ClusterIds = {1, 2}
  Flags = {"traffic", "news"}
  NServices = 2
  NComps = 2
  MaxCompNr = 1
  AnnounceMax = 6
  Ensembles <- JustChange
  GuiOps = {}
  NoSId = NoSId
  NoLabel = NoLabel
PROPERTIES ChangeKeepsHealthy
