CONSTANTS
  ClusterCount = 13
  EntriesPerSector = 6
  N = 3
  Disks <- MCDisks
  Root = 2
  Names = {"A", "C", "D"}
  Offsets = {2, 4, 6}
  Lengths = {2, 6}
  MaxCalls = 4
SPECIFICATION Spec
INVARIANTS NoSharedClusters ReadReturnsFile WriteLands
PROPERTIES OthersKeepContent
CHECK_DEADLOCK FALSE
