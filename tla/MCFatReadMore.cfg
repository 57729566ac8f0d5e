CONSTANTS
  ClusterCount = 13
  EntriesPerSector = 6
  N = 3
  Disks <- MCDisks
  Root = 2
  Names = {"A"}
  Offsets = {0}
  Lengths = {2, 4}
  MaxCalls = 2
SPECIFICATION Spec
INVARIANT ReadsNoMore
CHECK_DEADLOCK FALSE
