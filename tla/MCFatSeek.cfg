CONSTANTS
  ClusterCount = 13
  EntriesPerSector = 6
  N = 3
  Disks <- MCDisks
  Root = 2
  Names = {"A"}
  Offsets = {4}
  Lengths = {1, 2}
  MaxCalls = 2
SPECIFICATION Spec
INVARIANT WritesWhereAsked
CHECK_DEADLOCK FALSE
