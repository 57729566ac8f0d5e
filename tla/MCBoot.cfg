CONSTANTS
  U64 = 64
  U32 = 32
  Byte = 3
  Lba28 = 16
  PerSector = 2
  Capacity = 1
  Drives <- MCDrives
  Sectors = {0, 2, 31}
  Counts = {1, 2}
  Left = {0, 255}
  Glyphs = 4
  Answers <- MCAnswers
SPECIFICATION BootSpec
INVARIANTS ReadsInside PartitionsListed TextModeReady PortsReady
PROPERTY BootEnds
CHECK_DEADLOCK FALSE
