CONSTANTS
  Setups <- MCSetups
  Extensions = {"00", "03", "04"}
  QueueSize = 32
  MaxInput = 2
  MaxResends = 1
  MaxLost = 1
SPECIFICATION FairSpec
INVARIANTS OneOutstanding CommandsInOrder InputIntact
PROPERTIES SetupCompletes
CHECK_DEADLOCK FALSE
