CONSTANTS
  Ids = {0, 3, 4}
  Buttons = {0, 4}
  Moves <- MCMoves
  Wheel <- MCWheel
  QueueSize = 8
  MaxPackets = 2
  MaxLost = 1
SPECIFICATION Spec
INVARIANTS ButtonsAlternate
PROPERTIES EventsMatchMotion ImplementsQueue
