CONSTANTS
  Wrap = 64
  Extent = 4
  MaxRadius = 8
  U8 = 12
  Grey = 10
  Height = 1080
  Period = 3
  Places <- MCPlaces
  Cursor <- MCCursor
  MaxEvents = 5
  MaxKeys = 10
  Tree <- MCTree
  Arguments <- MCArguments
  Numbers <- MCNumbers
  PathSize = 8
  MAX_ARGUMENTS = 2
  IntSize = 65536
  MaxText = 6
  MaxNumber = 1100
SPECIFICATION Spec
INVARIANTS NothingLeaks CurrentDirExists MenusShowSelection PointerLeavesNoTrace RestoreKeepsGeometry FiguresExact TextHandled
PROPERTY SelectionShown
CHECK_DEADLOCK FALSE
