CONSTANTS
  Keys <- MCKeys
  QueueSize = 2
  WireSize = 5
  MaxSent = 4
SPECIFICATION FairSpec
INVARIANTS ModifiersFollowKeys
PROPERTIES EventsMatchScanCodes ImplementsQueue AllHandled
