CONSTANTS
  Events <- MCEvents
  QueueSize = 2
  MaxLength = 6
  HistorySize = 3
  MaxKeys = 10
  MaxEnters = 4
SPECIFICATION FairSpec
INVARIANTS HistoryIsLatest
PROPERTIES NavigationFollowsHistory KeysHandled
CHECK_DEADLOCK FALSE
