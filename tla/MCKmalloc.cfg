CONSTANTS
  Units = 7
  Requests <- MCRequests
  Scribble = {0}
SPECIFICATION FairSpec
INVARIANTS ArenaIntact
PROPERTIES FailsOnlyWhenFull KmallocReturns ImplementsHeap
