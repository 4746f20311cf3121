SPECIFICATION FairSpec
CONSTANTS
  MaxPushed = 3
INVARIANTS
  FifoExactlyOnce
  NoDanglingUse
PROPERTIES
  QueuedAreExecuted
  StartLoopReturns
  DestructorReturnsIfLooping
