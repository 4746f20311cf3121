SPECIFICATION FairSpec
CONSTANTS
  c1 = c1
  c2 = c2
  w1 = w1
  w2 = w2
  Caller = {c1, c2}
  Worker = {w1, w2}
  MaxCalls = 2
  MaxQueueSize = 2
  Debug = FALSE
CHECK_DEADLOCK FALSE
INVARIANTS
  QueueBounded
  NoWakeupLost
  AtMostOneMoreTask
PROPERTIES
  TasksAreExecuted
  StopReturns
