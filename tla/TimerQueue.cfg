SPECIFICATION FairSpec
CONSTANTS
  Addr <- McAddr
  Sentry = 2
  Debug = FALSE
  MinDelay = 1
  Epoch = 2
  Delays <- McDelays
  Intervals <- McIntervals
  Jumps <- McJumps
  MaxMono = 2
  MaxCreated = 2
  MaxFunctors = 1
  MaxJumps = 1
INVARIANTS
  NoDangling
  NoTimerLost
  CancelInBatchStops
  AlarmInTime
  DestructorFrees
PROPERTIES
  DueTimersRun
