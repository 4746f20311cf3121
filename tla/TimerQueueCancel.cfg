SPECIFICATION Spec
CONSTANTS
  Addr <- McLowAddr
  Sentry = 2
  Debug = FALSE
  MinDelay = 1
  Epoch = 2
  Delays <- McPastDelays
  Intervals <- McIntervals
  Jumps <- McNoJumps
  MaxMono = 2
  MaxCreated = 2
  MaxFunctors = 0
  MaxJumps = 0
PROPERTIES
  CancelledNeverRuns
