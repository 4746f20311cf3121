SPECIFICATION LoggingSpec
CONSTANTS
  kCheckTimeRoll = 1
  kRollPerSeconds = 4
  FlushInterval = 1
  RollSize = 6
  Lens = {1, 2}
  MaxNow = 4
  MaxWritten = 6
  kSmallBuffer = 8
  kMaxNumericSize = 4
  Threads = {t1, t2}
  Levels <- McLevels
  Messages <- McMessages
  Numbers <- McNumbers
SYMMETRY McSymmetry
CHECK_DEADLOCK FALSE
INVARIANTS
  DayRollInTime
  FlushInTime
  StreamInBounds
  FatalLineIsOut
PROPERTIES
  LineShowsItsSecond
