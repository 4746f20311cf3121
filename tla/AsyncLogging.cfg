SPECIFICATION FairSpec
CONSTANTS
  Cap = 2
  DropLimit = 3
  MaxMessages = 12
CHECK_DEADLOCK FALSE
INVARIANTS
  AssertsHold
  InOrderOnce
  IdleStopFlushes
PROPERTIES
  MessagesWritten
  StartAndStopReturn
