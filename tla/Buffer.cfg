SPECIFICATION Spec
CONSTANTS
  Byte = {0, 10}
  Eol = 10
  Zero = 0
  kCheapPrepend = 2
  kInitialSize = 2
  ExtraSize = 2
  MaxLen = 3
  MaxSize = 7
  FindFromStart = FALSE
INVARIANTS
  AssertsHold
PROPERTIES
  ImplementsByteQueue
