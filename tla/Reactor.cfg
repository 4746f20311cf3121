SPECIFICATION ReactorSpec
CONSTANTS
  a = a
  b = b
  c = c
  Chan <- McChan
  NoChan = NoChan
  Fd <- McFd
  FdOf <- McFdOf
  Ready <- McReady
  Reuse = "none"
  Tied <- McTied
CHECK_DEADLOCK FALSE
INVARIANTS
  NeverAborts
  SlotsMatchChannels
  ToHandleAreRegistered
PROPERTIES
  ImplementsPoller
