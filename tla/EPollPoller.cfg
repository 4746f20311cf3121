SPECIFICATION Spec
CONSTANTS
  a = a
  b = b
  c = c
  Chan <- McChan
  NoChan = NoChan
  Fd <- McFd
  FdOf <- McFdOf
  Debug = FALSE
  InitSize = 1
INVARIANTS
  KernelMirrorsChannels
PROPERTIES
  ImplementsPoller
