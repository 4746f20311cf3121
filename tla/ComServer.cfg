SPECIFICATION Spec
CONSTANTS
  Names = {a, b}
  NoCom = NoCom
  MaxThreads = 2
  MaxCalls = 2
SYMMETRY McSymmetry
CHECK_DEADLOCK FALSE
INVARIANTS
  RawPointersAreGood
  EstablishedWhileOpened
