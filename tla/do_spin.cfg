SPECIFICATION DSpec
CONSTANTS
  N = 4
  BufDepth = 2
  Flits = {f1, f2, f3}
  NoFlit = NoFlit
INVARIANTS IInv AssertsHold
PROPERTIES IsAtomicSpin
