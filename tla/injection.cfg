SPECIFICATION Spec
CONSTANTS
  Dests = {d1, d2}
  Vnets = {0, 2}
  MaxOutstanding = 2
  TransitionsPerCycle = 2
  MaxSize = 1
  DeadlockThreshold = 3
  Ids = {i1, i2, i3, i4}
  None = None
INVARIANTS
  RetryListed
  EveryPacketOnce
  DeadlockNoticed
PROPERTIES
  EveryRetryEnds
CHECK_DEADLOCK FALSE
