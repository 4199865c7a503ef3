SPECIFICATION Spec
CONSTANTS
  NumRows = 3
  NumCols = 4
  Cut = {}
  XWeight = 1
  YWeight = 2
  Selected = {"TABLE_", "XY_", "RANDOM_", "ADAPT_RAND_", "WestFirst_", "ADAPT_WestFirst_"}
  MaxFree = 1
INVARIANTS EjectsAtDestination NoWaitCycle
PROPERTIES EveryHopNearer
CHECK_DEADLOCK FALSE
