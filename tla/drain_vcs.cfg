SPECIFICATION Spec
CONSTANTS
  p1 = p1
  p2 = p2
  p3 = p3
  p4 = p4
  NumRows = 1
  NumCols = 2
  RingFile <- LineRing
  NumVnets = 2
  VcPerVnet = 2
  BufDepth = 1
  LinkLatency = 1
  PipeStages = 2
  SpinThreshold = 14
  SpinMults = {0, 3}
  DrainAllVc = TRUE
  Packets <- FourPackets
  Source <- LineSource
  Dest <- LineDest
  Vnet <- TwoVnets
  Priority <- RoutersAnyOrder
  SendPhases = {7, 9}
INVARIANTS
  NoLostWakeup
PROPERTIES
  ImplementsFlow
