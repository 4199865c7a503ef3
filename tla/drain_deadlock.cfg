SPECIFICATION FairSpec
CONSTANTS
  p1 = p1
  p2 = p2
  p3 = p3
  p4 = p4
  NumRows = 2
  NumCols = 2
  RingFile <- SquareRing
  NumVnets = 1
  VcPerVnet = 1
  BufDepth = 1
  LinkLatency = 1
  PipeStages = 1
  SpinThreshold = 12
  SpinMults = {1}
  DrainAllVc = FALSE
  Packets <- FourPackets
  Source <- DiagSource
  Dest <- DiagDest
  Vnet <- OneVnet
  Priority <- RoutersAnyOrder
  SendPhases = {0}
PROPERTIES
  EveryPacketArrives
