SPECIFICATION FairSpec
CONSTANTS
  p1 = p1
  p2 = p2
  p3 = p3
  p4 = p4
  NumRows = 1
  NumCols = 2
  RingFile <- LineRing
  NumVnets = 1
  VcPerVnet = 1
  BufDepth = 1
  LinkLatency = 1
  PipeStages = 1
  SpinThreshold = 8
  SpinMults = {1}
  DrainAllVc = FALSE
  Packets <- ThreePackets
  Source <- LineSource
  Dest <- LineDest
  Vnet <- OneVnet
  Priority <- AnyOrder
  SendPhases <- EveryPhase
INVARIANTS
  CreditConservation PacketConservation NoLostWakeup
PROPERTIES
  ImplementsControl HaltEnds EveryPacketArrives
