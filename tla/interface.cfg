SPECIFICATION NiSpec
CONSTANTS
  e1 = e1
  e2 = e2
  e3 = e3
  Vnets <- TwoVnets
  Vcs <- EjectVcs
  VnetOf <- EjectVnet
  MaxSize = 1
  NoFlit = NoFlit
  NumVnets = 2
  VcPerVnet = 2
  BufDepth = 1
  Ordered = {0}
  Workloads <- AllWorkloads
INVARIANTS CapacityHeld CreditOnce StallsCounted EachDestinationOnce NoFlitOverwritten
PROPERTIES EjectsInOrder LeavesInOrder EveryMessageSent EveryVcIsFreed
