SPECIFICATION Spec
CONSTANTS
  InDir <- CornerIn
  OutDir <- CornerOut
  NumVnets = 2
  VcPerVnet = 1
  Ordered = {1}
  UTurnCrossbar = FALSE
INVARIANTS VcAllocateSucceeds WorkConserving
PROPERTIES EveryRequestGranted
