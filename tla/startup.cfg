SPECIFICATION Spec
CONSTANTS
  NumRows = 2
  Letters <- MCLetters
  Numbers <- MCNumbers
  NumNodes = 4
  LinkWeights = {1, 3}
  INFINITE_LATENCY = 10000
  Setups <- MCSetups
INVARIANTS AcceptedRingIsTheFile EndsShortest TablesLead
PROPERTIES EveryStartEnds
CHECK_DEADLOCK FALSE
