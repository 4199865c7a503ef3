SPECIFICATION Spec
CONSTANTS
  Routers = {r1, r2}
  NoRouter = NoRouter
  Channels = {a}
  LinkLatency = 2
  SpinThreshold = 5
  MaxDelay = 3
INVARIANTS IInv Settled LockMatchesHalt
PROPERTIES HaltDiscipline
