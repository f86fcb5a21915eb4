CONSTANTS
  w1 = w1
  w2 = w2
  c1 = c1
  c2 = c2
  c3 = c3
  NoClient = NoClient
  Worker <- TwoWorkers
  Client <- ThreeClients
  Leavers <- ThreeClients
  LazyOps = TRUE
  MaxGen = 2
  MaxFlush = 0
SPECIFICATION Spec
CHECK_DEADLOCK FALSE
INVARIANTS MarkersHaveManagers NoSweepWhileMarking NoUnexpectedResponse GenerationsAgree
PROPERTY ImplementsRound
