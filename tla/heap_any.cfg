CONSTANTS
  w1 = w1
  w2 = w2
  c1 = c1
  c2 = c2
  n1 = n1
  n2 = n2
  NoClient = NoClient
  Worker <- TwoWorkers
  Client <- TwoClients
  Leavers <- Guest
  LazyOps = FALSE
  MaxGen = 1
  MaxFlush = 0
  Node <- TwoNodes
  Home <- Apart
  Initiators <- AnyInitiator
  Reductions = TRUE
SPECIFICATION HeapSpec
CHECK_DEADLOCK FALSE
INVARIANT MarkedSurvives
