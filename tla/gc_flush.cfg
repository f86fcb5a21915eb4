CONSTANTS
  w1 = w1
  w2 = w2
  c1 = c1
  c2 = c2
  c3 = c3
  NoClient = NoClient
  Worker <- TwoWorkers
  Client <- TwoClients
  Leavers <- TwoClients
  LazyOps = FALSE
  MaxGen = 1
  MaxFlush = 2
SPECIFICATION Spec
CHECK_DEADLOCK FALSE
SYMMETRY PairSymmetry
INVARIANTS TypeOK NewcomersWait RoundBookkeeping StatsAccounted
