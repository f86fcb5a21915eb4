CONSTANTS
  w1 = w1
  w2 = w2
  c1 = c1
  c2 = c2
  c3 = c3
  NoClient = NoClient
  Worker <- TwoWorkers
  Client <- TwoClients
  Leavers <- Guest
  LazyOps = FALSE
  MaxGen = 2
  MaxFlush = 0
SPECIFICATION FairSpec
CHECK_DEADLOCK FALSE
PROPERTIES RoundEndsWithClient DeferredAdmitted ConsoleReleased
