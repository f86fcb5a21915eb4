SPECIFICATION Spec
CONSTANTS
  Solutions = {"h", "s", "t"}
  Heule = {"h"}
  Clients = {"c1", "c2"}
  Alone = "alone"
  Kernel <- MCKernel
  Unrestricted = {"h", "s"}
  Jobs <- MCJobs
  errorLimit = 1
  tryLimit = 2
  historyLimit = 1
  Found <- MCFound
INVARIANTS OneLineEach LineHasFile CountedIsKept
PROPERTIES EveryClientEnds
CHECK_DEADLOCK FALSE
