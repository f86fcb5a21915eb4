SPECIFICATION Spec
CONSTANTS
  Clients = {c1, c2}
  Paths <- MCPaths
  Reductions <- MCReductions
  Processings <- MCProcessings
  ReductionModes <- MCReductionModes
  ProcessingModes <- MCProcessingModes
  MixedModes <- MCMixedModes
  RenewModes <- MCRenewModes
  NoMode <- MCNoMode
  MaxLost = 1
  MaxFailed = 1
INVARIANTS OneWriter NothingForgotten
PROPERTIES ClientsEnd
