SPECIFICATION Spec
CONSTANTS
  Schemes <- MCSchemes
  MaxCalls = 1
INVARIANTS CallKeeps OneCanonicalForm SymmetryMaps
CHECK_DEADLOCK FALSE
