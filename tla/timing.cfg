SPECIFICATION Spec
CONSTANTS
  Jobs <- MCJobs
  InCap = 2
  OutCap = 5
INVARIANTS UnderItsHeader
PROPERTIES RowsGetWritten
CHECK_DEADLOCK FALSE
