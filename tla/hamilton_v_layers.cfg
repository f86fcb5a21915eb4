SPECIFICATION Spec
CONSTANTS
  Jobs <- LayeredJobs
  MaxTrue = 4
INVARIANT EncodesPaths
