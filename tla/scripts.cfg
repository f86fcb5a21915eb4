SPECIFICATION Spec
CONSTANTS
  Jobs <- MCJobs
  MaxTrue = 4
INVARIANTS CommandsSucceed ArithmeticRight BoardsRight EncodingsRight
