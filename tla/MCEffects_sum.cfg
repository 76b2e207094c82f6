SPECIFICATION Spec
CONSTANTS
  NumWorkers = 2
  NumIters = 4
  Granularity = 2
  Programs <- MCPrograms
  NumElems = 2
  VecElems = 2
  Integer = FALSE
INVARIANTS
  SumSequential
CHECK_DEADLOCK FALSE
