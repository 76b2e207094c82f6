SPECIFICATION Spec
CONSTANTS
  NumWorkers = 2
  NumIters = 8
  Granularity = 4
  Programs <- MCPrograms
  NumElems = 1
  VecElems = 2
  Integer = FALSE
INVARIANTS
  TypeOK
  OutputIsPrefix
  JoinSequential
  RecoveryPoint
  SumSequential
CHECK_DEADLOCK FALSE
