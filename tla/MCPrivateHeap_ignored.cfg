CONSTANTS
  NumWorkers = 2
  NumBytes = 1
  Two = 1
  Four = 1
  WordBytes = 1
  Loops <- OneByte
SPECIFICATION Spec
INVARIANTS
  LiveOutSequential
CHECK_DEADLOCK FALSE
