CONSTANTS
  NumWorkers = 2
  NumBytes = 4
  Two = 1
  Four = 1
  WordBytes = 2
  Loops <- MixedLoops
SPECIFICATION Spec
INVARIANTS
  TypeOK
  LiveOutUnlessExcused
  PrivatizableNeverFails
CONSTRAINT NotExcused
CHECK_DEADLOCK FALSE
