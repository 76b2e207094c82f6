CONSTANTS
  w1 = w1
  w2 = w2
  Worker = {w1, w2}
  NoWorker = NoWorker
  MaxIter = 3
  Granularity = 1
  LastIteration = 99
  Fit = 2
  MaxChk = 5
SPECIFICATION FairSpec
PROPERTIES
  CheckpointReturns
ACTION_CONSTRAINT OneInvocation
CHECK_DEADLOCK FALSE
