CONSTANTS
  w1 = w1
  w2 = w2
  w3 = w3
  Worker = {w1, w2, w3}
  NoWorker = NoWorker
  MaxIter = 3
  Granularity = 1
  LastIteration = 99
  Fit = 2
  MaxChk = 4
SPECIFICATION Spec
INVARIANTS
  CommitFront
  HeapsExclusive
  JoinFindsOne
  RegionComplete
SYMMETRY Symmetry
CONSTRAINT FirstRegion
CHECK_DEADLOCK FALSE
