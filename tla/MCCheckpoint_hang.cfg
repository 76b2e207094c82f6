CONSTANTS
  w1 = w1
  w2 = w2
  Worker = {w1, w2}
  NoWorker = NoWorker
  MaxIter = 2
  Granularity = 1
  LastIteration = 99
  Fit = 4
  MaxChk = 4
SPECIFICATION Spec
INVARIANTS
  FinalAtFront
SYMMETRY Symmetry
CHECK_DEADLOCK FALSE
