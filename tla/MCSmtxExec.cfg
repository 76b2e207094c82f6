SPECIFICATION Spec
CONSTANTS
  Rep <- MCRep
  Loc = {1, 2}
  Inv = {2}
  Programs <- MCPrograms
  QCap = 2
  TCBuf = 8
  MaxFail = 1
INVARIANTS
  TypeOK
  JoinSequential
  RmwCurrent
  AllocInSync
  ReverseComplete
  EndAfterLast
  PredictionsHold
  NoWedge
CHECK_DEADLOCK FALSE
