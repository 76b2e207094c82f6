SPECIFICATION FairSpec
CONSTANTS
  Thread = {t1, t2}
  c1 = c1
  c2 = c2
  Client = {c1, c2}
  Fin = Fin
  NumItems <- MCNumItems
  MaxIntr = 1
  Exit = Exit
  Nothing = Nothing
INVARIANTS
  TypeOK
  FinishComplete
  WaitMeansRan
  HandleAlive
PROPERTIES
  ImplementsPool
  FinishReturns
CHECK_DEADLOCK FALSE
