CONSTANTS
  Null = Null
  v1 = v1
  Value = {Null, v1}
  Slots = 3
SPECIFICATION FairSpec
INVARIANTS
  TypeOK
  FlagsContiguous
PROPERTIES
  ImplementsFifo
  ProduceReturns
