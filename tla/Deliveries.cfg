SPECIFICATION Spec
CONSTANTS
  i1 = i1
  i2 = i2
  i3 = i3
  i4 = i4
  Ids = {i1, i2}
  IdOf <- ReusedId
  MaxCalls = 3
  MaxGated = 2
INVARIANTS
  TypeOK
  SettledMeansAnswered
PROPERTIES
  KeepsContract
  CancelledNeverStarts
  WaitingEnds
  SettlingEnds
CHECK_DEADLOCK FALSE
