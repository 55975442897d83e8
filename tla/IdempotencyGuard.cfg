SPECIFICATION Spec
CONSTANTS
  i1 = i1
  i2 = i2
  i3 = i3
  i4 = i4
  EmptyId = empty
  Never = never
  NoAnswer = noanswer
  Ids <- FourIds
  MaxEntries = 2
  Ttl = 3
  CleanupInterval = 3
  MaxTime = 5
CHECK_DEADLOCK FALSE
SYMMETRY IdSymmetry
INVARIANTS
  TypeOK
  ForgottenUnderPressure
  Bounded
PROPERTY ImplementsFilter
