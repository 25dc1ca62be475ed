SPECIFICATION FairSpec
CONSTANTS
  n1 = n1
  n2 = n2
  Names <- MCNames
  RefreshAhead = 2
  MinLife = 6
  MaxLife = 7
  RetryGap = 1
  MaxPause = 1
  Window = 1
  Slow = 1
  MaxEvents = 2
INVARIANTS
  TypeOK
  StaysWarm
  FlushIsRepaired
PROPERTIES
  EveryNameIsFound
