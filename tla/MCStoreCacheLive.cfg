SPECIFICATION FairStoreSpec
CONSTANTS
  n1 = n1
  w1 = w1
  w2 = w2
  r1 = r1
  a = a
  b = b
  Names <- MCNames
  Data <- MCData
  Absent = Absent
  Listing = Listing
  Reads <- MCNames
  Callers <- MCCallers
  None = None
  Unavailable = Unavailable
  Broken = Broken
  Failures <- MCFailures
  Expiry = FALSE
  MaxEntries = 0
  MaxClock = 2
  MaxSeq = 0
  Values <- MCValues
  NoValue = NoValue
  MaxVersion = 3
  ConfigNames <- MCNoConfig
  Validates = TRUE
  Writers <- MCWriters
  Asked <- MCOneOfEach
  Stored <- MCTwoVersions
  Ambiguous = TRUE
INVARIANTS
  RecordsAreSound
PROPERTIES
  EveryWriteEnds
  EveryLoadEnds
