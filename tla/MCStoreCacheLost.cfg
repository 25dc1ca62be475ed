SPECIFICATION StoreSpec
CONSTANTS
  n1 = n1
  w1 = w1
  w2 = w2
  r1 = r1
  a = a
  b = b
  Names <- MCNames
  Data <- MCData
  Absent = Absent
  Listing = Listing
  Reads <- MCNames
  Callers <- MCCallers
  None = None
  Unavailable = Unavailable
  Broken = Broken
  Failures <- MCFailures
  Expiry = TRUE
  MaxEntries = 0
  MaxClock = 3
  MaxSeq = 1
  Values <- MCValues
  NoValue = NoValue
  MaxVersion = 2
  ConfigNames <- MCNoConfig
  Validates = TRUE
  Writers <- MCWriters
  Asked <- MCAllWrites
  Stored <- MCEmpty
  Ambiguous = TRUE
SYMMETRY Symmetry
INVARIANTS
  WriteStartsFromVault
