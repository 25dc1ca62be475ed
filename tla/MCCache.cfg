SPECIFICATION Spec
CONSTANTS
  n1 = n1
  n2 = n2
  c1 = c1
  c2 = c2
  d1 = d1
  Names <- MCNames
  Data <- MCData
  Absent = Absent
  Listing = Listing
  Reads <- MCNameAndListing
  Callers <- MCCallers
  None = None
  Unavailable = Unavailable
  Broken = Broken
  Failures <- MCFailures
  Expiry = TRUE
  MaxEntries = 1
  MaxClock = 1
  MaxSeq = 1
SYMMETRY Symmetry
INVARIANTS
  TypeOK
  ReadAfterWrite
  NeverBehind
  Inductive
