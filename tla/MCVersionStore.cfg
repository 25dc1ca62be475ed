SPECIFICATION Spec
CONSTANTS
  n1 = n1
  cfg1 = cfg1
  a = a
  b = b
  Names <- MCNames
  ConfigNames <- MCConfigNames
  Values <- MCValues
  NoValue = NoValue
  Absent = Absent
  Stored <- MCEmpty
  MaxVersion = 3
  Validates = TRUE
SYMMETRY Symmetry
INVARIANTS
  TypeOK
  WellFormed
  AcknowledgedKept
PROPERTIES
  ClaimedForever
  LatestNeverDecreases
