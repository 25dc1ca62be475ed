SPECIFICATION FairSpec
CONSTANTS
  warmer = warmer
  c1 = c1
  Callers <- MCCallers
  Patient <- MCPatient
  MaxTries = 2
  FaultRetries = 1
  MaxTimeouts = 3
  Recycling = TRUE
INVARIANTS
  TypeOK
  RetriesStayInBudget
  BrownoutIsBounded
PROPERTIES
  CoreIsReplaced
