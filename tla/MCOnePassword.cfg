SPECIFICATION Spec
CONSTANTS
  n1 = n1
  x1 = x1
  x2 = x2
  i1 = i1
  i2 = i2
  i3 = i3
  A = A
  B = B
  a1 = a1
  a2 = a2
  b1 = b1
  Foreign = Foreign
  Mangled = Mangled
  Absent = Absent
  Duplicate = Duplicate
  Failed = Failed
  OK = OK
  None = None
  Unborn = Unborn
  Gone = Gone
  Names <- MCNames
  Values <- MCValues
  Ids <- MCThreeIds
  Instances <- MCOneInstance
  Procs <- MCGoroutines
  Home <- MCHomeTogether
  Failing = TRUE
  Overlap = FALSE
SYMMETRY SymmetryTogether
INVARIANTS
  TypeOK
  AnswersAreCurrent
  OneItemPerTitle
  Inductive
PROPERTIES
  ActsAtOneMoment
