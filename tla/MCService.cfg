SPECIFICATION FairSpec
CONSTANTS
  r1 = r1
  r2 = r2
  n1 = n1
  n2 = n2
  Requests <- MCRequests
  Names <- MCNames
  Whole = Whole
  NoOne = NoOne
  Stored <- MCNames
  Asked <- MCAsked
  Configs <- MCConfigs
INVARIANTS
  TypeOK
  NothingUnaudited
  StatusTellsTheTruth
  ListingIsComplete
  DrainsFirst
  WarmerStopsFirst
PROPERTIES
  GraceIsKept
  EveryStopEnds
