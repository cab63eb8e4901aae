CONSTANTS
  unknown = unknown
  foreign = foreign
  NoCursor = NoCursor
  NoMessage = NoMessage
  MaxClock = 4
  Invisible <- OneUnknown
  Elsewhere <- OneForeign
  MaxLookups = 3
  MaxUnseen = 2
  MaxFailures = 1
  MaxClears = 1
SPECIFICATION FairSpec
INVARIANTS
  TypeOK
  SearchGoesOn
  FactorBelongsToSearch
PROPERTIES
  SearchEndsForAReason
  SearchEnds
  LoadingEnds
