CONSTANTS
  MaxBytes = 20
  Reserve = 6
  Metadata = 5
  Slim = 2
  Skeleton = 3
  Listings <- AllListings
  Others <- SecondLists
  PageSizes = {1, 3, 8}
  UsesToken = FALSE
  Late = {5, 7}
  OccurTime <- Times
  Passes <- Wanted
  Tenants <- Listed
  RowsPerPage = 2
  PageCap = 2
  Limits = {1, 2}
SPECIFICATION ReadingSpec
INVARIANTS OverrunIsBounded FullAccess UnflaggedIsComplete
PROPERTIES WalkEnds
CHECK_DEADLOCK FALSE
