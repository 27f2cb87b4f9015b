CONSTANTS
  Call = {a1, a2, a3}
  Nobody = Nobody
  Margin = 60
  Lifetimes = {1, 60, 61, 3600}
  MaxIssued = 2
SPECIFICATION FairSpec
INVARIANTS TypeOK NoCollateralFailure
PROPERTIES GoodTokenKept RetryCarriesNewToken RefusedIsForgotten EveryRequestEnds
CHECK_DEADLOCK FALSE
