CONSTANTS
  MaxBytes = 20
  Reserve = 6
  Metadata = 5
  Slim = 2
  Skeleton = 3
  Listings <- AllListings
  Others <- SecondLists
  PageSizes = {1, 3, 8}
  UsesToken = FALSE
SPECIFICATION Spec
INVARIANTS PayloadFits
CHECK_DEADLOCK FALSE
