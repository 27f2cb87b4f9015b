CONSTANTS
  Request = {r1, r2}
  Identity = {anna, ben}
  Session = {s1, s2, s3}
  None = None
  Cap = 2
  TTL = 1
SPECIFICATION Spec
SYMMETRY Symmetry
INVARIANTS TypeOK OwnersOnly OwnerKeepsSession
PROPERTY OnlyLateAnswersRevive
CHECK_DEADLOCK FALSE
