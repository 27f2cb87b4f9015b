CONSTANTS
  Key = {k1, k2}
  Client = {c1, c2}
  Call = {a1, a2}
  MaxClients = 1
  NoKey = NoKey
  Idle = Idle
  Refused = Refused
  Part = {p1, p2}
  Lead = Lead
  Raising = {p1}
  Endless = {p2}
SPECIFICATION FairCallsSpec
INVARIANTS CallsTypeOK FailuresAreOwn NothingLeftBehind
PROPERTIES CallsUseThePool CallsEnd
CHECK_DEADLOCK FALSE
