CONSTANTS
  Key = {k1, k2, k3}
  Client = {c1, c2, c3, c4}
  Call = {a1, a2, a3}
  MaxClients = 2
  NoKey = NoKey
  Idle = Idle
  Refused = Refused
SPECIFICATION HistorySpec
SYMMETRY Symmetry
INVARIANTS TypeOK LeaseSafety LeasesCounted OneOwner CacheSound DrainedAtShutdown
PROPERTY EvictsLeastRecentlyUsed
CHECK_DEADLOCK FALSE
