CONSTANTS
  Key = {k1, k2}
  Client = {c1, c2, c3}
  Call = {a1, a2}
  MaxClients = 1
  NoKey = NoKey
  Idle = Idle
  Refused = Refused
SPECIFICATION LoopSpec
PROPERTIES DroppedClientsClose ShutdownReturns ImplementsLease
CHECK_DEADLOCK FALSE
