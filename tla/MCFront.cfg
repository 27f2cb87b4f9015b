CONSTANTS
  None = None
  Blank = Blank
  NoPath = NoPath
  Request = {r1, r2}
  MaxClients = 2
  Canonical <- Hosts
  NetworkOf <- Networks
  Special <- SpecialAddresses
  Unmapped <- MappedAddresses
  Prefix <- ToolPrefixes
  Composites <- SearchTool
  Overrides <- RenameOverride
  Hash <- Hashes
  Resolution <- Resolutions
  World <- Worlds
SYMMETRY Symmetry
SPECIFICATION Spec
INVARIANTS FrontTypeOK ConnectionsAreOwn DestinationsAreAuthorized ReadOnlyServer ToolsReachTheirOperation EveryRequestHasAnOrigin
CHECK_DEADLOCK FALSE
