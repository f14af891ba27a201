SPECIFICATION Spec
CONSTANTS
  Servers <- ThreeServers
  Index <- PortXorAddress
  Strangers = {other}
  Unknown = Unknown
  Expiry = 1
  MaxTime = 3
  MaxInFlight = 1
INVARIANTS
  ListIsCurrent
  HeardIsListed
  ListedAdvertised
PROPERTIES
  ShutdownReturns
