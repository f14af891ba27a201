SPECIFICATION Spec
CONSTANTS
  Servers <- SomeServers
  MaxChannels = 2
  MaxConnections = 2
  MaxCommands = 2
  MaxSends = 2
INVARIANTS
  RegistrationsCatchUp
  NoStrayHandle
  ActiveAgrees
  TextsShown
PROPERTIES
  CommandsLeave
