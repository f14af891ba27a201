SPECIFICATION Spec
CONSTANTS
  MaxConnections = 1
  Clients = {c1, c2}
  Channels = {ch1}
  Fds = {f1, f2}
  Invalid = Invalid
  NoClient = NoClient
  Repertoire <- AllButSwitches
  FirstPort = 0
  BusyPorts <- BusyFive
  MaxSends = 1
  MaxCommands = 1
  MaxRestarts = 1
PROPERTIES
  WaitingIsAccepted
  LeftIsForgotten
