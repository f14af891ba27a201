SPECIFICATION Spec
CONSTANTS
  MaxConnections = 2
  Clients = {c1, c2}
  Channels = {ch1}
  Fds = {f1, f2}
  Invalid = Invalid
  NoClient = NoClient
  Repertoire <- SwitchesAndConsole
  FirstPort = 0
  BusyPorts <- BusySome
  MaxSends = 1
  MaxCommands = 2
  MaxRestarts = 0
SYMMETRY SymmetricClients
INVARIANTS
  OneSlotEach
  MaskIsAsked
  RegistrationsFirst
  OnlyAskedChannels
