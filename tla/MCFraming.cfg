SPECIFICATION StreamSpec
CONSTANTS
  Prefix = 2
  MaxRead = 4
  Lengths <- SomeLengths
  Garbled = Garbled
  MaxPackets = 3
  MaxConnections = 2
INVARIANTS
  PacketsAsSent
PROPERTIES
  EveryPacketParsed
