SPECIFICATION Spec
CONSTANTS
  Threads = {t1, t2}
  Commands = {c1}
  NoCommand = empty
  NoThread = noThread
  MaxBatch = 1
  MaxPackets = 1
  MaxCommands = 1
INVARIANTS
  ConnectedIsServed
  SocketNotLeaked
PROPERTIES
  KeepsDropContract
  DisconnectTakesEffect
  ConnectReturns
  CommandIsSent
CHECK_DEADLOCK FALSE
