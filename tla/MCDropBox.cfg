SPECIFICATION Spec
CONSTANTS
  Threads = {t1, t2}
  Packets = {p1, p2}
  Commands = {c1, c2}
  NoCommand = empty
  MaxBatch = 2
  MaxPackets = 3
  MaxCommands = 2
INVARIANTS
  Ownership
PROPERTIES
  PacketsInOrder
  CommandsInOrder
