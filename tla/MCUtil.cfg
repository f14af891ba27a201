SPECIFICATION Spec
SYMMETRY Alikes
CHECK_DEADLOCK FALSE
CONSTANTS
  None = None
  Names <- SomeNames
  Alike <- SomeAlike
  Unlexable = {"a:b"}
  Values = {0, 1, 2}
  LikeControls = {"con", "cont"}
  Printed <- SomePrinted
  Clients = {c1, c2}
  ChannelNames = {"bot", "pad"}
  GroupNames = {"bot"}
  Labels = {l}
  Catalog <- SomeControls
  Default = d
  Files = {d, e}
  MaxItems = 6
  MaxCreates = 2
  MaxChanges = 2
  MaxProcesses = 2
INVARIANTS
  RegisteredAsAsked
  RefusedWithReason
  ShownIsValue
PROPERTIES
  SlidersRestored
