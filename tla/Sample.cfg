SPECIFICATION Spec
CHECK_DEADLOCK FALSE
CONSTANTS
  None = None
  Names <- SampleNames
  Alike <- SameName
  Unlexable = {}
  Values = {0}
  LikeControls = {}
  Printed <- SamePrinted
  Clients = {c1}
  ChannelNames = {}
  GroupNames = {}
  Labels = {}
  Catalog <- SampleControls
  Default = d
  Files = {d}
  MaxItems = 15
  MaxCreates = 1
  MaxChanges = 0
  MaxProcesses = 1
INVARIANT SampleStarts
