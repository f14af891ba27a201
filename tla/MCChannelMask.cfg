SPECIFICATION MaskSpec
CONSTANTS
  StartSizes = {6, 16}
  MaxChannels = 8
  MaxSlots = 2
  CommandChannels = {6, 7, 8, 9}
  Groups <- SmallGroups
  SignedChar = TRUE
INVARIANTS
  MaskIsExact
  MaskIsExactSaveEighths
