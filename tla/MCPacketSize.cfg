SPECIFICATION Spec
CHECK_DEADLOCK FALSE
CONSTANTS
  NegativeSize = 10
  Names <- SomeNames
  Numbers <- SomeNumbers
  Handles <- SomeHandles
  Sliders <- SomeSliders
  Times <- SomeTimes
  MaxItems = 3
INVARIANTS
  ValuesSerialize
  RegistrationsSerialize
  LengthsMatch
