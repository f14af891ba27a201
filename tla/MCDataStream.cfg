SPECIFICATION Spec
CONSTANTS
  Clients = {c1, c2}
  Values = {A, B}
  Zero = A
  Registration = Registration
  ClearEvery = 1
  MaxTime = 3
  MaxSamples = 4
  MaxCommands = 3
SYMMETRY SymmetricClients
INVARIANTS
  SamplesReconstructed
  PointsAreHeld
  PointsInOrder
