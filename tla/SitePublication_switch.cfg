SPECIFICATION Spec
CONSTANTS
  Pub = {a, b, c}
  NoPub = NoPub
  MaxFaults = 3
  MaxCrashes = 2
  MaxLostAcks = 0
  LateAborts = FALSE
  FailingResumes = FALSE
SYMMETRY PublicationSymmetry
INVARIANT TypeOK
INVARIANT OpenGateShowsOnePublication
INVARIANT PreviousStaysRestorable
PROPERTY ImplementsAtomicPublication
CHECK_DEADLOCK FALSE
