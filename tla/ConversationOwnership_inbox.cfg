SPECIFICATION Spec
CONSTANTS
  Agent = {a1, a2}
  Manager = {a2}
  NoAgent = NoAgent
  Turn = {t1, t2}
  Key = {k1, k2}
SYMMETRY TurnAndKeySymmetry
INVARIANT TypeOK
INVARIANT ClosedLeavesNobodyWaiting
CHECK_DEADLOCK FALSE
