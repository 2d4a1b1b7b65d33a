\* A partly filled batch when the server is stopped.
SPECIFICATION Spec
CONSTANTS
  c1 = c1
  c2 = c2
  Conns = {c1, c2}
  TareValues = {0}
  Backlog = 1
  FastAsPossible = TRUE
  BatchSize = 2
  Horizon = 5
  Readings = {7}
  multiplier_m = 2
  multiplier_b = 1
  writethrough = TRUE
SYMMETRY Symmetry
CHECK_DEADLOCK FALSE
INVARIANTS
  TailIsSent
