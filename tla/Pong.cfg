\* "pong" after the server has been stopped.
SPECIFICATION SystemSpec
CONSTANTS
  c1 = c1
  c2 = c2
  Conns = {c1, c2}
  TareValues = {0, 2}
  Backlog = 1
  FastAsPossible = FALSE
  BatchSize = 1
  Horizon = 2
  Readings = {2}
  multiplier_m = 1
  multiplier_b = 0
  writethrough = FALSE
  MaxCount = 2
  Mortal = {}
  Destinations = {"broadcast"}
SYMMETRY Symmetry
CHECK_DEADLOCK FALSE
INVARIANTS
  PongIsAnswer
