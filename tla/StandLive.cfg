\* Two actors against the server: every actor ends.
SPECIFICATION OrderedFairSpec
CONSTANTS
  c1 = c1
  c2 = c2
  Conns = {c1, c2}
  TareValues = {0}
  Backlog = 1
  FastAsPossible = FALSE
  BatchSize = 1
  Horizon = 1
  Readings = {0}
  multiplier_m = 1
  multiplier_b = 0
  writethrough = FALSE
  MaxCount = 1
  Mortal = {}
  Destinations = {"broadcast", "unicast"}
CHECK_DEADLOCK FALSE
PROPERTIES
  ActorFinishes
  ResetServed
  HandlerCompletes
  StopsOnInterrupt
