\* The calibration of the server by -c.
SPECIFICATION Spec
CONSTANTS
  ADC_MAX = 100
  Weights = {5, 12, 30}
  Gains <- CellGains
  Zeros <- CellZeros
  Precision = 10
  MaxWeights = 2
  KnownRoom = 4
  Padded = TRUE
  AnyLine <- WrongLine
CHECK_DEADLOCK FALSE
INVARIANTS
  ServerCalibrates
