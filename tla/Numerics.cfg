\* Calibrations with the tool and with -c, and the numerical routines over
\* small inputs.
SPECIFICATION EitherSpec
CONSTANTS
  ADC_MAX = 100
  Weights = {5, 12, 30}
  Gains <- CellGains
  Zeros <- CellZeros
  Precision = 10
  MaxWeights = 5
  KnownRoom = 4
  Padded = FALSE
  AnyLine <- WrongLine
  Entries <- EntryValues
  Abscissae <- EntryValues
  Ordinates <- OrdinateValues
  MaxLen = 3
  Offsets <- NextTo
  LargeMatrices <- FourByFour
  CubicLists <- ForCubics
CHECK_DEADLOCK FALSE
INVARIANTS
  TypeOK
  ToolCalibrates
  FailsOnlyWithoutALine
  InverseIsExact
  DecompositionInverts
  DeterminantIsLeibniz
  FitIsLeastSquares
  CubicIsLeastSquares
