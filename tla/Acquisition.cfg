\* The ADC, main() and the writethrough file across power failures.
SPECIFICATION AcquisitionSpec
CONSTANTS
  Inputs <- Conversions
  MarkLen = 3
  RecordLen = 3
  MaxCells = 8
  MaxSamples = 2
  MaxSessions = 2
CHECK_DEADLOCK FALSE
INVARIANTS
  ChipIsSetUp
  SessionsReadBack
PROPERTIES
  FlushedIsKept
  ValueIsConversion
  ValueReturns
