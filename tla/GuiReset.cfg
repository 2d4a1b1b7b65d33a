\* A reset while there is no source of data.
SPECIFICATION Spec
CONSTANTS
  Keep = 2
  Values = {2}
  Network = FALSE
  MaxRows = 3
  MaxPending = 1
  TimerIds = {1}
INVARIANTS
  ReadyMeansStopped
