\* Clicks, the test timer and packets in any order.
SPECIFICATION Spec
CONSTANTS
  Keep = 2
  Values = {0, 2, 3}
  Network = TRUE
  MaxRows = 4
  MaxPending = 2
  TimerIds = {1, 2}
INVARIANTS
  TypeOK
  PlotIsTailOfTable
  PlotFitsAxes
  OneTestTimer
PROPERTIES
  NothingAfterStop
