\* A logger and a detached receiver on one host, interrupted sessions on one
\* log, and the log as output_rewrite would find it at any time.
SPECIFICATION RecordingSpec
CONSTANTS
  logger = logger
  gui = gui
  Receiver <- Receivers
  Detached <- DetachedReceivers
  Unicast = FALSE
  QueueLen = 2
  MaxSent = 3
  Limit = 2
  BufLen = 3
  MaxLog = 2
CHECK_DEADLOCK FALSE
INVARIANTS
  CallbacksInOrder
  FailureMeansNoCallbacks
  LogIsPrefix
  InterruptSavesAll
  RewriteKeepsSamples
  OneStrayPerCut
PROPERTIES
  EveryPacketCalledBack
