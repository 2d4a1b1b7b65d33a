\* Two receivers on one host that the server sends to by its own address.
SPECIFICATION ClientSpec
CONSTANTS
  logger = logger
  gui = gui
  Receiver <- Receivers
  Detached <- DetachedReceivers
  Unicast = TRUE
  QueueLen = 1
  MaxSent = 2
CHECK_DEADLOCK FALSE
PROPERTY EveryPacketCalledBack
