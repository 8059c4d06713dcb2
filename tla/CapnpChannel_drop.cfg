\* More queue slots than futures: no Release is lost to a full queue.
CONSTANTS
  QueueDepth = 4
  OutCap = 1
  MaxCalls = 2
  MaxMsgs = 1
SPECIFICATION FairSpec
PROPERTIES DropTearsDown
CHECK_DEADLOCK FALSE
