CONSTANTS
  QueueDepth = 4
  OutCap = 1
  MaxCalls = 2
  MaxMsgs = 1
SPECIFICATION FairSpec
PROPERTIES SendProgress
CHECK_DEADLOCK FALSE
