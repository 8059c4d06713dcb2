\* Three futures: one dropped, one that takes over its call, one after that.
CONSTANTS
  QueueDepth = 2
  OutCap = 1
  MaxCalls = 3
  MaxMsgs = 1
SPECIFICATION FairSpec
PROPERTIES RecvAnswered SendAnswered LastHandleCloses
CHECK_DEADLOCK FALSE
