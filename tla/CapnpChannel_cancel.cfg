CONSTANTS
  QueueDepth = 2
  OutCap = 1
  MaxCalls = 2
  MaxMsgs = 1
SPECIFICATION Spec
INVARIANTS CancelSafe
CHECK_DEADLOCK FALSE
