\* Three dropped calls ahead of a fourth, and as many peers.
CONSTANTS
  QueueDepth = 2
  MaxCalls = 4
  MaxInbound = 4
SPECIFICATION FairSpec
PROPERTIES RetriesAnswered
\* The listener may be dropped and the calls used up.
CHECK_DEADLOCK FALSE
