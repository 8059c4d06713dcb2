\* Two queue slots, so that a Release can be lost; three calls: one dropped, one
\* behind it, one after both.  A call of connect makes two capabilities.
CONSTANTS
  Connectors = {k1}
  NoConnector = none
  QueueDepth = 2
  MaxCalls = 3
SPECIFICATION FairSpec
INVARIANTS TypeOK OneOwner HandlesBacked CommandsFindTarget LeaksAccounted ConnectorShared
PROPERTIES CommandGoesOut UnreachableIsSeen
\* Everything may be dropped and the actor end.
CHECK_DEADLOCK FALSE
