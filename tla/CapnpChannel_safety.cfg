\* Two queue slots, so that a drop can lose its Release; four futures, so that
\* a recv can be dropped, joined, resumed into the buffer and served from it.
CONSTANTS
  QueueDepth = 2
  OutCap = 1
  MaxCalls = 4
  MaxMsgs = 2
SPECIFICATION Spec
INVARIANTS TypeOK RecvExclusive OneMessageHeld NoSilentLoss NoResurrection DeliveredInOrder
PROPERTIES ClosedIsFinal
\* The caller may drop everything and the connection end.
CHECK_DEADLOCK FALSE
