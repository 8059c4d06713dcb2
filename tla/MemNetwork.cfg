CONSTANTS
  near1 = near1
  far1 = far1
  near2 = near2
  far2 = far2
  Ends <- MCEnds
  Near <- MCNear
  Users <- MCUsers
  Peer <- MCPeer
  Capacity = 1
  Modes = {"confirmed", "deadline", "besteffort"}
  MaxSends <- MCMaxSends
  MaxInject = 1
  Backlog = 1
SPECIFICATION FairSpec
INVARIANTS Fifo NoGhosts
PROPERTIES ImplementsContract SendSettles PeerLossSeen
CHECK_DEADLOCK FALSE
