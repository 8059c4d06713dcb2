\* Six digits hold every byte the handshake tells apart.  A two-digit prefix
\* announces up to 35 bytes, of which the receiver takes 6.  The stream holds less
\* than a frame, and less than a reply.
CONSTANTS
  Base = 6
  HeaderLen = 2
  Payloads <- MCPayloads
  SendMax = 7
  RecvMax = 6
  PipeCap = 3
  MaxSends = 3
  V4Len = 1
  V6Len = 3
  NameLens = {0, 2}
  Codes = {0, 1, 3, 5}
  Others = {2}
SPECIFICATION FairSpec
INVARIANTS TypeOK Intact
PROPERTIES ImplementsContract FramesArrive EndIsSeen DialEnds
\* The sender may close and the receiver be poisoned.
CHECK_DEADLOCK FALSE
