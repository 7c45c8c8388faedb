\* The client when its server goes away.
SPECIFICATION FairSpec
CONSTANTS
  BUFFER_SIZE = 2
  SockSize = 3
  Sizes <- MCSizes
  Garbage <- MCGarbage
PROPERTY
  ServerStopEndsTransfer
CHECK_DEADLOCK FALSE
