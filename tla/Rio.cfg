\* The readers, and echo, over a system that cuts, interrupts and fails.
SPECIFICATION FairSpec
CONSTANTS
  RIO_BUFSIZE = 3
  MAXLINE = 3
  Streams <- MCStreams
  Asks = {0, 1, 2, 4}
  Nothing = Nothing
INVARIANTS
  TypeOK
  NothingLost
  WithinAsked
  EchoIsStream
PROPERTIES
  ImplementsReader
  CallReturns
CHECK_DEADLOCK FALSE
