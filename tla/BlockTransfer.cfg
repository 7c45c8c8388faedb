\* Every interleaving of the two loops, ctrl-C, the server's end, resumptions.
SPECIFICATION FairSpec
CONSTANTS
  BUFFER_SIZE = 2
  SockSize = 3
  Sizes <- MCSizes
  Garbage <- MCGarbage
INVARIANTS
  TypeOK
  NoMisplacedByte
  LogHonest
  ReworkBounded
  CompleteCopy
  StreamInStep
PROPERTIES
  ImplementsFileCopy
  TransferEnds
CHECK_DEADLOCK FALSE
