\* Interrupting a transfer before it is complete.
SPECIFICATION Spec
CONSTANTS
  BUFFER_SIZE = 2
  SockSize = 3
  Sizes <- MCSizes
  Garbage <- MCGarbage
INVARIANT
  InterruptedIsResumable
CHECK_DEADLOCK FALSE
