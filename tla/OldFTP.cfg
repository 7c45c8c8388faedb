SPECIFICATION FairSpec
CONSTANTS
  NPROC = 2
  Clients = {c1}
  long = long
  empty = empty
  missing = missing
  Names = {long, empty, missing}
  Size <- MCSize
  BUF = 2
  None = None
INVARIANTS
  TypeOK
  ImportIsOneFile
  EndIsTheEnd
  PapaLeavesLast
  PapaForgetsNobody
PROPERTIES
  EndsForAReason
  StopIsClean
  EveryClientEnds
CHECK_DEADLOCK FALSE
