\* What a client that was interrupted leaves behind.
SPECIFICATION CtrlCSpec
CONSTANTS
  c1 = c1
  c2 = c2
  e1 = e1
  e2 = e2
  Clients = {c1}
  Executants = {e1}
  Blocks <- OneFile
  Directories = {"dir"}
  DirSizes <- MCDirSizes
  Commands <- GetAndBye
  Garbage = {0}
  MaxInFlight = 3
INVARIANT
  PoolIsKept
CHECK_DEADLOCK FALSE
