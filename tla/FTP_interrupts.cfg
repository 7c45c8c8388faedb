\* ctrl-C and "get ." at any moment, accept failing, and what the shared .log does.
SPECIFICATION Spec
CONSTANTS
  c1 = c1
  c2 = c2
  e1 = e1
  e2 = e2
  Clients = {c1, c2}
  Executants = {e1, e2}
  Blocks <- OneFile
  Directories = {"dir"}
  DirSizes <- MCDirSizes
  Commands <- GetAndDirectory
  Garbage = {0}
  MaxInFlight = 1
INVARIANTS
  TypeOK
  PoolLostToAbruptEnds
  NothingMisfiled
SYMMETRY Symmetric
CHECK_DEADLOCK FALSE
