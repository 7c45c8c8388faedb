\* A GET of a file that is not there.
SPECIFICATION CalmSpec
CONSTANTS
  c1 = c1
  c2 = c2
  e1 = e1
  e2 = e2
  Clients = {c1}
  Executants = {e1}
  Blocks <- MCBlocks
  Directories = {"dir"}
  DirSizes <- MCDirSizes
  Commands <- AllCommands
  Garbage = {0}
  MaxInFlight = 3
INVARIANT
  NotFoundIsAnswered
CHECK_DEADLOCK FALSE
