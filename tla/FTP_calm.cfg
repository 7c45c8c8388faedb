\* Two clients share one executant; every command, no ctrl-C.
SPECIFICATION CalmSpec
CONSTANTS
  c1 = c1
  c2 = c2
  e1 = e1
  e2 = e2
  Clients = {c1, c2}
  Executants = {e1}
  Blocks <- MCBlocks
  Directories = {"dir"}
  DirSizes <- MCDirSizes
  Commands <- AllCommands
  Garbage = {0}
  MaxInFlight = 6
INVARIANTS
  PromptInSync
  NothingMisfiled
  OnlyUnansweredBlock
PROPERTIES
  ImplementsService
  GetEnds
  ByeFreesExecutant
CHECK_DEADLOCK FALSE
