\* Signals at any moment, forks that fail, and a second launch.
SPECIFICATION FairSpec
CONSTANTS
  run1 = run1
  run2 = run2
  Launches = {run1, run2}
  NPROC = 2
  MaxWaiting = 2
INVARIANTS
  TypeOK
  OnePool
PROPERTIES
  CtrlCStopsAll
  NoIdleWait
CHECK_DEADLOCK FALSE
