\* kill -INT of main alone.
SPECIFICATION FairSpec
CONSTANTS
  run1 = run1
  run2 = run2
  Launches = {run1}
  NPROC = 2
  MaxWaiting = 1
PROPERTY
  StopIsClean
CHECK_DEADLOCK FALSE
