CONSTANTS
  NPROC = 3
  NCPU = 2
  MaxPid = 3
  KillArgs = {0}
  Preempt = FALSE
  IdleWait = FALSE
  CopyFaults = {}
SPECIFICATION Spec
INVARIANT KilledWasAsked
CHECK_DEADLOCK FALSE
