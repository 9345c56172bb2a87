\* A hart for every slot, three slots, both builds' behaviours, init killed too.
CONSTANTS
  NPROC = 3
  NCPU = 3
  MaxPid = 3
  KillArgs = {1, 2}
  Preempt = TRUE
  IdleWait = TRUE
  CopyFaults = {"status", "times"}
SPECIFICATION FairSpec
INVARIANTS ParentAlive NoMissedZombie PidsDistinct KilledWasAsked
PROPERTIES ImplementsProcStates OrphansReaped KilledStops
