SPECIFICATION Spec
\* The calls come to an end: MaxOps.
CHECK_DEADLOCK FALSE
CONSTANTS
  p1 = p1
  p2 = p2
  p3 = p3
  b1 = b1
  b2 = b2
  b3 = b3
  b4 = b4
  b5 = b5
  Procs <- ThreeProcs
  BlocksOf <- Shared
  MAXOPBLOCKS = 3
  LOGSIZE = 6
  LogArea = 6
  OpBlocks = 2
  MaxOps = 3
  MaxCrashes = 2
VIEW View
INVARIANTS SyncedWhenIdle NoPanic SleepersHaveReason
PROPERTIES ImplementsAtomicDisk
