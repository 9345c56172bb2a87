SPECIFICATION Spec
\* Programs may stop: MaxRuns.
CHECK_DEADLOCK FALSE
CONSTANTS
  IntBits = 12
  NPROC = 3
  NCPU = 2
  Prios <- SomePrios
  SleepFor = 1
  Preempt = TRUE
  Ops = {"fork", "exit", "waitx", "io", "setpriority", "sleep"}
  MaxTicks = 2
  MaxRuns = 2
CONSTRAINT Bound
INVARIANTS OneStack NoSpinCycle BestIsMin NoOversleep ChargedAtMostOneExtra
PROPERTIES ImplementsProcStates
