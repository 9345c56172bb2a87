CONSTANTS
  Procs = {0, 1}
  PIPESIZE = 2
  UintRange = 4
  NFILE = 2
  NOFILE = 2
  MaxN = 2
SPECIFICATION Spec
INVARIANTS RefsExact EndsExact SleepersHaveReason
PROPERTIES ImplementsFifo
\* A program may wait for itself: it reads an empty pipe whose write end it holds.
CHECK_DEADLOCK FALSE
