CONSTANTS
  p1 = p1
  p2 = p2
  Procs = {p1, p2}
  NINODES = 3
  Names <- SomeNames
  Calls <- SomeCalls
SPECIFICATION Spec
INVARIANT NoOrphans
