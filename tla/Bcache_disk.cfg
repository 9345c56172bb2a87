SPECIFICATION Spec
CONSTANTS
  Procs = {p1, p2}
  NBUF = 3
  Blocks = {k1, k2, k3, k4}
  NUM = 5
  MaxPins = 2
  MaxWrites = 2
  MaxKills = 1
SYMMETRY Symmetric
INVARIANTS RefcntExact HolderSeesLatest RequestsExact SleepersHaveReason
