\* Three requests at once and room for two of them.
CONSTANTS
  Procs = {1, 2, 3}
  NBUF = 3
  Blocks = {1, 2, 3}
  NUM = 7
  Writers = {1, 2}
  MaxKills = 1
SPECIFICATION FairSpec
INVARIANT TransferDone
PROPERTY TransfersEnd
