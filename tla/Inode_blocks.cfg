CONSTANTS
  p1 = p1
  p2 = p2
  A = A
  B = B
  Procs = {p1, p2}
  Inodes = {A, B}
  Opens <- SomeOpens
  Ip <- SomeIp
  Users <- SomeUsers
  NBLOCKS = 4
  BSIZE = 2
  NDIRECT = 1
  NINDIRECT = 2
  MaxChunk = 2
  Faulty = {p1}
  WriteLengths = {3}
  ReadLengths = {15}
  UintRange = 16
SPECIFICATION Spec
INVARIANTS BlocksExact NoHoles
PROPERTY ImplementsByteFiles
