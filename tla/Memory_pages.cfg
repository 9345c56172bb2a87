CONSTANTS
  NPAGES = 20
  NPTE = 3
  PGSIZE = 2
  NPROC = 2
  MaxMem = 6
  UintRange = 64
  SbrkArgs <- SomeSbrkArgs
  Programs <- SomePrograms
SPECIFICATION Spec
INVARIANTS PagesExact SizeMatchesTable
PROPERTY ImplementsAddressSpaces
VIEW View
