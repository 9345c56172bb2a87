SPECIFICATION Spec
CONSTANTS
  Harts <- SomeHarts
  Calls <- SomeCalls
  Data <- SomeData
  Victims = {"h1"}
  Typed = {"x", "CR", "EOF", "KILL", "DUMP"}
  ReadLen = 2
  INPUT_BUF = 2
  UART_TX_BUF_SIZE = 1
  FifoDepth = 2
  UintRange = 4
  Uint64Range = 2
  FirstIndex = 3
INVARIANTS
  NoPanic
  NothingStuck
PROPERTY
  ImplementsTerminal
VIEW View
