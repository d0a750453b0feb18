SPECIFICATION PCSpec
CONSTANTS
  NPROC = 3
  NPAGE = 4
  Keep = 2
  MaxPid = 5
  Total = 3
INVARIANTS
  TableOK
  EveryPageOnce
  StacksAlive
  BufferSafe
PROPERTIES
  ReturnsWhenDone
  NoStarvation
  TestPasses
