SPECIFICATION Spec
VIEW AllButRet
CONSTANTS
  BSize = 2
  NDirect = 1
  NInodes = 3
  NInode = 5
  DataBlock <- OneDisk
  Name <- OneName
  Byte <- OneByte
  NFile = 2
  NOFile = 3
  MaxOpBlocks = 1
  Paths <- OnePaths
  Modes <- SomeModes
  Counts <- OneCount
  Writes <- OneWrites
  MaxSize = 3
  KeepDisk = TRUE
INVARIANTS
  InodesOK
  BlocksAccounted
  DirectoryAccounted
  RefsMatchHolders
  PanicsOnlyWhenFull
PROPERTIES
  ImplementsFiles
