SPECIFICATION Spec
VIEW AllButRet
CONSTANTS
  BSize = 2
  NDirect = 1
  NInodes = 3
  NInode = 4
  DataBlock <- OneDisk
  Name <- OneName
  Byte <- OneByte
  NFile = 2
  NOFile = 2
  MaxOpBlocks = 1
  Paths <- EmptyPaths
  Modes <- SomeModes
  Counts <- OneCount
  Writes <- OneWrites
  MaxSize = 3
  KeepDisk = TRUE
INVARIANTS
  InodeRefsCountFiles
