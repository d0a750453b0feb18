SPECIFICATION Spec
VIEW AllButRet
SYMMETRY AnyName
CONSTANTS
  BSize = 2
  NDirect = 1
  NInodes = 5
  NInode = 3
  DataBlock <- SmallDisk
  Name = {a, b, c}
  Byte <- TwoBytes
  NFile = 1
  NOFile = 1
  MaxOpBlocks = 1
  Paths <- FilePaths
  Modes <- SomeModes
  Counts <- OneCount
  Writes <- FullWrites
  MaxSize = 7
  KeepDisk = FALSE
INVARIANTS
  AllAccounted
  PanicsOnlyWhenFull
PROPERTIES
  ImplementsFiles
