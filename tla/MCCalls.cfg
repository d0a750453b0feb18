SPECIFICATION CallsSpec
CONSTANTS
  UInt = 16
  ULong = 32
  Num <- MCNum
  Word <- MCWord
  Pid = {3}
  Max = 4
  StrLen <- MCStrLen
  Size = 5
  BSIZE = 4096
  NDIRECT = 12
  NINDIRECT = 1024
  MAXOPBLOCKS = 10
  LOGSIZE = 30
  NBUF = 30
  Offsets <- MCOffsets
  Sizes <- MCSizes
  Slack <- MCSlack
  FSSIZE = 7
  INODESTART = 2
  BMAPSTART = 3
  NINODES = 3
  IPB = 4
  BPB = 8
  NDirect = 1
  NIndirect = 2
  Direct <- MCDirect
  Indirect <- MCIndirect
  Entry <- MCEntry
INVARIANTS
  LogHasRoom
  CacheHasRoom
  CallsRight
  PauseExact
  Verdict
  CheckSound
