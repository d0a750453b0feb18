SPECIFICATION Spec
CONSTANTS
  NBuf = 5
  Block <- MCBlock
  NoBlock = 0
  Data = {0, 1}
  Zero = 0
  LogStart = 1
  NLog = 3
  Home <- MCHome
  MaxTxn = 2
  MaxHold = 2
  MaxOutstanding = 2
  KeepDisk = TRUE
INVARIANTS
  ReadsLatest
  QuiescentDurable
  LogSafe
  IInv
PROPERTIES
  ImplementsAtomicDisk
