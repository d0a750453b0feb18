SPECIFICATION Spec
CONSTANTS
  NBuf = 5
  Block <- MCBlock
  NoBlock = 0
  Data = {0, 1}
  Zero = 0
  LogStart = 1
  NLog = 3
  Home <- MCHome
  MaxTxn = 2
  MaxHold = 1
  MaxOutstanding = 1
  KeepDisk = FALSE
PROPERTIES
  CommittedSurvives
