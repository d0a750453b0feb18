SPECIFICATION Spec
CONSTANTS
  KLOG_NENTRY = 3
  Level <- MCLevel
  Msg = {"m"}
  MaxLines <- MCMaxLines
  MaxWritten = 7
  IntBits = 5
  LongBits = 8
  Str <- MCStr
INVARIANTS
  DumpIsRecent
  CountersAddUp
  IInv
