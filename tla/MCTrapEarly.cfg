SPECIFICATION Spec
CONSTANTS
  Word = 8
  TestTicks = 3
  PauseTicks = 5
  Every = 2
  Text <- MCText
  TickLine <- MCTickLine
  Fifo = 2
  BACKSPACE = "BS"
  EarlyTimer = TRUE
INVARIANT
  TrapsReachKernelvec
