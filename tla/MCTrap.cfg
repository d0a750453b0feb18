SPECIFICATION FairSpec
CONSTANTS
  Word = 8
  TestTicks = 3
  PauseTicks = 5
  Every = 2
  Text <- MCText
  TickLine <- MCTickLine
  Fifo = 2
  BACKSPACE = "BS"
  EarlyTimer = FALSE
INVARIANTS
  TrapsSound
  TicksExact
  NothingLost
PROPERTIES
  MainEnds
  ImplementsTicking
