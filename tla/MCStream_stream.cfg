CONSTANTS
  Links <- MCLinks
  HeadSize = 2
  BufSize = 4
  BufLimit = 2
  Kernel = 3
  MaxConns = 2
SPECIFICATION FairSpec
INVARIANTS StreamInv
PROPERTIES Arrives
CHECK_DEADLOCK FALSE
