SPECIFICATION IndexSpec
CONSTANTS
  Worker = {w1, w2}
  Chunks = 2
  Windows = 1
  FullMax = 3
  OnlineMax = 3
  BatchLimit = 1
  MaxCrashes = 1
  MaxPrunes = 1
INVARIANTS IndexSound
PROPERTIES LeaseNeverWedges
CHECK_DEADLOCK FALSE
