SPECIFICATION FairSpec
CONSTANTS
  c1 = c1
  c2 = c2
  Task = {c1, c2}
  Client = {u1}
  Watch <- AllWatchFirst
  Serial = TRUE
  BatchSize = 2
  QueueSize = 4
  MaxEvents = 4
  MaxFaults = 2
INVARIANTS NothingSkipped
PROPERTIES OnceInOrder EveryEventArrives
CHECK_DEADLOCK FALSE
