SPECIFICATION FairIngestionSpec
CONSTANTS
  p1 = p1
  p2 = p2
  Event = {1, 2}
  Process = {p1, p2}
  Mail <- MailMixes
  MaxCrashes = 1
  MaxPurges = 1
  MaxRevokes = 1
INVARIANTS StagedOnce CompletedIsStaged
PROPERTIES OutboxImplemented 
CHECK_DEADLOCK FALSE
