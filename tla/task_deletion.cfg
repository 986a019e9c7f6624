SPECIFICATION FairSpec
CONSTANTS
  Conversation = {c1}
  w1 = w1
  w2 = w2
  e1 = e1
  e2 = e2
  Worker = {w1}
  Editor = {e1}
  Manager = {m1}
  Rater = {}
  Verdict = {}
  MaxAttempts = 2
  MaxJobs = 2
  MaxApprovals = 2
  MaxCrashes = 1
CHECK_DEADLOCK FALSE
INVARIANTS
  DeletionLocksTask
  RejectionRestores
  ApprovedDeleteRetryable
  PurgedTaskIsDoomed
PROPERTIES
  EveryJobSettles
  EveryOutcomeAnnounced
