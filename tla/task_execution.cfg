SPECIFICATION Spec
CONSTANTS
  Conversation = {c1}
  w1 = w1
  w2 = w2
  e1 = e1
  e2 = e2
  Worker = {w1, w2}
  Editor = {e1, e2}
  Manager = {m1}
  Rater = {}
  Verdict = {}
  MaxAttempts = 2
  MaxJobs = 2
  MaxApprovals = 1
  MaxCrashes = 0
CHECK_DEADLOCK FALSE
SYMMETRY WorkersAndEditors
INVARIANTS
  TypeOK
  OneActiveJob
  SoleExecutor
  NoticeMatchesOutcome
PROPERTY KeepsLedger
