SPECIFICATION Spec
CONSTANTS
  Conversation = {c1}
  w1 = w1
  w2 = w2
  e1 = e1
  e2 = e2
  Worker = {w1}
  Editor = {e1}
  Manager = {m1, m2}
  Rater = {r1}
  Verdict = {"verified"}
  MaxAttempts = 1
  MaxJobs = 1
  MaxApprovals = 2
  MaxCrashes = 0
CHECK_DEADLOCK FALSE
INVARIANT OneOpenApproval
PROPERTY DecidedOnce
