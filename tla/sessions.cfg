SPECIFICATION SessionsSpec
CONSTANTS
  Session = {s1, s2}
  Process = {p1, p2}
  MaxGenomes = 2
  MaxPolicy = 2
  MaxSteps = 1
  MaxRestarts = 1
INVARIANTS RunRecords
PROPERTIES PromotesItsBaseline RunsEnd
CHECK_DEADLOCK FALSE
