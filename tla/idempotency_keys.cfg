CONSTANTS
  k1 = k1
  b1 = b1
  b2 = b2
  bad = bad
  r1 = r1
  r2 = r2
  r3 = r3
  Keys = {k1}
  Bodies = {b1, b2, bad}
  Invalid = {bad}
  Requests = {r1, r2, r3}
  MaxTasks = 3
  MaxFaults = 2
SPECIFICATION FairSpec
INVARIANTS OneTaskPerKey AnswersHold
PROPERTY EveryRequestAnswered
