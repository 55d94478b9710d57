CONSTANTS
  c1 = c1
  c2 = c2
  History <- MCHistory
  Tasks <- MCTasks
  Consumers = {c1, c2}
  Faults = {"abandon", "lostMark", "lostCommit"}
  HourLength = 3
  MaxFaults = 1
  MaxDisorder = 1
  MaxRebalances = 1
SPECIFICATION FairSpec
CHECK_DEADLOCK FALSE
INVARIANTS ReportsTrue LossNeedsFault CycleTimesExact
PROPERTY EveryEventSettles
