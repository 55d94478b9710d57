CONSTANTS
  c1 = c1
  c2 = c2
  History <- MCHistory
  Tasks <- MCTasks
  Consumers = {c1, c2}
  Faults = {"abandon"}
  HourLength = 3
  MaxFaults = 1
  MaxDisorder = 0
  MaxRebalances = 0
SPECIFICATION Spec
CHECK_DEADLOCK FALSE
INVARIANT EachReadIsApplied
