CONSTANTS
  c1 = c1
  c2 = c2
  Input <- MCShortInput
  Consumers = {c1, c2}
  MaxAttempts = 3
  Faults = {"lostCreate"}
  MaxFaults = 1
  MaxReplays = 0
SPECIFICATION Spec
CHECK_DEADLOCK FALSE
INVARIANT CreatedOnce
