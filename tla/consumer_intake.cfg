CONSTANTS
  c1 = c1
  c2 = c2
  Input <- MCInput
  Consumers = {c1, c2}
  MaxAttempts = 3
  Faults = {"commit", "error", "lostMark", "lostCreate", "crash", "shutdown", "dlq"}
  MaxFaults = 4
  MaxReplays = 2
SPECIFICATION FairSpec
CHECK_DEADLOCK FALSE
INVARIANTS TypeOK OneTaskPerRelease DropNeedsFault
PROPERTY EveryReleaseSettles
