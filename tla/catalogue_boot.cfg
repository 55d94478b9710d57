CONSTANTS
  r1 = r1
  Replicas = {r1}
  Writes <- MCWrites
  Published = 3
  Upper <- MCUpper
  PartitionOf <- MCPartitionOf
  WorkIds <- MCWorkIds
  BootRetries = 2
  Faults = {"attempt", "readError", "timeout", "rewind", "crash"}
  MaxFaults = 3
SPECIFICATION FairSpec
CHECK_DEADLOCK FALSE
INVARIANTS NeverServesIncomplete SettledPathIsFound
PROPERTY EventuallyCurrent
