CONSTANTS
  t1 = t1
  t2 = t2
  s1 = s1
  s2 = s2
  r1 = r1
  r2 = r2
  Tasks = {t1}
  Stations = {s1, s2}
  Requests = {r1, r2}
  TypeOf <- MCTypeOf
  Cpt <- MCCpt
  Required <- MCRequired
  Capabilities <- MCCapabilities
  LeaseDuration = 1
  Ops = {"claim", "complete", "renew", "expire", "cptsweep"}
  MaxTime = 3
  Horizon = 2
  MaxEvents = 4
SPECIFICATION FairSpec
CHECK_DEADLOCK FALSE
INVARIANTS TypeOK RowConsistent LeaseBounded HistoryJustifiesRow ViewsAgree
PROPERTY ClaimRunsOut
