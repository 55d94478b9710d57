CONSTANTS
  t1 = t1
  t2 = t2
  s1 = s1
  s2 = s2
  r1 = r1
  r2 = r2
  r3 = r3
  Tasks = {t1}
  Stations = {s1, s2}
  Contents <- MCPlain
  HazardClass <- MCHazardClass
  Requests = {r1, r2}
  Deviations = {0, 5, 6}
  Ops = {"seal"}
  MaxPackages = 2
  MaxSlams = 2
SPECIFICATION Spec
PROPERTY LeaseActiveAtSeal
