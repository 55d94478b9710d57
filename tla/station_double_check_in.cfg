CONSTANTS
  s1 = s1
  ann = ann
  bob = bob
  c1 = c1
  c2 = c2
  Calls = {c1, c2}
  TripAfter = 2
  MinVolume = 2
  MaxWindow = 2
  Stations = {s1}
  Occupants = {ann, bob}
  Registrations <- MCRegistrations
  RoleOf <- MCRoleOf
  NoLocation = "none"
  UnknownRole = "unknown"
  NoOccupant = "nobody"
  MaxAttempts = 2
SPECIFICATION Spec
CHECK_DEADLOCK FALSE
PROPERTY OccupantsTakeTurns
