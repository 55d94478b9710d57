CONSTANTS
  w1 = w1
  w2 = w2
  sweep = sweep
  Txs = {w1, w2, sweep}
  KeyOf <- MCKeyOf
  Unlocked = {sweep}
  EventsOf <- MCEventsOf
  Relays = {1, 2}
  BatchSize = 2
  MaxFaults = 0
SPECIFICATION Spec
CHECK_DEADLOCK FALSE
INVARIANT PerKeyOrder
