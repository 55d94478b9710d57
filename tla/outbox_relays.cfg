CONSTANTS
  w1 = w1
  w2 = w2
  sweep = sweep
  Txs = {w1, w2, sweep}
  KeyOf <- MCKeyOf
  Unlocked = {sweep}
  EventsOf <- MCEventsOf
  Relays = {1, 2}
  BatchSize = 2
  MaxFaults = 1
SPECIFICATION FairSpec
CHECK_DEADLOCK FALSE
INVARIANTS TypeOK OnlyCommittedDelivered NothingLost BoundedRedelivery OneRelayKeepsOrder
PROPERTY EventuallyDelivered
