SPECIFICATION DeliverySpec
CONSTANTS
  r1 = r1
  t1 = t1
  Events = {1, 2}
  Relays = {r1, r2}
  Readers = {c1}
  Reclaimers = {t1, t2}
  MaxDeliveries = 2
  MaxFaults = 1
INVARIANTS
  DeadLettersUnacknowledged
CHECK_DEADLOCK FALSE
