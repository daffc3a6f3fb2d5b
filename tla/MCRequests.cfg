SPECIFICATION RequestsSpec
CONSTANTS
  Workers = {w1, w2, w3}
  Keys = {e1, e2}
  Queued = {e1}
  NoWork = none
  ClaimsOutliveRuns = TRUE
  MaxStray = 1
  RowIds = {1, 2, 3}
  Stamps = {1, 2}
  RepoTenants = {ta, tb}
  PageLimit = 1
  Absent = absent
  MaxWrites = 2
  Checks = {k1, k2}
  Charges = {o1}
  Subscribes = {s1}
  Usages = {u1}
  Attempts = {a1, a2}
  NoOperation = none
  Prices = {pa, pb}
  Quantities = {2}
  Changers = {g1, g2}
  MaxTries = 2
  Unset = unset
INVARIANTS
  OneRunAtATime
  DeliveredOnce
  PagesMissNothing
  RetriesBillOnce
PROPERTIES
  ClaimsEnd
  AccessCatchesUp
  ChangeMakesWanted
CHECK_DEADLOCK FALSE
