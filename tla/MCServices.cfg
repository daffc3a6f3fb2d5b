SPECIFICATION ServicesSpec
CONSTANTS
  c3 = c3
  i1 = i1
  i2 = i2
  LockCallers = {c1, c2, c3}
  LockInstances = {i1, i2}
  Tokens = {t1, t2, t3}
  NoToken = none
  HomeOf <- MCHome
  MemJobs = {j1, j2}
  MaxAttempts = 2
  BullJobs = {b1, b2}
  BullWorkers = {w1}
  Operators = {o1, o2}
  NoJob = none
  NoWorker = none
  BullAttempts = 2
  Intents = {n1, n2}
  Channels = {email}
  SameKey = TRUE
  NoteWorkers = {w1, w2}
  NoNote = none
  NoteAttempts = 2
  Conns = {s1, s2}
  RtInstances = {i1, i2}
  NoInstance = none
  MaxConnections = 1
  AuWriters = {a1, a2}
  NoWriter = none
  MaxEntries = 3
  MaxTime = 2
  PageSize = 2
  AiCallers = {u1, u2}
  AiInstances = {i1}
  AiHomeOf <- MCAiHome
  Created = created
  NoState = none
  AiModels = 2
  AiBudget = 2
  Guessers = {g1, g2, g3}
  BfMax = 2
  MaxLost = 1
  Rotators = {r1, r2}
  ApiKeys = {k1, k2, k3}
  FirstKey = k1
  NoKey = none
  Window = 3
  MaxRequests = 2
  Costs = {1, 2, 3}
  LastTime = 8
  Resources = {1, 2, 3}
  Priority <- MCPriority
  LimitedHooks = {1, 3}
  SubCallers = {p1}
  MaxChanges = 2
  MaxInstant = 6
INVARIANTS
  OneFillOfAColdKey
  ConnectionLimit
  OneChain
  HonestChainVerifies
  HistoryStored
  GuessesBounded
  RotationKeepsAKey
  AdmittedWithinRule
  RetryIsAdmitted
  CleanExit
  MirrorSettles
PROPERTIES
  OnlyHoldersRelease
  FillsAnswer
  AcceptedJobsEnd
  DeadLettersLeaveAsJobs
  RowsTellTheTruth
  GhostsLeave
CHECK_DEADLOCK FALSE
