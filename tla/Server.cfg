SPECIFICATION ServerSpec
SYMMETRY PartSymmetry
CONSTANTS
  a1 = a1
  a2 = a2
  a3 = a3
  k1 = k1
  k2 = k2
  b1 = b1
  u1 = u1
  m1 = m1
  m2 = m2
  Off = Off
  Nobody = Nobody
  Requests = {a1, a2, a3, b1}
  Input <- ThreeAlikeOneNot
  Lease = 1
  Retention = 2
  HeldUp = 1
  MaxPolls = 1
  MaxTries = 2
  StoreCalls = {a1, a2, a3}
  MaxConnections = 4
  MaxBreaks = 2
  Calls = {m1, m2}
  Users = {u1}
  Sessions = {k1, k2}
  Limit = 1
  PoolLimit = 1
  MaxWindow = 2
  TokenRequests = {k1, k2}
  CodeTtl = 1
  AccessTtl = 1
  RefreshTtl = 3
  GrantTtl = 4
  Slowest = 1
  MaxTokens = 2
  GrantMaxTime = 4
  Flows = {k1, k2}
  MaxFlows = 3
  MaxUsers = 3
  MaxSessions = 2
  MaxMails = 1
  Flushes = {k1, k2}
  Window = 2
  BatchSize = 3
  MaxMarks = 3
  SaverMaxTime = 3
  MaxFailures = 1
  ListCalls = {k1, k2}
  Ttl = 1
  MaxTime = 3
  MaxCalls = 3
CHECK_DEADLOCK FALSE
INVARIANTS
  ServerTypeOK NeverBeside OneExtraPerLease AnswerFits KvStoreSafe
  GrantSafe AccountsSafe QuotaSafe NoReplay SaverSafe PartsSafe
PROPERTIES ImplementsContract ServerSteps
