SPECIFICATION SteadySpec
CONSTANTS
  Tickets = {t1}
  Users = {u1, u2}
  Nodes = {n1, n2}
  NoLock = NoLock
  NoLeader = NoLeader
  Ttl = 1
  LockTtl <- UniformTtl
  LogsSinceLast = 9
  MaxTime = 2
  MaxLog = 5
  MaxCalls = 2
  MaxCrashes = 0
INVARIANTS TypeOK NoDoubleGrant
PROPERTIES ImplementsLockService
SYMMETRY Symmetry
CHECK_DEADLOCK FALSE
