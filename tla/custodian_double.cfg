SPECIFICATION Spec
CONSTANTS
  Tickets = {t1}
  Users = {u1, u2, u3}
  Nodes = {n1}
  NoLock = NoLock
  NoLeader = NoLeader
  Ttl = 2
  LockTtl <- UniformTtl
  LogsSinceLast = 9
  MaxTime = 2
  MaxLog = 6
  MaxCalls = 1
  MaxCrashes = 1
INVARIANT NoDoubleGrant
SYMMETRY UserSymmetry
CHECK_DEADLOCK FALSE
