SPECIFICATION FairSpec
CONSTANTS
  Tickets = {t1}
  Users = {u1}
  Nodes = {n1, n2, n3}
  NoLock = NoLock
  NoLeader = NoLeader
  Ttl = 1
  LockTtl <- UniformTtl
  LogsSinceLast = 2
  MaxTime = 0
  MaxLog = 2
  MaxCalls = 1
  MaxCrashes = 1
INVARIANTS ExactTicketsFollowLog
PROPERTIES ImplementsReplicas EveryCallReturns HealthyNodesCatchUp
CHECK_DEADLOCK FALSE
