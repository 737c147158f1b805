SPECIFICATION Spec
CONSTANTS
  Tickets = {t1}
  Users = {u1, u2}
  Nodes = {n1, n2}
  DbNodes = {d1, d2}
  DbOf <- OwnDb
  Rpcs = {r1, r2}
  NoLock = NoLock
  NoTicket = NoTicket
  Requests <- SomeRequests
  LockTtl = 1
  MaxTime = 1
  MaxLocks = 2
  MaxWrites = 3
INVARIANTS TypeOK ConflictOnlyAfterLostLock StatusMovesLegal
SYMMETRY Symmetry
CHECK_DEADLOCK FALSE
