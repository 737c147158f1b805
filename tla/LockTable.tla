----------------------------- MODULE LockTable -----------------------------
(***************************************************************************)
(* The ticket-lock state machine of the custodian: the commands of the     *)
(* Raft log, the table of locks they act on, and what applying one entry   *)
(* does to the table and answers to the caller.  Everything here is a pure *)
(* operator: the replicated module and the abstract service use the same   *)
(* definitions.                                                            *)
(***************************************************************************)
EXTENDS Integers

CONSTANTS Tickets, \* ticket ids
          Users,   \* user ids
          NoLock   \* what the locks tree has for a ticket nobody locked

\* A stored lock: its holder and its expiry in Unix seconds (0: never).
LockInfo == [user : Users, expires : Int]

ASSUME NoLockAssumption == NoLock \notin LockInfo

\* The sled tree "locks": at most one record per ticket.
Table == [Tickets -> LockInfo \cup {NoLock}]

NoLocks == [t \in Tickets |-> NoLock]

\* The two lock commands.  Only an acquisition carries a time stamp, and the
\* lock lifetime goes with it.
AcquireLock(t, u, at, ttl) ==
  [op |-> "acquire", ticket |-> t, user |-> u, at |-> at, ttl |-> ttl]

ReleaseLock(t, u) == [op |-> "release", ticket |-> t, user |-> u]

LockCommand ==
  [op : {"acquire"}, ticket : Tickets, user : Users, at : Int, ttl : Int]
    \cup [op : {"release"}, ticket : Tickets, user : Users]

\* A leader's no-op (or a membership change): the lock table ignores it.
Blank == [op |-> "blank"]

Entry == LockCommand \cup {Blank}

-----------------------------------------------------------------------------
\* LockInfo::is_expired.
IsExpired(lock, now) == lock.expires # 0 /\ lock.expires <= now

\* The expiry acquire_lock_at stores.
ExpiresAt(at, ttl) == IF ttl > 0 THEN at + ttl ELSE 0

AcquireLockAt(locks, t, u, at, ttl) ==
  [locks EXCEPT ![t] = [user |-> u, expires |-> ExpiresAt(at, ttl)]]

\* Variant: the release leaves a record without a holder behind.
StorageReleaseLockTombstone(locks, t) ==
  [locks EXCEPT ![t] = [user |-> NoLock, expires |-> 0]]

StorageReleaseLock(locks, t) == [locks EXCEPT ![t] = NoLock]

HeldByAnother(locks, t, u) == locks[t] # NoLock /\ locks[t].user # u

\* Variant: an acquisition does not look at the lock that is there.
AcceptsEveryAcquire(locks, e) ==
  e.op = "release" => ~ HeldByAnother(locks, e.ticket, e.user)

\* CustodianStateMachine::apply, the answer: an acquisition is refused while
\* another user's lock has not expired at the command's own time stamp, a
\* release only when another user holds the lock, expired or not.
Accepts(locks, e) ==
  /\ e.op = "acquire" => ~ ( /\ HeldByAnother(locks, e.ticket, e.user)
                             /\ ~ IsExpired(locks[e.ticket], e.at) )
  /\ e.op = "release" => ~ HeldByAnother(locks, e.ticket, e.user)

\* CustodianStateMachine::apply, the effect: a refused command changes nothing.
ApplyEntry(locks, e) ==
  IF e.op = "blank" \/ ~ Accepts(locks, e) THEN locks
  ELSE IF e.op = "acquire" THEN AcquireLockAt(locks, e.ticket, e.user, e.at, e.ttl)
  ELSE StorageReleaseLock(locks, e.ticket)
=============================================================================
