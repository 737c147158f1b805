---------------------------- MODULE LockService ----------------------------
(***************************************************************************)
(* What the custodian promises its callers, with no replication in it: the *)
(* lock commands take effect one at a time, in some order, on one table of *)
(* locks, between their invocation and their answer; an answer tells what  *)
(* the command did; an RPC may also end in an error that tells nothing.    *)
(***************************************************************************)
EXTENDS LockTable, Sequences

VARIABLES
  log,    \* the entries in the order in which they took effect
  ok,     \* ok[i]: whether entry i was accepted
  table,  \* the lock table after all of them
  call,   \* call[u]: where user u's lock RPC stands
  told    \* the answers callers received: log index and verdict

vars == <<log, ok, table, call, told>>

Idle == [pc |-> "idle"]

Call == {Idle}
          \cup [pc : {"invoked"}, cmd : LockCommand]
          \cup [pc : {"effected"}, index : Nat \ {0}]

TypeOK ==
  /\ log \in Seq(Entry)
  /\ ok \in Seq(BOOLEAN)
  /\ Len(ok) = Len(log)
  /\ table \in Table
  /\ call \in [Users -> Call]
  /\ told \in SUBSET [index : Nat, ok : BOOLEAN]

Init ==
  /\ log = << >>
  /\ ok = << >>
  /\ table = NoLocks
  /\ call = [u \in Users |-> Idle]
  /\ told = {}

\* User u asks for any lock command in its own name.
Invoke(u) ==
  /\ call[u].pc = "idle"
  /\ call'[u] \in [pc : {"invoked"}, cmd : LockCommand]
  /\ call'[u].cmd.user = u
  /\ call' = [call EXCEPT ![u] = call'[u]]
  /\ UNCHANGED <<log, ok, table, told>>

\* One entry takes effect on the table.
Effect(e) ==
  /\ log' = Append(log, e)
  /\ ok' = Append(ok, Accepts(table, e))
  /\ table' = ApplyEntry(table, e)

TakeEffect(u) ==
  /\ call[u].pc = "invoked"
  /\ Effect(call[u].cmd)
  /\ call' = [call EXCEPT ![u] = [pc |-> "effected", index |-> Len(log) + 1]]
  /\ UNCHANGED told

\* A change of leader leaves a no-op in the log.
Failover ==
  /\ Effect(Blank)
  /\ UNCHANGED <<call, told>>

Respond(u) ==
  /\ call[u].pc = "effected"
  /\ told' = told \cup {[index |-> call[u].index, ok |-> ok[call[u].index]]}
  /\ call' = [call EXCEPT ![u] = Idle]
  /\ UNCHANGED <<log, ok, table>>

\* RPCs end in an error: their callers learn nothing, whether or not the
\* command had its effect.
Fail(S) ==
  /\ call' = [u \in Users |-> IF u \in S THEN Idle ELSE call[u]]
  /\ UNCHANGED <<log, ok, table, told>>

Next ==
  \/ \E u \in Users : Invoke(u) \/ TakeEffect(u) \/ Respond(u)
  \/ Failover
  \/ \E S \in SUBSET Users : Fail(S)

Spec == Init /\ [][Next]_vars

-----------------------------------------------------------------------------
\* Entry i acquires the lock of ticket t for user u.
AcquiresFor(i, t, u) ==
  log[i].op = "acquire" /\ log[i].ticket = t /\ log[i].user = u

\* At entry k the lease of acquisition i is over: its user gives the ticket
\* back, or somebody asks for the ticket at a time when a lease this user was
\* granted on it has run out.
EndsLease(i, k) ==
  \/ log[k] = ReleaseLock(log[i].ticket, log[i].user)
  \/ /\ log[k].op = "acquire"
     /\ log[k].ticket = log[i].ticket
     /\ \E m \in i..(k - 1) :
          /\ AcquiresFor(m, log[i].ticket, log[i].user)
          /\ ok[m]
          /\ ExpiresAt(log[m].at, log[m].ttl) # 0
          /\ ExpiresAt(log[m].at, log[m].ttl) <= log[k].at

LeaseEnded(i, j) == \E k \in (i + 1)..j : EndsLease(i, k)

\* Two users hold acquisitions of the same ticket in this order.
Conflicting(i, j) ==
  /\ i < j
  /\ log[i].op = "acquire"
  /\ log[j].op = "acquire"
  /\ log[i].ticket = log[j].ticket
  /\ log[i].user # log[j].user

\* "Linearizable consistency guarantees no double-locking": when two users
\* were both told that they have the lock of a ticket, the first had released
\* it, or its lease was over, before the second got it.
NoDoubleGrant ==
  \A r, s \in told :
    (r.ok /\ s.ok /\ Conflicting(r.index, s.index)) => LeaseEnded(r.index, s.index)
=============================================================================
