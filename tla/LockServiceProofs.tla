------------------------- MODULE LockServiceProofs -------------------------
(***************************************************************************)
(* The abstract lock service never lets two users believe they hold the    *)
(* same ticket, for any number of tickets, users, calls and changes of     *)
(* leader, any lease lifetimes and any time stamps, ordered or not.        *)
(***************************************************************************)
EXTENDS LockService, LockTableProofs

\* A call whose command had its effect knows a position of the log.
EffectedInLog ==
  \A u \in Users : call[u].pc = "effected" => call[u].index \in 1..Len(log)

\* What callers were told is what happened.
ToldIsWhatHappened ==
  \A r \in told : r.index \in 1..Len(log) /\ r.ok = ok[r.index]

\* Entry i was a granted acquisition.
Granted(i) == log[i].op = "acquire" /\ ok[i]

\* The user of acquisition i has the lock, with the lifetime some acquisition
\* of its own since then gave it.
StillHeld(i) ==
  \E m \in i..Len(log) :
    /\ AcquiresFor(m, log[i].ticket, log[i].user)
    /\ ok[m]
    /\ table[log[i].ticket] =
         [user |-> log[i].user, expires |-> ExpiresAt(log[m].at, log[m].ttl)]

\* A granted lease is in force until it ended.
GrantsHeldOrEnded ==
  \A i \in 1..Len(log) : Granted(i) => StillHeld(i) \/ LeaseEnded(i, Len(log))

\* A grant to another user comes after the end of the lease.
GrantsExclusive ==
  \A i, j \in 1..Len(log) :
    (Granted(i) /\ Granted(j) /\ Conflicting(i, j)) => LeaseEnded(i, j)

IInv ==
  /\ TypeOK
  /\ EffectedInLog
  /\ ToldIsWhatHappened
  /\ GrantsHeldOrEnded
  /\ GrantsExclusive

-----------------------------------------------------------------------------
\* The commands in flight and the entries of the log are entries.
LEMMA CommandIsEntry ==
  ASSUME TypeOK, NEW u \in Users, call[u].pc = "invoked"
  PROVE  call[u].cmd \in Entry
BY DEF TypeOK, Call, Idle, Entry

\* One entry takes effect: the log, the verdicts and the table grow as they should.
LEMMA EffectType ==
  ASSUME TypeOK, NEW e \in Entry, Effect(e)
  PROVE  /\ log' \in Seq(Entry) /\ ok' \in Seq(BOOLEAN) /\ table' \in Table
         /\ Len(log') = Len(log) + 1 /\ Len(ok') = Len(log')
         /\ Len(log) \in Nat
         /\ \A i \in 1..Len(log) : log'[i] = log[i] /\ ok'[i] = ok[i]
         /\ \A i \in 1..Len(log) : log[i] \in Entry
         /\ log'[Len(log) + 1] = e /\ ok'[Len(log) + 1] = Accepts(table, e)
<1>1. Accepts(table, e) \in BOOLEAN /\ ApplyEntry(table, e) \in Table
  BY AcceptsType, ApplyEntryType DEF TypeOK
<1> QED BY <1>1 DEF TypeOK, Effect

\* What ends a lease in the old log ends it in the new one.
LEMMA EndsLeaseStable ==
  ASSUME TypeOK, NEW e \in Entry, Effect(e),
         NEW i \in 1..Len(log), NEW k \in (i + 1)..Len(log), EndsLease(i, k)
  PROVE  EndsLease(i, k)'
<1>1. /\ Len(log) \in Nat
      /\ \A x \in 1..Len(log) : log'[x] = log[x] /\ ok'[x] = ok[x]
  BY EffectType
<1>2. k \in 1..Len(log) /\ \A m \in i..(k - 1) : m \in 1..Len(log)
  BY <1>1
<1> QED BY <1>1, <1>2 DEF EndsLease, AcquiresFor

\* A lease that ended stays ended.
LEMMA LeaseEndedStable ==
  ASSUME TypeOK, NEW e \in Entry, Effect(e),
         NEW i \in 1..Len(log), NEW j \in 1..Len(log), LeaseEnded(i, j)
  PROVE  LeaseEnded(i, j)' /\ LeaseEnded(i, Len(log))'
<1>1. PICK k \in (i + 1)..j : EndsLease(i, k)
  BY DEF LeaseEnded
<1>2. Len(log) \in Nat /\ Len(log') = Len(log) + 1
  BY EffectType
<1>3. k \in (i + 1)..Len(log) /\ k \in (i + 1)..Len(log')
  BY <1>2
<1>4. EndsLease(i, k)'
  BY <1>1, <1>3, EndsLeaseStable
<1> QED BY <1>3, <1>4 DEF LeaseEnded

\* When the lease of acquisition i is in force and one more entry takes effect,
\* it stays in force, or that entry ends it; and a grant to another user ends it.
LEMMA HeldLeaseStep ==
  ASSUME TypeOK, NEW e \in Entry, Effect(e),
         NEW i \in 1..Len(log), Granted(i), StillHeld(i),
         NEW N, N = Len(log) + 1
  PROVE  /\ StillHeld(i)' \/ LeaseEnded(i, N)'
         /\ (Granted(N)' /\ Conflicting(i, N)') => LeaseEnded(i, N)'
<1> PICK t, u : t = log[i].ticket /\ u = log[i].user
  OBVIOUS
<1>1. /\ Len(log) \in Nat /\ Len(log') = N /\ N \in Nat /\ i \in 1..N /\ i < N
      /\ \A x \in 1..Len(log) : log'[x] = log[x] /\ ok'[x] = ok[x]
      /\ log'[N] = e /\ ok'[N] = Accepts(table, e)
      /\ log[i] \in Entry
      /\ table' = ApplyEntry(table, e)
      /\ table \in Table
  BY EffectType DEF Effect, TypeOK
<1>2. t \in Tickets /\ u \in Users /\ log'[i] = log[i]
  BY <1>1, EntryCases DEF Granted
<1>3. PICK m \in i..Len(log) :
        /\ AcquiresFor(m, t, u)
        /\ ok[m]
        /\ table[t] = [user |-> u, expires |-> ExpiresAt(log[m].at, log[m].ttl)]
  BY DEF StillHeld
<1>4. /\ m \in 1..Len(log) /\ m \in i..(N - 1) /\ m \in i..N
      /\ log'[m] = log[m] /\ ok'[m]
      /\ table[t] # NoLock /\ table[t].user = u
      /\ table[t].expires = ExpiresAt(log[m].at, log[m].ttl)
  <2>1. m \in 1..Len(log) /\ m \in i..(N - 1) /\ m \in i..N
    BY <1>1, <1>3
  <2>2. log[m] \in Entry /\ log'[m] = log[m] /\ ok'[m]
    BY <2>1, <1>1, <1>3, EffectType
  <2>3. log[m].at \in Int /\ log[m].ttl \in Int
    BY <2>2, <1>3, EntryCases DEF AcquiresFor
  <2>4. ExpiresAt(log[m].at, log[m].ttl) \in Int
    BY <2>3, ExpiresAtType
  <2>5. table[t] \in LockInfo
    BY <1>2, <1>3, <2>4 DEF LockInfo
  <2> QED BY <2>1, <2>2, <2>5, <1>3, NoLockAssumption
<1>5. AcquiresFor(m, t, u)' /\ log'[i].ticket = t /\ log'[i].user = u
  BY <1>2, <1>3, <1>4 DEF AcquiresFor
<1>6. ASSUME EndsLease(i, N)' PROVE LeaseEnded(i, N)'
  BY <1>1, <1>6 DEF LeaseEnded
<1>7. ASSUME table'[t] = table[t] PROVE StillHeld(i)'
  <2>1. table'[log'[i].ticket] = [user |-> log'[i].user,
                                  expires |-> ExpiresAt(log'[m].at, log'[m].ttl)]
    BY <1>2, <1>3, <1>4, <1>7
  <2> QED BY <1>1, <1>2, <1>4, <1>5, <2>1 DEF StillHeld
<1>8. CASE e.op = "blank" \/ e.ticket # t
  <2>1. table'[t] = table[t]
    BY <1>1, <1>2, <1>8, ApplyEntryElsewhere
  <2>2. ~ (Granted(N)' /\ Conflicting(i, N)')
    BY <1>1, <1>2, <1>8 DEF Granted, Conflicting
  <2> QED BY <1>7, <2>1, <2>2
<1>9. CASE e.op = "release" /\ e.ticket = t
  <2>1. CASE e.user = u
    <3>1. e = ReleaseLock(t, u)
      BY <1>9, <2>1, EntryCases DEF ReleaseLock
    <3>2. EndsLease(i, N)'
      BY <1>1, <1>2, <3>1 DEF EndsLease, ReleaseLock
    <3> QED BY <1>6, <3>2
  <2>2. CASE e.user # u
    <3>1. table'[t] = table[t]
      BY <1>1, <1>4, <1>9, <2>2 DEF ApplyEntry, Accepts, HeldByAnother
    <3>2. ~ Granted(N)'
      BY <1>1, <1>9 DEF Granted
    <3> QED BY <1>7, <3>1, <3>2
  <2> QED BY <2>1, <2>2
<1>10. CASE e.op = "acquire" /\ e.ticket = t
  <2>1. e.user \in Users /\ e.at \in Int /\ e.ttl \in Int
    BY <1>10, EntryCases
  <2>2. CASE e.user = u
    <3>1. Accepts(table, e)
      BY <1>4, <1>10, <2>2 DEF Accepts, HeldByAnother
    <3>2. table'[t] = [user |-> e.user, expires |-> ExpiresAt(e.at, e.ttl)]
      BY <1>1, <1>2, <1>10, <3>1 DEF ApplyEntry, AcquireLockAt, Table
    <3>3. AcquiresFor(N, t, u)' /\ ok'[N] /\ N \in i..N
      BY <1>1, <1>10, <2>2, <3>1 DEF AcquiresFor
    <3>4. table'[log'[i].ticket] = [user |-> log'[i].user,
                                    expires |-> ExpiresAt(log'[N].at, log'[N].ttl)]
      BY <1>1, <1>2, <2>2, <3>2
    <3>5. StillHeld(i)'
      BY <1>1, <1>2, <3>3, <3>4 DEF StillHeld
    <3>6. ~ Conflicting(i, N)'
      BY <1>1, <1>2, <2>2 DEF Conflicting
    <3> QED BY <3>5, <3>6
  <2>3. CASE e.user # u /\ IsExpired(table[t], e.at)
    <3>1. /\ ExpiresAt(log'[m].at, log'[m].ttl) # 0
          /\ ExpiresAt(log'[m].at, log'[m].ttl) <= log'[N].at
      BY <1>1, <1>4, <2>3 DEF IsExpired
    <3>2. EndsLease(i, N)'
      BY <1>1, <1>2, <1>4, <1>5, <1>10, <3>1 DEF EndsLease
    <3> QED BY <1>6, <3>2
  <2>4. CASE e.user # u /\ ~ IsExpired(table[t], e.at)
    <3>1. ~ Accepts(table, e)
      BY <1>4, <1>10, <2>4 DEF Accepts, HeldByAnother
    <3>2. table'[t] = table[t]
      BY <1>1, <3>1 DEF ApplyEntry
    <3>3. ~ Granted(N)'
      BY <1>1, <3>1 DEF Granted
    <3> QED BY <1>7, <3>2, <3>3
  <2> QED BY <2>2, <2>3, <2>4
<1> QED BY <1>8, <1>9, <1>10, EntryCases

\* The steps that let an entry take effect keep what is known about grants.
LEMMA EffectStep ==
  ASSUME IInv, NEW e \in Entry, Effect(e)
  PROVE  GrantsHeldOrEnded' /\ GrantsExclusive'
<1> PICK N : N = Len(log) + 1
  OBVIOUS
<1> USE DEF IInv
<1>1. /\ Len(log) \in Nat /\ Len(log') = N /\ N \in Nat /\ N \in 1..N
      /\ \A x \in 1..Len(log) : log'[x] = log[x] /\ ok'[x] = ok[x]
      /\ \A x \in 1..N : x \in 1..Len(log) \/ x = N
      /\ log'[N] = e /\ ok'[N] = Accepts(table, e)
      /\ table' = ApplyEntry(table, e) /\ table \in Table
  BY EffectType DEF Effect, TypeOK
<1>2. ASSUME NEW i \in 1..Len(log), Granted(i)'
      PROVE  /\ Granted(i)
             /\ LeaseEnded(i, N)' \/ (StillHeld(i) /\ StillHeld(i)')
             /\ (Granted(N)' /\ Conflicting(i, N)') => LeaseEnded(i, N)'
  <2>1. Granted(i)
    BY <1>1, <1>2 DEF Granted
  <2>2. CASE LeaseEnded(i, Len(log))
    <3>1. LeaseEnded(i, Len(log))'
      BY <1>1, <2>2, LeaseEndedStable
    <3>2. LeaseEnded(i, N)'
      BY <1>1, <3>1
    <3> QED BY <2>1, <3>2
  <2>3. CASE StillHeld(i)
    BY <2>1, <2>3, HeldLeaseStep
  <2> QED BY <2>1, <2>2, <2>3 DEF GrantsHeldOrEnded
<1>3. GrantsHeldOrEnded'
  <2> SUFFICES ASSUME NEW i \in 1..N, Granted(i)'
               PROVE  StillHeld(i)' \/ LeaseEnded(i, N)'
    BY <1>1 DEF GrantsHeldOrEnded
  <2>1. CASE i \in 1..Len(log)
    BY <1>2, <2>1
  <2>2. CASE i = N
    <3>1. e.op = "acquire" /\ Accepts(table, e)
      BY <1>1, <2>2 DEF Granted
    <3>2. e.ticket \in Tickets
      BY <3>1, EntryCases
    <3>3. table'[e.ticket] = [user |-> e.user, expires |-> ExpiresAt(e.at, e.ttl)]
      BY <1>1, <3>1, <3>2 DEF ApplyEntry, AcquireLockAt, Table
    <3>4. N \in N..N
      BY <1>1
    <3> QED BY <1>1, <2>2, <3>1, <3>3, <3>4 DEF StillHeld, AcquiresFor
  <2> QED BY <1>1, <2>1, <2>2
<1>4. GrantsExclusive'
  <2> SUFFICES ASSUME NEW i \in 1..N, NEW j \in 1..N,
                      Granted(i)', Granted(j)', Conflicting(i, j)'
               PROVE  LeaseEnded(i, j)'
    BY <1>1 DEF GrantsExclusive
  <2>1. i < j
    BY DEF Conflicting
  <2>2. i \in 1..Len(log)
    BY <1>1, <2>1
  <2>3. CASE j = N
    BY <1>2, <2>2, <2>3
  <2>4. CASE j \in 1..Len(log)
    <3>1. Granted(i) /\ Granted(j) /\ Conflicting(i, j)
      BY <1>1, <2>2, <2>4 DEF Granted, Conflicting
    <3>2. LeaseEnded(i, j)
      BY <2>2, <2>4, <3>1 DEF GrantsExclusive
    <3> QED BY <2>2, <2>4, <3>2, LeaseEndedStable
  <2> QED BY <1>1, <2>3, <2>4
<1> QED BY <1>3, <1>4

\* The service starts in a state of the inductive invariant.
LEMMA InitIInv == Init => IInv
<1> SUFFICES ASSUME Init PROVE IInv
  OBVIOUS
<1>1. TypeOK
  BY NoLocksType DEF Init, TypeOK, Call
<1>2. Len(log) = 0 /\ told = {} /\ \A u \in Users : call[u].pc # "effected"
  BY DEF Init, Idle
<1> QED BY <1>1, <1>2 DEF IInv, EffectedInLog, ToldIsWhatHappened, GrantsHeldOrEnded,
                          GrantsExclusive

\* A step that leaves the log, the verdicts and the table alone keeps what is
\* known about grants.
LEMMA QuietStep ==
  ASSUME IInv, UNCHANGED <<log, ok, table>>
  PROVE  GrantsHeldOrEnded' /\ GrantsExclusive'
BY DEF IInv, GrantsHeldOrEnded, GrantsExclusive, Granted, StillHeld, LeaseEnded, EndsLease,
       AcquiresFor, Conflicting

\* Every step of the service keeps the inductive invariant.
LEMMA NextIInv == IInv /\ [Next]_vars => IInv'
<1> SUFFICES ASSUME IInv, [Next]_vars PROVE IInv'
  OBVIOUS
<1> USE DEF IInv
<1>1. ASSUME NEW u \in Users, Invoke(u) PROVE IInv'
  <2>1. TypeOK'
    BY <1>1 DEF Invoke, TypeOK, Call
  <2>2. EffectedInLog'
    BY <1>1 DEF Invoke, EffectedInLog, TypeOK
  <2>3. ToldIsWhatHappened'
    BY <1>1 DEF Invoke, ToldIsWhatHappened
  <2>4. GrantsHeldOrEnded' /\ GrantsExclusive'
    BY <1>1, QuietStep DEF Invoke
  <2> QED BY <2>1, <2>2, <2>3, <2>4
<1>2. ASSUME NEW u \in Users, TakeEffect(u) PROVE IInv'
  <2>1. call[u].cmd \in Entry /\ Effect(call[u].cmd)
    BY <1>2, CommandIsEntry DEF TakeEffect
  <2>2. /\ log' \in Seq(Entry) /\ ok' \in Seq(BOOLEAN) /\ table' \in Table
        /\ Len(log') = Len(log) + 1 /\ Len(ok') = Len(log') /\ Len(log) \in Nat
        /\ \A i \in 1..Len(log) : ok'[i] = ok[i]
    BY <2>1, EffectType
  <2>3. [pc |-> "effected", index |-> Len(log) + 1] \in Call
    BY <2>2 DEF Call
  <2>4. TypeOK'
    BY <1>2, <2>2, <2>3 DEF TakeEffect, TypeOK
  <2>5. EffectedInLog'
    BY <1>2, <2>2 DEF TakeEffect, EffectedInLog, TypeOK
  <2>6. ToldIsWhatHappened'
    BY <1>2, <2>2 DEF TakeEffect, ToldIsWhatHappened
  <2>7. GrantsHeldOrEnded' /\ GrantsExclusive'
    BY <2>1, EffectStep
  <2> QED BY <2>4, <2>5, <2>6, <2>7
<1>3. ASSUME NEW u \in Users, Respond(u) PROVE IInv'
  <2>1. call[u].index \in 1..Len(log) /\ ok[call[u].index] \in BOOLEAN
    BY <1>3 DEF Respond, EffectedInLog, TypeOK
  <2>2. [index |-> call[u].index, ok |-> ok[call[u].index]] \in [index : Nat, ok : BOOLEAN]
    BY <2>1
  <2>3. TypeOK'
    BY <1>3, <2>2 DEF Respond, TypeOK, Call
  <2>4. EffectedInLog'
    BY <1>3 DEF Respond, EffectedInLog, TypeOK, Idle
  <2>5. ToldIsWhatHappened'
    BY <1>3, <2>1 DEF Respond, ToldIsWhatHappened
  <2>6. GrantsHeldOrEnded' /\ GrantsExclusive'
    BY <1>3, QuietStep DEF Respond
  <2> QED BY <2>3, <2>4, <2>5, <2>6
<1>4. ASSUME Failover PROVE IInv'
  <2>1. Blank \in Entry /\ Effect(Blank)
    BY <1>4 DEF Failover, Entry
  <2>2. /\ log' \in Seq(Entry) /\ ok' \in Seq(BOOLEAN) /\ table' \in Table
        /\ Len(log') = Len(log) + 1 /\ Len(ok') = Len(log') /\ Len(log) \in Nat
        /\ \A i \in 1..Len(log) : ok'[i] = ok[i]
    BY <2>1, EffectType
  <2>3. TypeOK' /\ EffectedInLog' /\ ToldIsWhatHappened'
    BY <1>4, <2>2 DEF Failover, TypeOK, EffectedInLog, ToldIsWhatHappened
  <2>4. GrantsHeldOrEnded' /\ GrantsExclusive'
    BY <2>1, EffectStep
  <2> QED BY <2>3, <2>4
<1>5. ASSUME NEW S \in SUBSET Users, Fail(S) PROVE IInv'
  <2>1. TypeOK'
    BY <1>5 DEF Fail, TypeOK, Call
  <2>2. EffectedInLog'
    BY <1>5 DEF Fail, EffectedInLog, TypeOK, Idle
  <2>3. ToldIsWhatHappened'
    BY <1>5 DEF Fail, ToldIsWhatHappened
  <2>4. GrantsHeldOrEnded' /\ GrantsExclusive'
    BY <1>5, QuietStep DEF Fail
  <2> QED BY <2>1, <2>2, <2>3, <2>4
<1>6. ASSUME UNCHANGED vars PROVE IInv'
  <2>1. GrantsHeldOrEnded' /\ GrantsExclusive'
    BY <1>6, QuietStep DEF vars
  <2> QED BY <1>6, <2>1 DEF vars, TypeOK, EffectedInLog, ToldIsWhatHappened
<1> QED BY <1>1, <1>2, <1>3, <1>4, <1>5, <1>6 DEF Next

\* The inductive invariant of the lock service.
THEOREM ServiceInvariant == Spec => []IInv
BY InitIInv, NextIInv, PTL DEF Spec

\* Of two users who were told they have a ticket's lock, the first had given it
\* back or outlived its lease when the second got it: for every number of users,
\* tickets, calls and failovers and for every assignment of time stamps.
THEOREM ServiceNeverDoubleGrants == Spec => []NoDoubleGrant
<1>1. IInv => NoDoubleGrant
  BY DEF IInv, NoDoubleGrant, ToldIsWhatHappened, GrantsExclusive, Granted, Conflicting
<1> QED BY <1>1, ServiceInvariant, PTL
=============================================================================
