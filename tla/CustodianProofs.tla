-------------------------- MODULE CustodianProofs --------------------------
(***************************************************************************)
(* Proofs about the replicated lock service, for every number of nodes,    *)
(* users and tickets and every value of the bounds.                        *)
(*                                                                         *)
(* First the type invariant and the invariant that ties every store to the *)
(* log, through elections, purges, the end of a node's Raft, crashes and   *)
(* restarts; then, for the cluster whose processes keep running, the       *)
(* refinement of the abstract lock service and what follows from it.       *)
(***************************************************************************)
EXTENDS Custodian, LockTableProofs

\* hist is what the log says: each table follows from the one before.
HistFollowsLog ==
  /\ Len(hist) = Len(log) + 1
  /\ hist[1] = NoLocks
  /\ \A i \in 1..Len(log) : hist[i + 1] = ApplyEntry(hist[i], log[i])

\* No store is ahead of the log, nor its state machine ahead of its own log.
IndexesInLog ==
  \A n \in Nodes :
    /\ applied[n] <= logged[n]
    /\ logged[n] <= Len(log)

Bounded == TypeOK /\ HistFollowsLog /\ IndexesInLog

StoreInv == Bounded /\ ExactTicketsFollowLog

-----------------------------------------------------------------------------
\* The initial state is typed and consistent with the empty log.
LEMMA InitBounded == Init => Bounded
<1> SUFFICES ASSUME Init PROVE Bounded
  OBVIOUS
<1> USE NoLocksType
<1>1. TypeOK
  BY DEF Init, TypeOK, Call
<1>2. HistFollowsLog /\ IndexesInLog
  BY ConstantsAssumption DEF Init, HistFollowsLog, IndexesInLog
<1> QED BY <1>1, <1>2 DEF Bounded

\* Indices of the log and of its history hold what they should.
LEMMA LogTypes ==
  ASSUME Bounded
  PROVE  /\ Len(log) \in Nat /\ Len(hist) = Len(log) + 1
         /\ \A i \in 1..Len(log) : log[i] \in Entry
         /\ \A i \in 1..(Len(log) + 1) : hist[i] \in Table
         /\ \A i \in 0..Len(log) : Prescribed(i) \in Table
BY DEF Bounded, TypeOK, HistFollowsLog, Prescribed

\* Appending an entry on a quorum extends the log and its history together.
LEMMA AppendStep ==
  ASSUME Bounded, NEW e \in Entry, NEW Q \in SUBSET Nodes, AppendOn(Q, e)
  PROVE  /\ log' \in Seq(Entry) /\ hist' \in Seq(Table)
         /\ Len(log') = Len(log) + 1
         /\ \A i \in 1..Len(log) : log'[i] = log[i]
         /\ \A i \in 1..(Len(log) + 1) : hist'[i] = hist[i]
         /\ log'[Len(log) + 1] = e
         /\ hist'[Len(log) + 2] = ApplyEntry(hist[Len(log) + 1], e)
         /\ logged' \in [Nodes -> Nat] /\ durable' \in [Nodes -> SUBSET Table]
         /\ HistFollowsLog'
<1>1. /\ Len(log) \in Nat /\ Len(hist) = Len(log) + 1 /\ log \in Seq(Entry) /\ hist \in Seq(Table)
      /\ hist[Len(log) + 1] \in Table
  BY LogTypes DEF Bounded, TypeOK
<1>2. ApplyEntry(hist[Len(hist)], e) \in Table
  BY <1>1, ApplyEntryType
<1>3. log' = Append(log, e) /\ hist' = Append(hist, ApplyEntry(hist[Len(hist)], e))
  BY DEF AppendOn
<1>4. /\ log' \in Seq(Entry) /\ hist' \in Seq(Table)
      /\ Len(log') = Len(log) + 1 /\ Len(hist') = Len(log) + 2
      /\ \A i \in 1..Len(log) : log'[i] = log[i]
      /\ \A i \in 1..(Len(log) + 1) : hist'[i] = hist[i]
      /\ log'[Len(log) + 1] = e
      /\ hist'[Len(log) + 2] = ApplyEntry(hist[Len(log) + 1], e)
  BY <1>1, <1>2, <1>3
<1>5. logged' \in [Nodes -> Nat] /\ durable' \in [Nodes -> SUBSET Table]
  BY <1>1 DEF AppendOn, Bounded, TypeOK
<1>6. HistFollowsLog'
  <2>1. Len(hist') = Len(log') + 1 /\ hist'[1] = NoLocks
    BY <1>1, <1>4 DEF Bounded, HistFollowsLog
  <2>2. ASSUME NEW i \in 1..Len(log') PROVE hist'[i + 1] = ApplyEntry(hist'[i], log'[i])
    <3>1. CASE i \in 1..Len(log)
      <4>1. i \in 1..(Len(log) + 1) /\ i + 1 \in 1..(Len(log) + 1)
        BY <1>1, <3>1
      <4>2. hist[i + 1] = ApplyEntry(hist[i], log[i])
        BY <3>1 DEF Bounded, HistFollowsLog
      <4> QED BY <1>4, <3>1, <4>1, <4>2
    <3>2. CASE i = Len(log) + 1
      BY <1>1, <1>4, <3>2
    <3> QED BY <1>1, <1>4, <3>1, <3>2
  <2> QED BY <2>1, <2>2 DEF HistFollowsLog
<1> QED BY <1>4, <1>5, <1>6

\* Appending an entry leaves every store within the log.
LEMMA AppendKeepsIndexes ==
  ASSUME Bounded, NEW e, NEW Q, AppendOn(Q, e),
         Len(log) \in Nat, Len(log') = Len(log) + 1
  PROVE  IndexesInLog'
<1> SUFFICES ASSUME NEW n \in Nodes
             PROVE  applied'[n] <= logged'[n] /\ logged'[n] <= Len(log')
  BY DEF IndexesInLog
<1>1. /\ applied[n] \in Nat /\ logged[n] \in Nat
      /\ applied[n] <= logged[n] /\ logged[n] <= Len(log)
  BY DEF Bounded, TypeOK, IndexesInLog
<1>2. applied'[n] = applied[n] /\ logged'[n] \in {logged[n], Len(log) + 1}
  BY DEF AppendOn
<1> QED BY <1>1, <1>2

\* A step of the server or of the elections keeps types and bounds.
LEMMA ServiceBounded == Bounded /\ Service => Bounded'
<1> SUFFICES ASSUME Bounded, Service PROVE Bounded'
  OBVIOUS
<1> USE DEF Bounded
<1>1. ASSUME NEW n \in Nodes, Tick(n) PROVE Bounded'
  BY <1>1 DEF Tick, raftVars, storeVars, snapVars, faultVars, TypeOK, HistFollowsLog,
              IndexesInLog
<1>2. ASSUME NEW u \in Users, NEW n \in Nodes, NEW cmd \in LockCommand, Stamp(u, n, cmd)
      PROVE  Bounded'
  <2>1. [pc |-> "stamped", node |-> n, cmd |-> cmd] \in Call
    BY DEF Call
  <2> QED BY <1>2, <2>1 DEF Stamp, raftVars, storeVars, snapVars, faultVars, TypeOK,
                            HistFollowsLog, IndexesInLog
<1>3. ASSUME NEW u \in Users, NEW n \in Nodes, NEW t \in Tickets, RequestAcquire(u, n, t)
      PROVE  Bounded'
  <2>1. AcquireLock(t, u, clock[n], LockTtl[n]) \in LockCommand
    BY ConstantsAssumption DEF AcquireLock, LockCommand, TypeOK
  <2> QED BY <1>2, <1>3, <2>1 DEF RequestAcquire
<1>4. ASSUME NEW u \in Users, NEW n \in Nodes, NEW t \in Tickets, RequestRelease(u, n, t)
      PROVE  Bounded'
  <2>1. ReleaseLock(t, u) \in LockCommand
    BY DEF ReleaseLock, LockCommand
  <2> QED BY <1>2, <1>4, <2>1 DEF RequestRelease
<1>5. ASSUME NEW u \in Users, NotLeader(u) PROVE Bounded'
  BY <1>5 DEF NotLeader, Call, raftVars, storeVars, snapVars, faultVars, TypeOK,
              HistFollowsLog, IndexesInLog
<1>6. ASSUME NEW u \in Users, NEW Q \in Quorums, Commit(u, Q) PROVE Bounded'
  <2>1. call[u].cmd \in Entry /\ Q \in SUBSET Nodes /\ leader \in Nodes
    <3>1. call[u] \in Call /\ call[u].pc = "stamped" /\ call[u].node = leader
      BY <1>6 DEF Commit, TypeOK
    <3>2. call[u].cmd \in LockCommand /\ call[u].node \in Nodes
      BY <3>1 DEF Call, Idle
    <3> QED BY <3>1, <3>2 DEF Entry, Quorums
  <2>2. AppendOn(Q, call[u].cmd)
    BY <1>6 DEF Commit
  <2>3. /\ log' \in Seq(Entry) /\ hist' \in Seq(Table) /\ HistFollowsLog'
        /\ Len(log') = Len(log) + 1 /\ Len(log) \in Nat
        /\ logged' \in [Nodes -> Nat] /\ durable' \in [Nodes -> SUBSET Table]
    BY <2>1, <2>2, AppendStep, LogTypes
  <2>4. [pc |-> "waiting", node |-> leader, index |-> Len(log) + 1] \in Call
    BY <2>1, <2>3 DEF Call
  <2>5. TypeOK'
    BY <1>6, <2>2, <2>3, <2>4 DEF Commit, AppendOn, snapVars, faultVars, TypeOK
  <2>6. IndexesInLog'
    BY <1>6, <2>2, <2>3, AppendKeepsIndexes DEF Commit
  <2> QED BY <2>3, <2>5, <2>6
<1>7. ASSUME NEW n \in Nodes, NEW Q \in Quorums, Elect(n, Q) PROVE Bounded'
  <2>1. Blank \in Entry /\ Q \in SUBSET Nodes /\ AppendOn(Q, Blank)
    BY <1>7 DEF Elect, Entry, Quorums
  <2>2. /\ log' \in Seq(Entry) /\ hist' \in Seq(Table) /\ HistFollowsLog'
        /\ Len(log') = Len(log) + 1 /\ Len(log) \in Nat
        /\ logged' \in [Nodes -> Nat] /\ durable' \in [Nodes -> SUBSET Table]
    BY <2>1, AppendStep, LogTypes
  <2>3. TypeOK'
    BY <1>7, <2>1, <2>2 DEF Elect, AppendOn, clientVars, snapVars, faultVars, TypeOK
  <2>4. IndexesInLog'
    BY <1>7, <2>1, <2>2, AppendKeepsIndexes DEF Elect
  <2> QED BY <2>2, <2>3, <2>4
<1> QED BY <1>1, <1>3, <1>4, <1>5, <1>6, <1>7 DEF Service

\* What is known of one node.
LEMMA NodeTypes ==
  ASSUME Bounded, NEW n \in Nodes
  PROVE  /\ applied[n] \in Nat /\ logged[n] \in Nat /\ purged[n] \in Nat /\ Len(log) \in Nat
         /\ locks[n] \in Table /\ durable[n] \in SUBSET Table
         /\ snapshot[n] \in Nat /\ exact[n] \in SUBSET Tickets
         /\ applied[n] <= logged[n] /\ logged[n] <= Len(log)
BY LogTypes DEF Bounded, TypeOK, IndexesInLog

\* A step of one store keeps types and bounds.
LEMMA StoreBounded == Bounded /\ Store => Bounded'
<1> SUFFICES ASSUME Bounded, NEW n \in Nodes,
                    \/ Replicate(n) \/ Apply(n) \/ BuildSnapshot(n) \/ Purge(n)
             PROVE  Bounded'
  BY DEF Store
<1>t. /\ TypeOK /\ HistFollowsLog /\ IndexesInLog /\ Len(log) \in Nat
      /\ applied[n] \in Nat /\ logged[n] \in Nat /\ locks[n] \in Table
      /\ applied[n] <= logged[n] /\ logged[n] <= Len(log)
  BY NodeTypes DEF Bounded
<1>1. CASE Replicate(n)
  <2>t. logged' \in [Nodes -> Nat] /\ durable' \in [Nodes -> SUBSET Table]
    <3>1. /\ logged \in [Nodes -> Nat] /\ durable \in [Nodes -> SUBSET Table]
          /\ logged[n] + 1 \in Nat /\ {locks[n]} \in SUBSET Table
      BY <1>t DEF TypeOK
    <3>2. /\ logged' = [logged EXCEPT ![n] = logged[n] + 1]
          /\ durable' = [durable EXCEPT ![n] = {locks[n]}]
      BY <1>1 DEF Replicate
    <3> QED BY <3>1, <3>2
  <2>1. TypeOK' /\ HistFollowsLog'
    BY <1>1, <1>t, <2>t DEF Replicate, clientVars, raftVars, snapVars, faultVars, TypeOK,
                            HistFollowsLog
  <2>2. logged' = [logged EXCEPT ![n] = logged[n] + 1] /\ logged[n] + 1 <= Len(log)
    BY <1>1, <1>t DEF Replicate
  <2>3. IndexesInLog'
    BY <1>1, <1>t, <2>2 DEF Replicate, raftVars, snapVars, TypeOK, IndexesInLog
  <2> QED BY <2>1, <2>3 DEF Bounded
<1>2. CASE Apply(n)
  <2> DEFINE i == applied[n] + 1
  <2>1. i \in 1..Len(log) /\ i <= logged[n]
    BY <1>2, <1>t DEF Apply
  <2>2. log[i] \in Entry
    BY <2>1, LogTypes
  <2>3. ApplyEntry(locks[n], log[i]) \in Table /\ Accepts(locks[n], log[i]) \in BOOLEAN
    BY <1>t, <2>2, ApplyEntryType, AcceptsType
  <2>4. applied' = [applied EXCEPT ![n] = i] /\ applied' \in [Nodes -> Nat]
    BY <1>2, <1>t DEF Apply, TypeOK
  <2>5. locks' = [locks EXCEPT ![n] = ApplyEntry(locks[n], log[i])]
    BY <1>2 DEF Apply
  <2>6. locks' \in [Nodes -> Table] /\ locks'[n] \in Table
    BY <1>t, <2>3, <2>5 DEF TypeOK
  <2>7. durable' \in [Nodes -> SUBSET Table]
    BY <1>2, <1>t, <2>6 DEF Apply, TypeOK
  <2>8. call' \in [Users -> Call]
    BY <1>2, <1>t DEF Apply, TypeOK, Call
  <2>9. told' \in SUBSET [index : Nat, ok : BOOLEAN]
    <3>1. [index |-> i, ok |-> Accepts(locks[n], log[i])] \in [index : Nat, ok : BOOLEAN]
      BY <2>1, <2>3, <1>t
    <3>2. told' = told \cup {[index |-> i, ok |-> Accepts(locks[n], log[i])] :
                               u \in Waiting(n, i)}
      BY <1>2 DEF Apply
    <3> QED BY <1>t, <3>1, <3>2 DEF TypeOK
  <2>10. UNCHANGED <<clock, raftVars, up, logged, purged, snapVars, faultVars>>
    BY <1>2 DEF Apply
  <2>11. TypeOK'
    BY <1>t, <2>4, <2>6, <2>7, <2>8, <2>9, <2>10 DEF raftVars, snapVars, faultVars, TypeOK
  <2>12. HistFollowsLog' /\ IndexesInLog'
    BY <1>t, <2>1, <2>4, <2>10 DEF raftVars, snapVars, TypeOK, HistFollowsLog, IndexesInLog
  <2> QED BY <2>11, <2>12 DEF Bounded
<1>3. CASE BuildSnapshot(n)
  BY <1>3, <1>t DEF BuildSnapshot, clientVars, raftVars, storeVars, faultVars, Bounded,
                    TypeOK, HistFollowsLog, IndexesInLog
<1>4. CASE Purge(n)
  BY <1>4, <1>t DEF Purge, clientVars, raftVars, snapVars, faultVars, Bounded, TypeOK,
                    HistFollowsLog, IndexesInLog
<1> QED BY <1>1, <1>2, <1>3, <1>4

\* The end of a Raft, a crash and a restart keep types and bounds.
LEMMA FaultsBounded == Bounded /\ (Endings \/ Stops) => Bounded'
<1> SUFFICES ASSUME Bounded, NEW n \in Nodes, EndRaft(n) \/ Crash(n) \/ Restart(n)
             PROVE  Bounded'
  BY DEF Endings, MissingSnapshot, MissingEntries, Stops
<1>t. /\ TypeOK /\ HistFollowsLog /\ IndexesInLog
      /\ Len(log) \in Nat /\ locks[n] \in Table /\ durable[n] \in SUBSET Table
      /\ logged[n] \in Nat
  BY NodeTypes DEF Bounded
<1>1. CASE EndRaft(n)
  <2>1. call' \in [Users -> Call] /\ leader' \in Nodes \cup {NoLeader} /\ fatal' \subseteq Nodes
    BY <1>1, <1>t DEF EndRaft, TypeOK, Call
  <2> QED BY <1>1, <1>t, <2>1 DEF EndRaft, storeVars, snapVars, Bounded, TypeOK,
                                   HistFollowsLog, IndexesInLog
<1>2. CASE Crash(n)
  <2>1. locks' \in [Nodes -> Table] /\ locks'[n] \in Table
    BY <1>2, <1>t DEF Crash, TypeOK
  <2>2. durable' \in [Nodes -> SUBSET Table] /\ call' \in [Users -> Call]
        /\ leader' \in Nodes \cup {NoLeader} /\ fatal' \subseteq Nodes
    BY <1>2, <1>t, <2>1 DEF Crash, TypeOK, Call
  <2> QED BY <1>2, <1>t, <2>1, <2>2 DEF Crash, snapVars, Bounded, TypeOK, HistFollowsLog,
                                        IndexesInLog
<1>3. CASE Restart(n)
  <2>1. TypeOK'
    BY <1>3, <1>t DEF Restart, clientVars, raftVars, faultVars, TypeOK
  <2>2. HistFollowsLog' /\ IndexesInLog'
    BY <1>3, <1>t DEF Restart, raftVars, TypeOK, HistFollowsLog, IndexesInLog
  <2> QED BY <2>1, <2>2 DEF Bounded
<1> QED BY <1>1, <1>2, <1>3

\* Every step keeps types and bounds.
LEMMA NextBounded == Bounded /\ [Next]_vars => Bounded'
<1>1. Bounded /\ UNCHANGED vars => Bounded'
  BY DEF vars, clientVars, raftVars, storeVars, snapVars, faultVars, Bounded, TypeOK,
         HistFollowsLog, IndexesInLog
<1> QED BY <1>1, ServiceBounded, StoreBounded, FaultsBounded DEF Next, SteadyNext

\* Type correctness: whatever elections, crashes, restarts and storage errors do, the
\* stores, calls and answers have the shape the code gives them, and no index
\* leaves the log.
THEOREM TypeCorrect == Spec => []TypeOK
<1>1. Bounded => TypeOK
  BY DEF Bounded
<1> QED BY <1>1, InitBounded, NextBounded, PTL DEF Spec

-----------------------------------------------------------------------------
\* A step that changes no store keeps what the stores owe the log, as the log
\* only grows.
LEMMA PrescribedStable ==
  ASSUME StoreInv,
         \A i \in 1..(Len(log) + 1) : hist'[i] = hist[i],
         UNCHANGED <<up, locks, applied, exact>>
  PROVE  ExactTicketsFollowLog'
<1>1. ASSUME NEW i \in 0..Len(log) PROVE hist'[i + 1] = hist[i + 1]
  <2>1. i + 1 \in 1..(Len(log) + 1)
    BY LogTypes DEF StoreInv
  <2> QED BY <2>1
<1>2. ASSUME NEW n \in Nodes PROVE applied[n] \in 0..Len(log)
  BY NodeTypes DEF StoreInv
<1> SUFFICES ASSUME NEW n \in Nodes, up'[n], NEW t \in exact'[n]
             PROVE  locks'[n][t] = hist'[applied'[n] + 1][t]
  BY DEF ExactTicketsFollowLog, Prescribed
<1>3. locks' = locks /\ applied' = applied /\ locks[n][t] = hist[applied[n] + 1][t]
  BY DEF StoreInv, ExactTicketsFollowLog, Prescribed
<1> QED BY <1>1, <1>2, <1>3

\* Steps of the server and elections: only the log moves.
LEMMA ServiceExact == StoreInv /\ Service => ExactTicketsFollowLog'
<1> SUFFICES ASSUME StoreInv, Service PROVE ExactTicketsFollowLog'
  OBVIOUS
<1>1. CASE UNCHANGED <<raftVars, storeVars, snapVars>>
  BY <1>1, PrescribedStable DEF raftVars, storeVars, snapVars
<1>2. ASSUME NEW u \in Users, NEW Q \in Quorums, Commit(u, Q)
      PROVE  ExactTicketsFollowLog'
  <2>1. call[u] \in Call /\ call[u].pc = "stamped" /\ Q \in SUBSET Nodes
    BY <1>2 DEF Commit, StoreInv, Bounded, TypeOK, Quorums
  <2>2. call[u].cmd \in Entry
    BY <2>1 DEF Call, Idle, Entry
  <2>3. AppendOn(Q, call[u].cmd) /\ UNCHANGED snapVars
    BY <1>2 DEF Commit
  <2>4. \A i \in 1..(Len(log) + 1) : hist'[i] = hist[i]
    BY <2>1, <2>2, <2>3, AppendStep DEF StoreInv
  <2> QED BY <2>3, <2>4, PrescribedStable DEF AppendOn, snapVars
<1>3. ASSUME NEW n \in Nodes, NEW Q \in Quorums, Elect(n, Q)
      PROVE  ExactTicketsFollowLog'
  <2>1. AppendOn(Q, Blank) /\ UNCHANGED snapVars /\ Blank \in Entry /\ Q \in SUBSET Nodes
    BY <1>3 DEF Elect, Entry, Quorums
  <2>2. \A i \in 1..(Len(log) + 1) : hist'[i] = hist[i]
    BY <2>1, AppendStep DEF StoreInv
  <2> QED BY <2>1, <2>2, PrescribedStable DEF AppendOn, snapVars
<1> QED BY <1>1, <1>2, <1>3
        DEF Service, Tick, RequestAcquire, RequestRelease, Stamp, NotLeader

\* Steps of one store.  An applied entry moves the table and the prescribed one
\* alike on every exact ticket.
LEMMA StoreExact == StoreInv /\ Store => ExactTicketsFollowLog'
<1> SUFFICES ASSUME StoreInv, NEW n \in Nodes,
                    \/ Replicate(n) \/ Apply(n) \/ BuildSnapshot(n) \/ Purge(n)
             PROVE  ExactTicketsFollowLog'
  BY DEF Store
<1>b. Bounded /\ ExactTicketsFollowLog /\ TypeOK
  BY DEF StoreInv, Bounded
<1>1. CASE Replicate(n) \/ BuildSnapshot(n) \/ Purge(n)
  BY <1>1, PrescribedStable DEF Replicate, BuildSnapshot, Purge, raftVars, storeVars, snapVars
<1>2. CASE Apply(n)
  <2> DEFINE i == applied[n] + 1
  <2>1. /\ i \in 1..Len(log) /\ log[i] \in Entry
        /\ hist[i] \in Table /\ hist[i + 1] = ApplyEntry(hist[i], log[i])
    <3>1. i \in 1..Len(log) /\ i \in 1..(Len(log) + 1)
      BY <1>2, <1>b, NodeTypes DEF Apply
    <3> QED BY <1>b, <3>1, LogTypes DEF Bounded, HistFollowsLog
  <2>2. /\ applied' = [applied EXCEPT ![n] = i]
        /\ locks' = [locks EXCEPT ![n] = ApplyEntry(locks[n], log[i])]
        /\ exact' = exact /\ hist' = hist /\ up' = up
    BY <1>2 DEF Apply, raftVars, snapVars
  <2>3. ASSUME NEW m \in Nodes, up[m], NEW t \in exact[m]
        PROVE  locks'[m][t] = hist[applied'[m] + 1][t]
    <3>1. locks[m][t] = hist[applied[m] + 1][t]
      BY <1>b, <2>3 DEF ExactTicketsFollowLog, Prescribed
    <3>2. CASE m = n
      <4>1. locks[n] \in Table /\ t \in Tickets /\ locks[n][t] = hist[i][t]
        BY <1>b, <3>1, <3>2, NodeTypes
      <4>2. ApplyEntry(locks[n], log[i])[t] = hist[i + 1][t]
        BY <2>1, <4>1, ApplyEntryIsLocal
      <4> QED BY <1>b, <2>2, <3>2, <4>2 DEF TypeOK
    <3>3. CASE m # n
      BY <1>b, <2>2, <3>1, <3>3 DEF TypeOK
    <3> QED BY <3>2, <3>3
  <2> QED BY <2>2, <2>3 DEF ExactTicketsFollowLog, Prescribed
<1> QED BY <1>1, <1>2

\* Faults.  A node whose Raft ended keeps its table; a crash stops the claim; a
\* restart keeps it for the tickets that are free on disk, as it replays from nothing.
LEMMA FaultsExact == StoreInv /\ (Endings \/ Stops) => ExactTicketsFollowLog'
<1> SUFFICES ASSUME StoreInv, NEW n \in Nodes, EndRaft(n) \/ Crash(n) \/ Restart(n)
             PROVE  ExactTicketsFollowLog'
  BY DEF Endings, MissingSnapshot, MissingEntries, Stops
<1>b. Bounded /\ ExactTicketsFollowLog /\ TypeOK
  BY DEF StoreInv, Bounded
<1>1. CASE EndRaft(n)
  BY <1>1, PrescribedStable DEF EndRaft, storeVars, snapVars
<1>2. CASE Crash(n)
  <2>1. /\ up' = [up EXCEPT ![n] = FALSE]
        /\ \E tree \in durable[n] : locks' = [locks EXCEPT ![n] = tree]
        /\ UNCHANGED <<hist, applied, exact>>
    BY <1>2 DEF Crash, snapVars
  <2> SUFFICES ASSUME NEW m \in Nodes, up'[m], NEW t \in exact[m]
               PROVE  locks'[m][t] = hist[applied[m] + 1][t]
    BY <2>1 DEF ExactTicketsFollowLog, Prescribed
  <2>2. m # n /\ up[m] /\ locks'[m] = locks[m]
    BY <1>b, <2>1 DEF TypeOK
  <2> QED BY <1>b, <2>2 DEF ExactTicketsFollowLog, Prescribed
<1>3. CASE Restart(n)
  <2>1. /\ up' = [up EXCEPT ![n] = TRUE]
        /\ applied' = [applied EXCEPT ![n] = 0]
        /\ exact' = [exact EXCEPT ![n] = {t \in Tickets : locks[n][t] = NoLock}]
        /\ UNCHANGED <<hist, locks>>
    BY <1>3 DEF Restart, raftVars
  <2>2. hist[1] = NoLocks /\ 0 + 1 = 1
    BY <1>b DEF Bounded, HistFollowsLog
  <2> SUFFICES ASSUME NEW m \in Nodes, up'[m], NEW t \in exact'[m]
               PROVE  locks[m][t] = hist[applied'[m] + 1][t]
    BY <2>1 DEF ExactTicketsFollowLog, Prescribed
  <2>3. CASE m = n
    BY <1>b, <2>1, <2>2, <2>3 DEF TypeOK, NoLocks
  <2>4. CASE m # n
    <3>1. up[m] /\ exact'[m] = exact[m] /\ applied'[m] = applied[m]
      BY <1>b, <2>1, <2>4 DEF TypeOK
    <3> QED BY <1>b, <3>1 DEF ExactTicketsFollowLog, Prescribed
  <2> QED BY <2>3, <2>4
<1> QED BY <1>1, <1>2, <1>3

\* The invariant that ties the stores to the log is inductive.
LEMMA StoreInvInductive ==
  /\ Init => StoreInv
  /\ StoreInv /\ [Next]_vars => StoreInv'
<1>1. Init => StoreInv
  <2> SUFFICES ASSUME Init PROVE ExactTicketsFollowLog
    BY InitBounded DEF StoreInv
  <2> QED BY DEF Init, ExactTicketsFollowLog, Prescribed
<1>2. StoreInv /\ UNCHANGED vars => ExactTicketsFollowLog'
  BY DEF vars, raftVars, storeVars, snapVars, StoreInv, ExactTicketsFollowLog, Prescribed
<1>3. StoreInv /\ [Next]_vars => ExactTicketsFollowLog'
  BY <1>2, ServiceExact, StoreExact, FaultsExact DEF Next, SteadyNext
<1> QED BY <1>1, <1>3, NextBounded DEF StoreInv

\* Through elections, lagging nodes, purges, Rafts that end with a storage error, crashes
\* that lose unflushed writes, and restarts that replay the log, a running node has
\* the prescribed lock of every ticket whose lock stems from the log alone.
THEOREM StoresFollowLog == Spec => []ExactTicketsFollowLog
<1>1. StoreInv => ExactTicketsFollowLog
  BY DEF StoreInv
<1> QED BY <1>1, StoreInvInductive, PTL DEF Spec

-----------------------------------------------------------------------------
(* No answer is lost: what a caller waits for is still to be applied where *)
(* it waits, and nothing that a node purges is still to be applied there.  *)

\* A snapshot stands for applied entries, as it is built from what the state machine
\* has applied and both start over when the node does; what is purged was logged.
SnapshotsApplied ==
  \A n \in Nodes : snapshot[n] <= applied[n] /\ purged[n] <= logged[n]

AnswersInv == Bounded /\ SnapshotsApplied /\ WaitersCanBeAnswered

\* Where a waiting caller waits, and for which entry.
LEMMA WaiterTypes ==
  ASSUME TypeOK, NEW v \in Users, call[v].pc = "waiting"
  PROVE  call[v].node \in Nodes /\ call[v].index \in Nat
<1>1. call[v] \in Call
  BY DEF TypeOK
<1>2. call[v] \in [pc : {"waiting"}, node : Nodes, index : Nat \ {0}]
  BY <1>1 DEF Call, Idle
<1> QED BY <1>2

\* A step of the server or of the elections keeps every answer to come.
LEMMA ServiceAnswers ==
  AnswersInv /\ Service => SnapshotsApplied' /\ WaitersCanBeAnswered'
<1> SUFFICES ASSUME AnswersInv, Service PROVE SnapshotsApplied' /\ WaitersCanBeAnswered'
  OBVIOUS
<1>b. Bounded /\ TypeOK /\ SnapshotsApplied /\ WaitersCanBeAnswered /\ Len(log) \in Nat
  BY LogTypes DEF AnswersInv, Bounded
<1>1. ASSUME UNCHANGED <<storeVars, snapVars, faultVars>>,
             \A u \in Users : call'[u] = call[u] \/ call'[u].pc # "waiting"
      PROVE  SnapshotsApplied' /\ WaitersCanBeAnswered'
  BY <1>b, <1>1 DEF storeVars, snapVars, faultVars, SnapshotsApplied, WaitersCanBeAnswered,
                    CanAnswer, Runs
<1>2. CASE \E n \in Nodes : Tick(n)
  BY <1>1, <1>2 DEF Tick
<1>3. ASSUME NEW u \in Users, NEW n \in Nodes, NEW cmd, Stamp(u, n, cmd)
      PROVE  SnapshotsApplied' /\ WaitersCanBeAnswered'
  BY <1>b, <1>1, <1>3 DEF Stamp, TypeOK
<1>4. CASE \E u \in Users : NotLeader(u)
  BY <1>b, <1>1, <1>4 DEF NotLeader, TypeOK, Idle
<1>5. ASSUME NEW e, NEW Q \in Quorums, AppendOn(Q, e), UNCHANGED <<snapVars, faultVars>>
      PROVE  /\ SnapshotsApplied'
             /\ \A n \in Nodes, i \in Nat : CanAnswer(n, i) => CanAnswer(n, i)'
             /\ \A n \in Q, i \in Nat : i = Len(log) + 1 => CanAnswer(n, i)'
  <2>1. \A n \in Nodes : /\ logged[n] \in Nat /\ purged[n] \in Nat /\ applied[n] \in Nat
                         /\ applied[n] <= logged[n] /\ logged[n] <= Len(log)
                         /\ purged[n] <= logged[n] /\ snapshot[n] <= applied[n]
    BY <1>b, NodeTypes DEF SnapshotsApplied
  <2>2. \A n \in Nodes : logged'[n] = IF n \in Q THEN Len(log) + 1 ELSE logged[n]
    BY <1>5 DEF AppendOn
  <2>3. /\ UNCHANGED <<up, fatal, applied, purged, snapshot>>
        /\ \A n \in Q : Runs(n)
    BY <1>5 DEF AppendOn, snapVars, faultVars
  <2>4. Q \in SUBSET Nodes
    BY DEF Quorums
  <2>5. SnapshotsApplied'
    BY <1>b, <2>1, <2>2, <2>3 DEF SnapshotsApplied
  <2>6. ASSUME NEW n \in Nodes, NEW i \in Nat, CanAnswer(n, i) PROVE CanAnswer(n, i)'
    BY <1>b, <2>1, <2>2, <2>3, <2>6 DEF CanAnswer, Runs
  <2>7. ASSUME NEW n \in Q, NEW i \in Nat, i = Len(log) + 1 PROVE CanAnswer(n, i)'
    BY <1>b, <2>1, <2>2, <2>3, <2>4, <2>7 DEF CanAnswer, Runs
  <2> QED BY <2>5, <2>6, <2>7
<1>6. ASSUME NEW u \in Users, NEW Q \in Quorums, Commit(u, Q)
      PROVE  SnapshotsApplied' /\ WaitersCanBeAnswered'
  <2>1. /\ AppendOn(Q, call[u].cmd) /\ UNCHANGED <<snapVars, faultVars>> /\ leader \in Q
        /\ call' = [call EXCEPT ![u] =
                      [pc |-> "waiting", node |-> leader, index |-> Len(log) + 1]]
    BY <1>6 DEF Commit
  <2>2. ASSUME NEW v \in Users, call'[v].pc = "waiting"
        PROVE  CanAnswer(call[v].node, call[v].index)'
    <3>1. CASE v = u
      <4>1. PICK n \in Q, i \in Nat : n = leader /\ i = Len(log) + 1
        BY <1>b, <2>1
      <4>2. CanAnswer(n, i)'
        BY <1>5, <2>1, <4>1
      <4>3. call'[v].node = n /\ call'[v].index = i
        BY <1>b, <2>1, <3>1, <4>1 DEF TypeOK
      <4> QED BY <4>2, <4>3 DEF CanAnswer, Runs
    <3>2. CASE v # u
      <4>1. call'[v] = call[v]
        BY <1>b, <2>1, <3>2 DEF TypeOK
      <4>2. call[v].pc = "waiting" /\ CanAnswer(call[v].node, call[v].index)
        BY <1>b, <2>2, <4>1 DEF WaitersCanBeAnswered
      <4>3. PICK n \in Nodes, i \in Nat : n = call[v].node /\ i = call[v].index
        BY <1>b, <4>2, WaiterTypes
      <4>4. CanAnswer(n, i)'
        BY <1>5, <2>1, <4>2, <4>3
      <4> QED BY <4>1, <4>3, <4>4 DEF CanAnswer, Runs
    <3> QED BY <3>1, <3>2
  <2> QED BY <1>5, <2>1, <2>2 DEF WaitersCanBeAnswered
<1>7. ASSUME NEW n \in Nodes, NEW Q \in Quorums, Elect(n, Q)
      PROVE  SnapshotsApplied' /\ WaitersCanBeAnswered'
  <2>1. AppendOn(Q, Blank) /\ UNCHANGED <<snapVars, faultVars>> /\ call' = call
    BY <1>7 DEF Elect, clientVars
  <2>2. ASSUME NEW v \in Users, call'[v].pc = "waiting"
        PROVE  CanAnswer(call[v].node, call[v].index)'
    <3>1. call[v].pc = "waiting" /\ CanAnswer(call[v].node, call[v].index)
      BY <1>b, <2>1, <2>2 DEF WaitersCanBeAnswered
    <3>2. PICK m \in Nodes, i \in Nat : m = call[v].node /\ i = call[v].index
      BY <1>b, <3>1, WaiterTypes
    <3>3. CanAnswer(m, i)'
      BY <1>5, <2>1, <3>1, <3>2
    <3> QED BY <2>1, <3>2, <3>3 DEF CanAnswer, Runs
  <2> QED BY <1>5, <2>1, <2>2 DEF WaitersCanBeAnswered
<1> QED BY <1>2, <1>3, <1>4, <1>6, <1>7 DEF Service, RequestAcquire, RequestRelease

\* A step of one store, the end of a Raft, a crash and a restart keep every answer to
\* come: Apply gives the next one, and only entries below it are purged.
LEMMA StoreAnswers ==
  AnswersInv /\ (Store \/ Endings \/ Stops) => SnapshotsApplied' /\ WaitersCanBeAnswered'
<1> SUFFICES ASSUME AnswersInv, NEW n \in Nodes,
                    \/ Replicate(n) \/ Apply(n) \/ BuildSnapshot(n) \/ Purge(n)
                    \/ EndRaft(n) \/ Crash(n) \/ Restart(n)
             PROVE  SnapshotsApplied' /\ WaitersCanBeAnswered'
  BY DEF Store, Endings, MissingSnapshot, MissingEntries, Stops
<1>b. /\ TypeOK /\ WaitersCanBeAnswered
      /\ \A m \in Nodes : /\ logged[m] \in Nat /\ purged[m] \in Nat /\ applied[m] \in Nat
                          /\ applied[m] <= logged[m] /\ purged[m] <= logged[m]
                          /\ snapshot[m] \in Nat /\ snapshot[m] <= applied[m]
  BY NodeTypes DEF AnswersInv, Bounded, SnapshotsApplied
<1>1. SnapshotsApplied'
  <2> USE <1>b DEF TypeOK, SnapshotsApplied
  <2>1. CASE Replicate(n)
    <3>1. logged' = [logged EXCEPT ![n] = logged[n] + 1]
          /\ UNCHANGED <<applied, purged, snapshot>>
      BY <2>1 DEF Replicate, snapVars
    <3> QED BY <3>1
  <2>2. CASE Apply(n)
    <3>1. applied' = [applied EXCEPT ![n] = applied[n] + 1]
          /\ UNCHANGED <<logged, purged, snapshot>>
      BY <2>2 DEF Apply, snapVars
    <3> QED BY <3>1
  <2>3. CASE BuildSnapshot(n)
    <3>1. snapshot' = [snapshot EXCEPT ![n] = applied[n]]
          /\ UNCHANGED <<applied, logged, purged>>
      BY <2>3 DEF BuildSnapshot, storeVars
    <3> QED BY <3>1
  <2>4. CASE Purge(n)
    <3>1. purged' = [purged EXCEPT ![n] = snapshot[n]]
          /\ UNCHANGED <<applied, logged, snapshot>>
      BY <2>4 DEF Purge, snapVars
    <3> QED BY <3>1
  <2>5. CASE EndRaft(n) \/ Crash(n) \/ Restart(n)
    BY <2>5 DEF EndRaft, Crash, Restart, storeVars, snapVars
  <2> QED BY <2>1, <2>2, <2>3, <2>4, <2>5
<1>2. ASSUME NEW v \in Users, call'[v].pc = "waiting"
      PROVE  CanAnswer(call[v].node, call[v].index)'
  <2>1. call'[v] = call[v] /\ call[v].pc = "waiting"
    BY <1>2, <1>b DEF Replicate, Apply, BuildSnapshot, Purge, EndRaft, Crash, Restart,
                      clientVars, TypeOK, Idle
  <2>2. PICK m \in Nodes, i \in Nat : m = call[v].node /\ i = call[v].index
    BY <1>b, <2>1, WaiterTypes
  <2>3. CanAnswer(m, i)
    BY <1>b, <2>1, <2>2 DEF WaitersCanBeAnswered
  <2>4. CanAnswer(m, i)'
    <3>1. CASE Replicate(n)
      BY <1>b, <2>3, <3>1 DEF Replicate, faultVars, CanAnswer, Runs, TypeOK
    <3>2. CASE Apply(n)
      <4>1. m # n \/ i # applied[n] + 1
        BY <1>2, <1>b, <2>2, <2>1, <3>2 DEF Apply, Waiting, Idle, Call, TypeOK
      <4>2. applied' = [applied EXCEPT ![n] = applied[n] + 1]
            /\ UNCHANGED <<up, logged, purged, faultVars>>
        BY <3>2 DEF Apply
      <4>3. i \in Nat /\ applied[m] \in Nat /\ applied \in [Nodes -> Nat]
        BY <1>b DEF TypeOK
      <4>4. applied[m] < i => applied'[m] < i
        BY <4>1, <4>2, <4>3
      <4> QED BY <2>3, <4>2, <4>4 DEF faultVars, CanAnswer, Runs
    <3>3. CASE BuildSnapshot(n) \/ Purge(n)
      <4>1. UNCHANGED <<up, applied, logged, faultVars>>
        BY <3>3 DEF BuildSnapshot, Purge, storeVars
      <4>2. purged[m] < i /\ applied[m] < i => purged'[m] < i
        <5>1. purged' = purged \/ purged' = [purged EXCEPT ![n] = snapshot[n]]
          BY <3>3 DEF BuildSnapshot, Purge, storeVars
        <5>2. purged \in [Nodes -> Nat] /\ snapshot[n] <= applied[n]
              /\ snapshot[n] \in Nat /\ applied[n] \in Nat
          BY <1>b DEF TypeOK
        <5> QED BY <5>1, <5>2
      <4> QED BY <2>3, <4>1, <4>2 DEF faultVars, CanAnswer, Runs
    <3>4. CASE EndRaft(n) \/ Crash(n)
      <4>1. m # n
        BY <1>2, <1>b, <2>1, <2>2, <3>4 DEF EndRaft, Crash, Idle, TypeOK
      <4> QED BY <1>b, <2>3, <3>4, <4>1 DEF EndRaft, Crash, storeVars, CanAnswer, Runs, TypeOK
    <3>5. CASE Restart(n)
      <4>1. m # n
        BY <2>3, <3>5 DEF Restart, CanAnswer, Runs
      <4> QED BY <1>b, <2>3, <3>5, <4>1 DEF Restart, faultVars, CanAnswer, Runs, TypeOK
    <3> QED BY <3>1, <3>2, <3>3, <3>4, <3>5
  <2> QED BY <2>1, <2>2, <2>4 DEF CanAnswer, Runs
<1> QED BY <1>1, <1>2 DEF WaitersCanBeAnswered

\* client_write is never left without an answer: whatever is elected, purged, ended,
\* crashed or restarted, the node that a caller waits at runs its Raft, and has the
\* caller's entry still to apply.
THEOREM NoAnswerIsLost == Spec => []WaitersCanBeAnswered
<1>1. Init => AnswersInv
  BY InitBounded DEF Init, AnswersInv, SnapshotsApplied, WaitersCanBeAnswered, Idle
<1>2. AnswersInv /\ UNCHANGED vars => SnapshotsApplied' /\ WaitersCanBeAnswered'
  BY DEF vars, clientVars, storeVars, snapVars, faultVars, AnswersInv, SnapshotsApplied,
         WaitersCanBeAnswered, CanAnswer, Runs
<1>3. AnswersInv /\ [Next]_vars => AnswersInv'
  BY <1>2, NextBounded, ServiceAnswers, StoreAnswers DEF AnswersInv, Next, SteadyNext
<1>4. AnswersInv => WaitersCanBeAnswered
  BY DEF AnswersInv
<1> QED BY <1>1, <1>3, <1>4, PTL DEF Spec

-----------------------------------------------------------------------------
(* A node whose whole table stems from the log is a replica of the log's   *)
(* history, with all faults: it shows committed tables and goes forward.   *)

\* Such a node has the table that its applied entries prescribe.
ExactPrescribed ==
  \A n \in Exact :
    /\ applied[n] \in Nat /\ applied[n] + 1 \in 1..Len(hist)
    /\ locks[n] = hist[applied[n] + 1]

LEMMA ExactStore == StoreInv => ExactPrescribed
<1> SUFFICES ASSUME StoreInv, NEW n \in Exact
             PROVE  /\ applied[n] \in Nat /\ applied[n] + 1 \in 1..Len(hist)
                    /\ locks[n] = hist[applied[n] + 1]
  BY DEF ExactPrescribed
<1>1. n \in Nodes /\ up[n] /\ exact[n] = Tickets
  BY DEF Exact
<1>2. /\ applied[n] \in 0..Len(log) /\ locks[n] \in Table
      /\ Len(log) \in Nat /\ Len(hist) = Len(log) + 1
  BY <1>1, NodeTypes, LogTypes DEF StoreInv
<1>3. applied[n] \in Nat /\ applied[n] + 1 \in 1..(Len(log) + 1)
  BY <1>2
<1>4. hist[applied[n] + 1] \in Table
  BY <1>3, LogTypes DEF StoreInv
<1>5. \A t \in Tickets : locks[n][t] = hist[applied[n] + 1][t]
  BY <1>1 DEF StoreInv, ExactTicketsFollowLog, Prescribed
<1> QED BY <1>1, <1>2, <1>3, <1>4, <1>5 DEF Table

Position == [n \in Exact |-> applied[n] + 1]

Visible == [n \in Exact |-> locks[n]]

LEMMA InitReplicas == StoreInv /\ Init => R!Init
<1> SUFFICES ASSUME Init PROVE R!Init
  OBVIOUS
<1>1. Exact = Nodes
  BY DEF Init, Exact
<1>2. /\ [n \in Exact |-> applied[n] + 1] = [n \in Nodes |-> 1]
      /\ [n \in Exact |-> locks[n]] = [n \in Nodes |-> NoLocks]
  BY <1>1 DEF Init
<1> QED BY <1>2 DEF Init, R!Init

\* A step of one store lets its node go on, join or leave, or cannot be seen.
LEMMA StoreStepReplicas ==
  ASSUME StoreInv, StoreInv', NEW n \in Nodes, hist' = hist,
         \A m \in Nodes \ {n} : /\ up'[m] = up[m] /\ exact'[m] = exact[m]
                                /\ applied'[m] = applied[m] /\ locks'[m] = locks[m],
         (n \in Exact /\ n \in Exact') => applied[n] <= applied'[n]
  PROVE  [R!Next]_(R!vars)
<1>0. \A m \in Exact' : /\ applied'[m] \in Nat /\ applied'[m] + 1 \in 1..Len(hist)
                        /\ locks'[m] = hist[applied'[m] + 1]
  <2>1. ExactPrescribed'
    BY ExactStore, PTL
  <2> QED BY <2>1 DEF ExactPrescribed
<1>1. \A m \in Nodes \ {n} : m \in Exact' <=> m \in Exact
  BY DEF Exact
<1>2. Exact \subseteq Nodes /\ Exact' \subseteq Nodes
  BY DEF Exact
<1>3. /\ DOMAIN Position = Exact /\ DOMAIN Position' = Exact'
      /\ \A m \in Exact : Position[m] = applied[m] + 1 /\ Visible[m] = locks[m]
  BY DEF Position, Visible
<1>4. CASE n \in Exact /\ n \in Exact'
  <2>1. Exact' = Exact
    BY <1>1, <1>2, <1>4
  <2>2. /\ applied[n] \in Nat /\ locks[n] = hist[applied[n] + 1]
    BY <1>4, ExactStore DEF ExactPrescribed
  <2>3. /\ applied'[n] \in Nat /\ applied'[n] + 1 \in 1..Len(hist)
        /\ locks'[n] = hist[applied'[n] + 1]
    BY <1>0, <1>4
  <2>4. CASE applied'[n] = applied[n]
    <3>1. \A m \in Exact : applied'[m] = applied[m] /\ locks'[m] = locks[m]
      BY <1>2, <2>2, <2>3, <2>4
    <3>2. Position' = Position /\ Visible' = Visible
      BY <2>1, <3>1 DEF Position, Visible
    <3> QED BY <3>2 DEF Position, Visible, R!vars
  <2>5. CASE applied'[n] # applied[n]
    <3> DEFINE i == applied'[n] + 1
    <3>1. i \in (applied[n] + 1 + 1)..Len(hist)
      BY <1>4, <2>2, <2>3, <2>5
    <3>2. /\ Position' = [m \in Exact \cup {n} |-> IF m = n THEN i ELSE Position[m]]
          /\ Visible' = [m \in Exact \cup {n} |-> IF m = n THEN hist[i] ELSE Visible[m]]
      <4>1. Exact \cup {n} = Exact'
        BY <1>4, <2>1
      <4>2. \A m \in Exact' : m # n =>
              /\ applied'[m] = applied[m] /\ locks'[m] = locks[m]
              /\ Position[m] = applied[m] + 1 /\ Visible[m] = locks[m]
        BY <1>2, <1>3, <2>1
      <4> QED BY <2>3, <4>1, <4>2 DEF Position, Visible
    <3> HIDE DEF i
    <3>3. /\ n \in DOMAIN Position
          /\ \E j \in (Position[n] + 1)..Len(hist) :
               /\ Position' = [m \in DOMAIN Position \cup {n} |->
                                IF m = n THEN j ELSE Position[m]]
               /\ Visible' = [m \in DOMAIN Position \cup {n} |->
                               IF m = n THEN hist[j] ELSE Visible[m]]
      BY <1>3, <1>4, <3>1, <3>2
    <3>4. R!Follow(n)
      BY <3>3 DEF R!Follow, R!Show, R!Serving, Position, Visible
    <3> QED BY <3>4 DEF R!Next
  <2> QED BY <2>4, <2>5
<1>5. CASE n \in Exact /\ n \notin Exact'
  <2>1. Exact' = Exact \ {n}
    BY <1>1, <1>2, <1>5
  <2>2. \A m \in Exact' : /\ applied'[m] = applied[m] /\ locks'[m] = locks[m]
                          /\ Position[m] = applied[m] + 1 /\ Visible[m] = locks[m]
    BY <1>2, <1>3, <2>1
  <2>3. /\ Position' = [m \in Exact \ {n} |-> Position[m]]
        /\ Visible' = [m \in Exact \ {n} |-> Visible[m]]
    BY <2>1, <2>2 DEF Position, Visible
  <2>4. R!Leave(n)
    BY <1>3, <1>5, <2>3 DEF R!Leave, R!Serving, Position, Visible
  <2> QED BY <2>4 DEF R!Next
<1>6. CASE n \notin Exact /\ n \in Exact'
  <2> DEFINE i == applied'[n] + 1
  <2>1. Exact' = Exact \cup {n}
    BY <1>1, <1>2, <1>6
  <2>2. i \in 1..Len(hist) /\ locks'[n] = hist[i]
    BY <1>0, <1>6
  <2>3. \A m \in Exact' : m # n =>
          /\ applied'[m] = applied[m] /\ locks'[m] = locks[m]
          /\ Position[m] = applied[m] + 1 /\ Visible[m] = locks[m]
    BY <1>2, <1>3, <2>1
  <2>4. /\ Position' = [m \in Exact \cup {n} |-> IF m = n THEN i ELSE Position[m]]
        /\ Visible' = [m \in Exact \cup {n} |-> IF m = n THEN hist[i] ELSE Visible[m]]
    BY <2>1, <2>2, <2>3 DEF Position, Visible
  <2> HIDE DEF i
  <2>5. /\ n \notin DOMAIN Position
        /\ \E j \in 1..Len(hist) :
             /\ Position' = [m \in DOMAIN Position \cup {n} |->
                              IF m = n THEN j ELSE Position[m]]
             /\ Visible' = [m \in DOMAIN Position \cup {n} |->
                             IF m = n THEN hist[j] ELSE Visible[m]]
    BY <1>3, <1>6, <2>2, <2>4
  <2>6. R!Join(n)
    BY <2>5 DEF R!Join, R!Show, R!Serving, Position, Visible
  <2> QED BY <2>6 DEF R!Next
<1>7. CASE n \notin Exact /\ n \notin Exact'
  <2>1. Exact' = Exact
    BY <1>1, <1>2, <1>7
  <2>2. \A m \in Exact : applied'[m] = applied[m] /\ locks'[m] = locks[m]
    BY <1>2, <1>7
  <2>3. Position' = Position /\ Visible' = Visible
    BY <2>1, <2>2 DEF Position, Visible
  <2> QED BY <2>3 DEF Position, Visible, R!vars
<1> QED BY <1>4, <1>5, <1>6, <1>7

\* A step that only lets the log grow commits a table, or cannot be seen.
LEMMA LogStepReplicas ==
  ASSUME UNCHANGED <<up, exact, applied, locks>>,
         hist' = hist \/ (/\ Len(hist') = Len(hist) + 1
                          /\ \A i \in 1..Len(hist) : hist'[i] = hist[i])
  PROVE  [R!Next]_(R!vars)
<1>1. Exact' = Exact
  BY DEF Exact
<1>2. Position' = Position /\ Visible' = Visible
  BY <1>1 DEF Position, Visible
<1>3. CASE hist' = hist
  BY <1>2, <1>3 DEF R!vars, Position, Visible
<1>4. CASE /\ Len(hist') = Len(hist) + 1
           /\ \A i \in 1..Len(hist) : hist'[i] = hist[i]
  BY <1>2, <1>4 DEF R!Next, R!Commit, R!Extend, Position, Visible
<1> QED BY <1>3, <1>4

LEMMA NextReplicas ==
  StoreInv /\ StoreInv' /\ [Next]_vars => [R!Next]_(R!vars)
<1> SUFFICES ASSUME StoreInv, StoreInv', [Next]_vars PROVE [R!Next]_(R!vars)
  OBVIOUS
<1>0. /\ up \in [Nodes -> BOOLEAN] /\ locks \in [Nodes -> Table]
      /\ applied \in [Nodes -> Nat] /\ exact \in [Nodes -> SUBSET Tickets]
  BY DEF StoreInv, Bounded, TypeOK
<1>1. ASSUME NEW Q \in Quorums, NEW e \in Entry, AppendOn(Q, e), UNCHANGED snapVars
      PROVE  [R!Next]_(R!vars)
  <2>1. Q \in SUBSET Nodes
    BY DEF Quorums
  <2>2. /\ Len(hist') = Len(hist) + 1
        /\ \A i \in 1..Len(hist) : hist'[i] = hist[i]
    <3>1. Bounded /\ AppendOn(Q, e)
      BY <1>1 DEF StoreInv
    <3>2. \A i \in 1..(Len(log) + 1) : hist'[i] = hist[i]
      BY <2>1, <3>1, AppendStep
    <3>3. Len(log) \in Nat /\ Len(hist) = Len(log) + 1 /\ hist \in Seq(Table)
      BY <3>1, LogTypes DEF Bounded, TypeOK
    <3>4. Len(hist') = Len(hist) + 1
      <4>1. hist' = Append(hist, ApplyEntry(hist[Len(hist)], e))
        BY <3>1 DEF AppendOn
      <4> QED BY <3>3, <4>1
    <3> QED BY <3>2, <3>3, <3>4
  <2>3. UNCHANGED <<up, exact, applied, locks>>
    BY <1>1 DEF AppendOn, snapVars
  <2> QED BY <2>2, <2>3, LogStepReplicas
<1>2. CASE UNCHANGED <<hist, up, exact, applied, locks>>
  BY <1>2, LogStepReplicas
<1>3. CASE Service
  <2>1. ASSUME NEW u \in Users, NEW Q \in Quorums, Commit(u, Q) PROVE [R!Next]_(R!vars)
    <3>1. call[u] \in Call /\ call[u].pc = "stamped"
      BY <2>1 DEF Commit, StoreInv, Bounded, TypeOK
    <3>2. call[u].cmd \in Entry
      BY <3>1 DEF Call, Idle, Entry
    <3> QED BY <1>1, <2>1, <3>2 DEF Commit
  <2>2. ASSUME NEW n \in Nodes, NEW Q \in Quorums, Elect(n, Q) PROVE [R!Next]_(R!vars)
    <3>1. Blank \in Entry
      BY DEF Entry
    <3> QED BY <1>1, <2>2, <3>1 DEF Elect
  <2>3. (\E u \in Users, Q \in Quorums : Commit(u, Q))
          \/ (\E n \in Nodes, Q \in Quorums : Elect(n, Q))
          \/ UNCHANGED <<hist, up, exact, applied, locks>>
    BY <1>3 DEF Service, Tick, RequestAcquire, RequestRelease, Stamp, NotLeader,
         raftVars, storeVars, snapVars
  <2> QED BY <1>2, <2>1, <2>2, <2>3
<1>4. CASE Store
  <2>1. ASSUME NEW n \in Nodes, Apply(n) PROVE [R!Next]_(R!vars)
    <3>1. /\ applied' = [applied EXCEPT ![n] = applied[n] + 1]
          /\ locks' = [locks EXCEPT ![n] = ApplyEntry(locks[n], log[applied[n] + 1])]
          /\ UNCHANGED <<hist, up, exact>>
      BY <2>1 DEF Apply, raftVars, snapVars
    <3>2. applied[n] <= applied'[n]
      BY <1>0, <3>1
    <3>3. \A m \in Nodes \ {n} : applied'[m] = applied[m] /\ locks'[m] = locks[m]
      BY <1>0, <3>1
    <3> QED BY <3>1, <3>2, <3>3, StoreStepReplicas
  <2>2. (\E n \in Nodes : Apply(n)) \/ UNCHANGED <<hist, up, exact, applied, locks>>
    BY <1>4 DEF Store, Replicate, BuildSnapshot, Purge, raftVars, storeVars, snapVars
  <2> QED BY <1>2, <2>1, <2>2
<1>5. CASE Endings
  <2>1. UNCHANGED <<hist, up, exact, applied, locks>>
    BY <1>5 DEF Endings, MissingSnapshot, MissingEntries, EndRaft, storeVars, snapVars
  <2> QED BY <1>2, <2>1
<1>6. CASE Stops
  <2>1. ASSUME NEW n \in Nodes, Crash(n) PROVE [R!Next]_(R!vars)
    <3>1. /\ up' = [up EXCEPT ![n] = FALSE]
          /\ \E tree \in durable[n] : locks' = [locks EXCEPT ![n] = tree]
          /\ UNCHANGED <<hist, applied, exact>>
      BY <2>1 DEF Crash, snapVars
    <3>2. \A m \in Nodes \ {n} : up'[m] = up[m] /\ locks'[m] = locks[m]
      BY <1>0, <3>1
    <3>3. n \notin Exact'
      BY <1>0, <3>1 DEF Exact
    <3> QED BY <3>1, <3>2, <3>3, StoreStepReplicas
  <2>2. ASSUME NEW n \in Nodes, Restart(n) PROVE [R!Next]_(R!vars)
    <3>1. /\ up' = [up EXCEPT ![n] = TRUE]
          /\ applied' = [applied EXCEPT ![n] = 0]
          /\ exact' = [exact EXCEPT ![n] = {t \in Tickets : locks[n][t] = NoLock}]
          /\ UNCHANGED <<hist, locks>>
      BY <2>2 DEF Restart, raftVars
    <3>2. \A m \in Nodes \ {n} : /\ up'[m] = up[m] /\ applied'[m] = applied[m]
                                 /\ exact'[m] = exact[m]
      BY <1>0, <3>1
    <3>3. n \notin Exact
      BY <2>2 DEF Restart, Exact
    <3> QED BY <3>1, <3>2, <3>3, StoreStepReplicas
  <2> QED BY <1>6, <2>1, <2>2 DEF Stops
<1>7. CASE UNCHANGED vars
  BY <1>2, <1>7 DEF vars, raftVars, storeVars, snapVars
<1> QED BY <1>3, <1>4, <1>5, <1>6, <1>7 DEF Next, SteadyNext

\* With elections, lagging nodes, purges, storage errors, crashes and restarts, a node
\* whose table stems from the log alone shows its readers committed tables, and goes forward.
THEOREM NodesAreReplicas == Spec => ImplementsReplicas
<1>1. Init => R!Init
  BY InitReplicas, StoreInvInductive
<1> QED
  BY <1>1, NextReplicas, StoreInvInductive, PTL DEF Spec, ImplementsReplicas, R!Spec

-----------------------------------------------------------------------------
(* While every process keeps running, even if Rafts end with storage       *)
(* errors, the replicated custodian implements the abstract lock service,  *)
(* and so never grants a lock twice.  The refinement mapping reads the     *)
(* verdicts and the table off the log; a command takes effect when it is   *)
(* committed; the callers of a Raft that ends fail.                        *)

\* Every caller that waits does so for an entry of its own.
WaitersDistinct ==
  /\ \A u \in Users : call[u].pc = "waiting" => call[u].index \in 1..Len(log)
  /\ \A u, v \in Users :
       (call[u].pc = "waiting" /\ call[v].pc = "waiting" /\ call[u].index = call[v].index)
         => u = v

\* In a steady cluster every lock of every running node stems from the log alone.
SteadyInv ==
  /\ StoreInv
  /\ \A n \in Nodes : up[n] /\ exact[n] = Tickets
  /\ WaitersDistinct

\* A node of a steady cluster has the table its applied entries prescribe.
LEMMA SteadyStore ==
  ASSUME SteadyInv, NEW n \in Nodes
  PROVE  locks[n] = hist[applied[n] + 1]
<1>1. applied[n] \in 0..Len(log) /\ locks[n] \in Table /\ applied[n] + 1 \in 1..(Len(log) + 1)
  BY NodeTypes DEF SteadyInv, StoreInv
<1>2. hist[applied[n] + 1] \in Table
  BY <1>1, LogTypes DEF SteadyInv, StoreInv
<1>3. \A t \in Tickets : locks[n][t] = hist[applied[n] + 1][t]
  BY DEF SteadyInv, StoreInv, ExactTicketsFollowLog, Prescribed
<1> QED BY <1>1, <1>2, <1>3 DEF Table

\* The steps of a steady cluster stop no process, and let callers wait for different
\* entries.
LEMMA SteadyInvInductive ==
  /\ Init => SteadyInv
  /\ SteadyInv /\ [SteadyNext]_vars => SteadyInv'
<1>1. Init => SteadyInv
  BY StoreInvInductive DEF Init, SteadyInv, WaitersDistinct, Idle
<1>2. SteadyInv /\ [SteadyNext]_vars => SteadyInv'
  <2> SUFFICES ASSUME SteadyInv, [SteadyNext]_vars PROVE SteadyInv'
    OBVIOUS
  <2>1. StoreInv'
    BY StoreInvInductive DEF SteadyInv, Next
  <2>2. up' = up /\ exact' = exact
    BY DEF SteadyNext, Service, Store, Tick, RequestAcquire, RequestRelease, Stamp, NotLeader,
           Commit, Elect, AppendOn, Replicate, Apply, BuildSnapshot, Purge, Endings,
           MissingSnapshot, MissingEntries, EndRaft, vars, raftVars, storeVars, snapVars
  <2>3. WaitersDistinct'
    <3>t. /\ Len(log) \in Nat /\ call \in [Users -> Call] /\ WaitersDistinct
          /\ log \in Seq(Entry) /\ call' \in [Users -> Call]
      BY <2>1, LogTypes DEF SteadyInv, StoreInv, Bounded, TypeOK
    <3>1. ASSUME log' = log,
                 \A u \in Users : call'[u] = call[u] \/ call'[u].pc # "waiting"
          PROVE  WaitersDistinct'
      BY <3>t, <3>1 DEF WaitersDistinct
    <3>2. CASE UNCHANGED <<log, call>>
      BY <3>1, <3>2
    <3>3. ASSUME NEW u \in Users, NEW n \in Nodes, NEW cmd, Stamp(u, n, cmd)
          PROVE  WaitersDistinct'
      BY <3>t, <3>1, <3>3 DEF Stamp, raftVars
    <3>4. ASSUME NEW u \in Users, NotLeader(u) PROVE WaitersDistinct'
      BY <3>t, <3>1, <3>4 DEF NotLeader, raftVars, Idle
    <3>5. ASSUME NEW n \in Nodes, Apply(n) PROVE WaitersDistinct'
      BY <3>t, <3>1, <3>5 DEF Apply, raftVars, Idle
    <3>6. ASSUME NEW u \in Users, NEW Q \in Quorums, Commit(u, Q) PROVE WaitersDistinct'
      <4>1. /\ Len(log') = Len(log) + 1
            /\ call' = [call EXCEPT ![u] =
                          [pc |-> "waiting", node |-> leader, index |-> Len(log) + 1]]
        BY <3>t, <3>6 DEF Commit, AppendOn
      <4> QED BY <3>t, <4>1 DEF WaitersDistinct
    <3>7. ASSUME NEW n \in Nodes, NEW Q \in Quorums, Elect(n, Q) PROVE WaitersDistinct'
      <4>1. Len(log') = Len(log) + 1 /\ call' = call
        BY <3>t, <3>7 DEF Elect, AppendOn, clientVars
      <4> QED BY <3>t, <4>1 DEF WaitersDistinct
    <3>8. ASSUME NEW n \in Nodes, Tick(n) PROVE WaitersDistinct'
      BY <3>2, <3>8 DEF Tick, raftVars
    <3>9. ASSUME NEW n \in Nodes,
                 Replicate(n) \/ BuildSnapshot(n) \/ Purge(n)
          PROVE  WaitersDistinct'
      BY <3>2, <3>9 DEF Replicate, BuildSnapshot, Purge, clientVars, raftVars
    <3>10. CASE Endings
      BY <3>t, <3>1, <3>10 DEF Endings, MissingSnapshot, MissingEntries, EndRaft, Idle
    <3>11. CASE UNCHANGED vars
      BY <3>2, <3>11 DEF vars, clientVars, raftVars
    <3> QED BY <3>3, <3>4, <3>5, <3>6, <3>7, <3>8, <3>9, <3>10, <3>11
            DEF SteadyNext, Service, Store, RequestAcquire, RequestRelease
  <2> QED BY <2>1, <2>2, <2>3 DEF SteadyInv
<1> QED BY <1>1, <1>2

-----------------------------------------------------------------------------
\* The verdicts of the log, in log order.
Verdicts == [i \in 1..Len(log) |-> Accepts(hist[i], log[i])]

\* The initial states of the cluster are initial states of the service.
LEMMA InitRefines == Init => LS!Init
<1> SUFFICES ASSUME Init PROVE LS!Init
  OBVIOUS
<1>1. Verdicts = << >>
  BY DEF Init, Verdicts
<1>2. hist[Len(hist)] = NoLocks
  BY DEF Init
<1>3. [u \in Users |-> AbstractCall(u)] = [u \in Users |-> LS!Idle]
  BY DEF Init, AbstractCall, Idle, LS!Idle
<1> QED BY <1>1, <1>2, <1>3 DEF Init, LS!Init, Verdicts, NoLocks, LS!NoLocks

\* A step that moves neither the log nor the calls is invisible to callers.
LEMMA QuietRefines ==
  ASSUME UNCHANGED <<log, hist, call, told>>
  PROVE  UNCHANGED LS!vars
BY DEF LS!vars, AbstractCall

\* The service's copies of the lock state machine are the lock state machine.
LEMMA SameMachine ==
  /\ \A tab, e : LS!Accepts(tab, e) = Accepts(tab, e)
  /\ \A tab, e : LS!ApplyEntry(tab, e) = ApplyEntry(tab, e)
  /\ LS!LockCommand = LockCommand
  /\ LS!Blank = Blank
  /\ LS!Idle = Idle
<1>1. \A tab, e : LS!Accepts(tab, e) = Accepts(tab, e)
  BY DEF LS!Accepts, LS!HeldByAnother, LS!IsExpired, Accepts, HeldByAnother, IsExpired
<1>2. \A tab, e : LS!ApplyEntry(tab, e) = ApplyEntry(tab, e)
  BY <1>1 DEF LS!ApplyEntry, LS!AcquireLockAt, LS!ExpiresAt, LS!StorageReleaseLock,
              ApplyEntry, AcquireLockAt, ExpiresAt, StorageReleaseLock
<1>3. LS!LockCommand = LockCommand /\ LS!Blank = Blank /\ LS!Idle = Idle
  BY DEF LS!LockCommand, LockCommand, LS!Blank, Blank, LS!Idle, Idle
<1> QED BY <1>1, <1>2, <1>3

\* Committing an entry is its effect on the service.
LEMMA AppendRefines ==
  ASSUME Bounded, NEW e \in Entry, NEW Q \in SUBSET Nodes, AppendOn(Q, e)
  PROVE  LS!Effect(e)
<1>1. /\ Len(log) \in Nat /\ Len(hist) = Len(log) + 1 /\ log' = Append(log, e)
      /\ Len(log') = Len(log) + 1 /\ Len(hist') = Len(log) + 2
      /\ \A i \in 1..Len(log) : log'[i] = log[i]
      /\ \A i \in 1..(Len(log) + 1) : hist'[i] = hist[i]
      /\ log'[Len(log) + 1] = e
      /\ hist'[Len(log) + 2] = ApplyEntry(hist[Len(log) + 1], e)
      /\ HistFollowsLog'
  <2>1. HistFollowsLog' /\ Len(log') = Len(log) + 1 /\ Len(log) \in Nat
    BY AppendStep, LogTypes
  <2> QED BY <2>1, AppendStep, LogTypes DEF AppendOn, HistFollowsLog
<1>2. hist'[Len(hist')] = LS!ApplyEntry(hist[Len(hist)], e)
  BY <1>1, SameMachine
<1>3. Verdicts' = Append(Verdicts, Accepts(hist[Len(hist)], e))
  <2> DEFINE v == Accepts(hist[Len(hist)], e)
  <2>1. ASSUME NEW i \in 1..Len(log) PROVE Verdicts'[i] = Verdicts[i]
    <3>1. i \in 1..Len(log') /\ i \in 1..(Len(log) + 1)
      BY <1>1
    <3> QED BY <1>1, <3>1 DEF Verdicts
  <2>2. Verdicts'[Len(log) + 1] = v
    <3>1. Len(log) + 1 \in 1..Len(log')
      BY <1>1
    <3> QED BY <1>1, <3>1 DEF Verdicts
  <2>3. Verdicts' = [i \in 1..(Len(log) + 1) |-> Verdicts'[i]]
    BY <1>1 DEF Verdicts
  <2>4. Verdicts \in Seq(BOOLEAN) /\ Len(Verdicts) = Len(log)
    <3>1. \A i \in 1..Len(log) : Accepts(hist[i], log[i]) \in BOOLEAN
      BY <1>1, LogTypes, AcceptsType
    <3> QED BY <1>1, <3>1 DEF Verdicts
  <2>5. Append(Verdicts, v) = [i \in 1..(Len(log) + 1) |->
                                 IF i = Len(log) + 1 THEN v ELSE Verdicts[i]]
    BY <1>1, <2>4 
  <2> QED BY <1>1, <2>1, <2>2, <2>3, <2>5
<1> QED BY <1>1, <1>2, <1>3, SameMachine DEF LS!Effect, Verdicts

\* Every step of the steady cluster is a step of the service, or invisible.
LEMMA StepRefines == SteadyInv /\ [SteadyNext]_vars => [LS!Next]_(LS!vars)
<1> SUFFICES ASSUME SteadyInv, [SteadyNext]_vars
             PROVE  LS!Next \/ UNCHANGED LS!vars
  OBVIOUS
<1> DEFINE view == [u \in Users |-> AbstractCall(u)]
<1>t. /\ Bounded /\ TypeOK /\ call \in [Users -> Call] /\ WaitersDistinct
      /\ Len(log) \in Nat
  BY LogTypes DEF SteadyInv, StoreInv, Bounded, TypeOK
<1>u. ASSUME UNCHANGED <<log, hist, told>>
      PROVE  UNCHANGED <<log, Verdicts, hist[Len(hist)], told>>
  BY <1>u DEF Verdicts
<1>1. ASSUME NEW u \in Users, NEW n \in Nodes, NEW cmd \in LockCommand, cmd.user = u,
             Stamp(u, n, cmd)
      PROVE  LS!Invoke(u)
  <2>1. /\ call[u].pc = "idle" /\ UNCHANGED <<log, hist, told>>
        /\ call' = [call EXCEPT ![u] = [pc |-> "stamped", node |-> n, cmd |-> cmd]]
    BY <1>1 DEF Stamp, raftVars
  <2>2. view[u].pc = "idle"
    BY <2>1 DEF AbstractCall, Idle
  <2>3. view'[u] = [pc |-> "invoked", cmd |-> cmd]
    BY <1>t, <2>1 DEF AbstractCall
  <2>4. view' = [view EXCEPT ![u] = view'[u]]
    BY <1>t, <2>1 DEF AbstractCall
  <2> QED BY <1>1, <1>u, <2>1, <2>2, <2>3, <2>4, SameMachine DEF LS!Invoke, Verdicts
<1>2. ASSUME NEW u \in Users, NotLeader(u) PROVE LS!Fail({u})
  <2>1. UNCHANGED <<log, hist, told>> /\ call' = [call EXCEPT ![u] = Idle]
    BY <1>2 DEF NotLeader, raftVars
  <2>2. view' = [v \in Users |-> IF v \in {u} THEN Idle ELSE view[v]]
    BY <1>t, <2>1 DEF AbstractCall, Idle
  <2> QED BY <1>u, <2>1, <2>2, SameMachine DEF LS!Fail, Verdicts
<1>3. ASSUME NEW u \in Users, NEW Q \in Quorums, Commit(u, Q) PROVE LS!TakeEffect(u)
  <2>1. call[u] \in Call /\ call[u].pc = "stamped" /\ Q \in SUBSET Nodes
    BY <1>3, <1>t DEF Commit, Quorums
  <2>2. call[u].cmd \in Entry
    BY <2>1 DEF Call, Idle, Entry
  <2>3. AppendOn(Q, call[u].cmd) /\ told' = told
        /\ call' = [call EXCEPT ![u] =
                      [pc |-> "waiting", node |-> leader, index |-> Len(log) + 1]]
    BY <1>3 DEF Commit
  <2>4. LS!Effect(call[u].cmd)
    BY <1>t, <2>1, <2>2, <2>3, AppendRefines
  <2>5. view[u].pc = "invoked" /\ view[u].cmd = call[u].cmd
    BY <2>1 DEF AbstractCall
  <2>6. view' = [view EXCEPT ![u] = [pc |-> "effected", index |-> Len(log) + 1]]
    BY <1>t, <2>3 DEF AbstractCall
  <2> QED BY <2>3, <2>4, <2>5, <2>6 DEF LS!TakeEffect
<1>4. ASSUME NEW n \in Nodes, NEW Q \in Quorums, Elect(n, Q) PROVE LS!Failover
  <2>1. AppendOn(Q, Blank) /\ Blank \in Entry /\ Q \in SUBSET Nodes
        /\ call' = call /\ told' = told
    BY <1>4 DEF Elect, Entry, Quorums, clientVars
  <2>2. LS!Effect(LS!Blank)
    BY <1>t, <2>1, AppendRefines, SameMachine
  <2>3. view' = view
    BY <2>1 DEF AbstractCall
  <2> QED BY <2>1, <2>2, <2>3 DEF LS!Failover
<1>5. ASSUME NEW n \in Nodes, Apply(n)
      PROVE  (\E u \in Users : LS!Respond(u)) \/ UNCHANGED LS!vars
  <2> DEFINE i == applied[n] + 1
             answer == [index |-> i, ok |-> Accepts(locks[n], log[i])]
  <2>1. /\ UNCHANGED <<log, hist>>
        /\ call' = [u \in Users |-> IF u \in Waiting(n, i) THEN Idle ELSE call[u]]
        /\ told' = told \cup {answer : u \in Waiting(n, i)}
    BY <1>5 DEF Apply, raftVars
  <2>2. i \in 1..Len(log) /\ locks[n] = hist[i]
    BY <1>5, <1>t, NodeTypes, SteadyStore DEF Apply
  <2>3. CASE Waiting(n, i) = {}
    <3>1. told' = told
      BY <2>1, <2>3
    <3>2. call' = call
      BY <1>t, <2>1, <2>3
    <3> QED BY <2>1, <3>1, <3>2, QuietRefines
  <2>4. CASE Waiting(n, i) # {}
    <3>1. PICK u \in Users : u \in Waiting(n, i)
      BY <2>4 DEF Waiting
    <3>2. call[u] = [pc |-> "waiting", node |-> n, index |-> i]
      BY <3>1 DEF Waiting
    <3>3. ASSUME NEW v \in Waiting(n, i) PROVE v = u
      BY <3>2, <3>3, <1>t DEF Waiting, WaitersDistinct
    <3>4. call' = [call EXCEPT ![u] = Idle] /\ told' = told \cup {answer}
      BY <1>t, <2>1, <3>1, <3>3
    <3>5. view[u] = [pc |-> "effected", index |-> i]
      BY <3>2 DEF AbstractCall
    <3>6. view' = [view EXCEPT ![u] = Idle]
      BY <1>t, <3>4 DEF AbstractCall, Idle
    <3>7. Verdicts[i] = Accepts(locks[n], log[i])
      BY <2>2 DEF Verdicts
    <3>8. view[u].pc = "effected" /\ view[u].index = i
      BY <3>5
    <3>9. UNCHANGED <<Verdicts, hist[Len(hist)]>>
      BY <2>1 DEF Verdicts
    <3>10. LS!Respond(u)
      BY <2>1, <3>4, <3>6, <3>7, <3>8, <3>9, SameMachine DEF LS!Respond, Verdicts
    <3> QED BY <3>10
  <2> QED BY <2>3, <2>4
<1>6. ASSUME NEW n \in Nodes,
             Tick(n) \/ Replicate(n) \/ BuildSnapshot(n) \/ Purge(n)
      PROVE  UNCHANGED LS!vars
  BY <1>6, QuietRefines DEF Tick, Replicate, BuildSnapshot, Purge, clientVars, raftVars
<1>7. CASE UNCHANGED vars
  BY <1>7, QuietRefines DEF vars, clientVars, raftVars
<1>8. ASSUME NEW u \in Users, NEW n \in Nodes, NEW t \in Tickets,
             RequestAcquire(u, n, t) \/ RequestRelease(u, n, t)
      PROVE  LS!Invoke(u)
  <2>1. /\ AcquireLock(t, u, clock[n], LockTtl[n]) \in LockCommand
        /\ AcquireLock(t, u, clock[n], LockTtl[n]).user = u
        /\ ReleaseLock(t, u) \in LockCommand
        /\ ReleaseLock(t, u).user = u
    BY <1>t, ConstantsAssumption DEF AcquireLock, ReleaseLock, LockCommand, TypeOK
  <2> QED BY <1>1, <1>8, <2>1 DEF RequestAcquire, RequestRelease
<1>9. ASSUME NEW u \in Users PROVE {u} \in SUBSET Users
  OBVIOUS
<1>10. ASSUME NEW n \in Nodes, EndRaft(n)
       PROVE  \E S \in SUBSET Users : LS!Fail(S)
  <2> DEFINE S == {u \in Users : call[u].pc = "waiting" /\ call[u].node = n}
  <2>1. /\ UNCHANGED <<log, hist, told>>
        /\ call' = [u \in Users |-> IF u \in S THEN Idle ELSE call[u]]
    BY <1>10 DEF EndRaft
  <2>2. view' = [u \in Users |-> IF u \in S THEN Idle ELSE view[u]]
    BY <1>t, <2>1 DEF AbstractCall, Idle
  <2>3. S \in SUBSET Users
    OBVIOUS
  <2>4. LS!Fail(S)
    BY <1>u, <2>1, <2>2, SameMachine DEF LS!Fail, Verdicts
  <2> QED BY <2>3, <2>4
<1>11. CASE Endings
  BY <1>10, <1>11 DEF Endings, MissingSnapshot, MissingEntries, LS!Next
<1> QED BY <1>2, <1>3, <1>4, <1>5, <1>6, <1>7, <1>8, <1>9, <1>11
        DEF SteadyNext, Service, Store, LS!Next

\* The replicated custodian, while its processes keep running, answers as a single
\* lock table would, even as nodes stop taking part after a storage error: commands take
\* effect in log order, between request and answer.
THEOREM SteadyImplementsLockService == SteadySpec => ImplementsLockService
<1>1. Init => LS!Init
  BY InitRefines
<1>2. SteadyInv /\ [SteadyNext]_vars => [LS!Next]_(LS!vars)
  BY StepRefines
<1> QED BY <1>1, <1>2, SteadyInvInductive, PTL DEF SteadySpec, ImplementsLockService, LS!Spec

-----------------------------------------------------------------------------
\* What is proved of the abstract service, read through the refinement mapping.
LSP == INSTANCE LockServiceProofs WITH
         ok    <- [i \in 1..Len(log) |-> Accepts(hist[i], log[i])],
         table <- hist[Len(hist)],
         call  <- [u \in Users |-> AbstractCall(u)]

\* No two users of a steady cluster are told they have a ticket's lock while the
\* first one's lease runs, whichever nodes answered them, whatever their clocks.
THEOREM SteadyNeverDoubleGrants == SteadySpec => []NoDoubleGrant
<1>1. LSP!Spec => []LSP!NoDoubleGrant
  BY NoLockAssumption, LSP!ServiceNeverDoubleGrants DEF LockInfo, LSP!LockInfo
<1>2. LS!Init <=> LSP!Init
  BY DEF LS!Init, LSP!Init, LS!NoLocks, LSP!NoLocks, LS!Idle, LSP!Idle
<1>3. /\ \A e : LS!Effect(e) <=> LSP!Effect(e)
      /\ LS!Blank = LSP!Blank /\ LS!LockCommand = LSP!LockCommand /\ LS!Idle = LSP!Idle
  BY DEF LS!Effect, LS!Accepts, LS!HeldByAnother, LS!IsExpired, LS!ApplyEntry,
         LS!AcquireLockAt, LS!ExpiresAt, LS!StorageReleaseLock, LS!Blank, LS!LockCommand,
         LS!Idle,
         LSP!Effect, LSP!Accepts, LSP!HeldByAnother, LSP!IsExpired, LSP!ApplyEntry,
         LSP!AcquireLockAt, LSP!ExpiresAt, LSP!StorageReleaseLock, LSP!Blank,
         LSP!LockCommand, LSP!Idle
<1>4. \A u \in Users : /\ LS!Invoke(u) <=> LSP!Invoke(u)
                       /\ LS!TakeEffect(u) <=> LSP!TakeEffect(u)
                       /\ LS!Respond(u) <=> LSP!Respond(u)
  BY <1>3 DEF LS!Invoke, LSP!Invoke, LS!TakeEffect, LSP!TakeEffect, LS!Respond, LSP!Respond
<1>5. /\ LS!Failover <=> LSP!Failover
      /\ \A S \in SUBSET Users : LS!Fail(S) <=> LSP!Fail(S)
  BY <1>3 DEF LS!Failover, LSP!Failover, LS!Fail, LSP!Fail
<1>6. [LS!Next]_(LS!vars) <=> [LSP!Next]_(LSP!vars)
  BY <1>4, <1>5 DEF LS!Next, LSP!Next, LS!vars, LSP!vars
<1>7. LSP!NoDoubleGrant => NoDoubleGrant
  BY DEF NoDoubleGrant, LS!NoDoubleGrant, LS!Conflicting, LS!LeaseEnded, LS!EndsLease,
         LS!AcquiresFor, LS!ExpiresAt, LS!ReleaseLock,
         LSP!NoDoubleGrant, LSP!Conflicting, LSP!LeaseEnded, LSP!EndsLease,
         LSP!AcquiresFor, LSP!ExpiresAt, LSP!ReleaseLock
<1> QED BY <1>1, <1>2, <1>6, <1>7, SteadyImplementsLockService, PTL
        DEF ImplementsLockService, LS!Spec, LSP!Spec
=============================================================================
