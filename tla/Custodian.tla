----------------------------- MODULE Custodian -----------------------------
(***************************************************************************)
(* The custodian's replicated lock service: the lock RPCs of its server,   *)
(* the store each node keeps in sled, and the way entries, purges, crashes *)
(* and restarts move that store.                                           *)
(*                                                                         *)
(* openraft is external.  It is modelled by its contract: there is one     *)
(* committed log; an entry is committed once a quorum of nodes appended    *)
(* it; a leader has every committed entry; a node applies the entries of   *)
(* its log in order, starting after the last applied entry its store       *)
(* reports; when the storage has not got what openraft asks it for, the    *)
(* Raft of that node ends, while its process goes on to answer.            *)
(* Uncommitted log suffixes do not appear.                                 *)
(***************************************************************************)
EXTENDS LockTable, Sequences, FiniteSets

CONSTANTS
  Nodes,       \* the nodes of the custodian cluster
  NoLeader,    \* no node leads
  LockTtl,     \* LOCK_TTL_SECS as configured on each node
  LogsSinceLast, \* a snapshot is built after this many more applied entries
  MaxTime,     \* bound on the nodes' clocks
  MaxLog,      \* bound on the number of committed entries
  MaxCalls,    \* bound on the number of lock RPCs in flight at once
  MaxCrashes   \* bound on the number of crashes

ASSUME ConstantsAssumption ==
  /\ NoLeader \notin Nodes
  /\ LockTtl \in [Nodes -> Int]
  /\ LogsSinceLast \in Nat \ {0}
  /\ MaxTime \in Nat
  /\ MaxLog \in Nat
  /\ MaxCalls \in Nat
  /\ MaxCrashes \in Nat

VARIABLES
  clock,     \* clock[n]: the wall clock of node n, in seconds
  call,      \* call[u]: where user u's lock RPC stands
  told,      \* history: the answers callers received (log index and verdict)
  leader,    \* the node that leads, if any
  log,       \* the committed log of the cluster
  hist,      \* history: hist[i + 1] is the table after the first i entries
  up,        \* up[n]: the process of node n runs
  logged,    \* logged[n]: index of the last entry in n's tree "raft_log"
  purged,    \* purged[n]: entries up to here were purged from that tree
  locks,     \* locks[n]: the tree "locks" of n, as its process reads it
  durable,   \* durable[n]: the states of that tree a crash may leave: those since
             \* sled's last explicit flush, as it also writes in the background
  applied,   \* applied[n]: last_applied_log of n's state machine, in memory only
  snapshot,  \* snapshot[n]: log index of the snapshot n built last, all that is kept
  exact,     \* history: the tickets whose lock on n stems from the log alone
  fatal,     \* the nodes whose Raft ended with a storage error
  crashes    \* number of crashes so far

clientVars == <<clock, call, told>>
raftVars   == <<leader, log, hist>>
storeVars  == <<up, logged, purged, locks, durable, applied>>
snapVars   == <<snapshot, exact>>
faultVars  == <<fatal, crashes>>
vars == <<clientVars, raftVars, storeVars, snapVars, faultVars>>

Quorums == {Q \in SUBSET Nodes : 2 * Cardinality(Q) > Cardinality(Nodes)}

Idle == [pc |-> "idle"]

Call == {Idle}
          \cup [pc : {"stamped"}, node : Nodes, cmd : LockCommand]
          \cup [pc : {"waiting"}, node : Nodes, index : Nat \ {0}]

TypeOK ==
  /\ clock \in [Nodes -> Nat]
  /\ call \in [Users -> Call]
  /\ told \in SUBSET [index : Nat, ok : BOOLEAN]
  /\ leader \in Nodes \cup {NoLeader}
  /\ log \in Seq(Entry)
  /\ hist \in Seq(Table)
  /\ up \in [Nodes -> BOOLEAN]
  /\ logged \in [Nodes -> Nat]
  /\ purged \in [Nodes -> Nat]
  /\ locks \in [Nodes -> Table]
  /\ durable \in [Nodes -> SUBSET Table]
  /\ applied \in [Nodes -> Nat]
  /\ snapshot \in [Nodes -> Nat]
  /\ exact \in [Nodes -> SUBSET Tickets]
  /\ fatal \subseteq Nodes
  /\ crashes \in Nat

Init ==
  /\ clock = [n \in Nodes |-> 0]
  /\ call = [u \in Users |-> Idle]
  /\ told = {}
  /\ leader = NoLeader
  /\ log = << >>
  /\ hist = <<NoLocks>>
  /\ up = [n \in Nodes |-> TRUE]
  /\ logged = [n \in Nodes |-> 0]
  /\ purged = [n \in Nodes |-> 0]
  /\ locks = [n \in Nodes |-> NoLocks]
  /\ durable = [n \in Nodes |-> {NoLocks}]
  /\ applied = [n \in Nodes |-> 0]
  /\ snapshot = [n \in Nodes |-> 0]
  /\ exact = [n \in Nodes |-> Tickets]
  /\ fatal = {}
  /\ crashes = 0

-----------------------------------------------------------------------------
(* The server: acquire_lock and release_lock. *)

\* Wall clocks advance on their own; nothing keeps them close to each other.
Tick(n) ==
  /\ clock[n] < MaxTime
  /\ clock' = [clock EXCEPT ![n] = @ + 1]
  /\ UNCHANGED <<call, told, raftVars, storeVars, snapVars, faultVars>>

\* There is room in the bounded log for one more entry besides those on their way.
Room == Len(log) + Cardinality({u \in Users : call[u].pc = "stamped"}) < MaxLog

\* Node n builds the command of u's request; an acquisition gets n's time and
\* n's configured lifetime here, before it is handed to Raft.
Stamp(u, n, cmd) ==
  /\ Room
  /\ Cardinality({v \in Users : call[v].pc # "idle"}) < MaxCalls
  /\ up[n]
  /\ call[u].pc = "idle"
  /\ call' = [call EXCEPT ![u] = [pc |-> "stamped", node |-> n, cmd |-> cmd]]
  /\ UNCHANGED <<clock, told, raftVars, storeVars, snapVars, faultVars>>

RequestAcquire(u, n, t) == Stamp(u, n, AcquireLock(t, u, clock[n], LockTtl[n]))

RequestRelease(u, n, t) == Stamp(u, n, ReleaseLock(t, u))

\* The Raft of n runs.
Runs(n) == up[n] /\ n \notin fatal

\* client_write at a node that does not lead, or whose Raft ended: an error, no entry.
NotLeader(u) ==
  /\ call[u].pc = "stamped"
  /\ call[u].node # leader
  /\ call' = [call EXCEPT ![u] = Idle]
  /\ UNCHANGED <<clock, told, raftVars, storeVars, snapVars, faultVars>>

\* append_to_log on every node of Q, which commits the entry.  The flush of the
\* log tree flushes the whole sled database, the locks included.
AppendOn(Q, e) ==
  /\ \A n \in Q : Runs(n) /\ logged[n] = Len(log)
  /\ log' = Append(log, e)
  /\ hist' = Append(hist, ApplyEntry(hist[Len(hist)], e))
  /\ logged' = [n \in Nodes |-> IF n \in Q THEN Len(log) + 1 ELSE logged[n]]
  /\ durable' = [n \in Nodes |-> IF n \in Q THEN {locks[n]} ELSE durable[n]]
  /\ UNCHANGED <<up, purged, locks, applied>>

Commit(u, Q) ==
  /\ call[u].pc = "stamped"
  /\ call[u].node = leader
  /\ leader \in Q
  /\ AppendOn(Q, call[u].cmd)
  /\ call' = [call EXCEPT ![u] =
                [pc |-> "waiting", node |-> leader, index |-> Len(log) + 1]]
  /\ UNCHANGED <<clock, told, leader, snapVars, faultVars>>

\* A node that has every committed entry wins an election and commits a no-op; the
\* bound on the log does not keep the cluster from replacing a leader that is gone.
Elect(n, Q) ==
  /\ Room \/ leader = NoLeader
  /\ leader # n
  /\ n \in Q
  /\ AppendOn(Q, Blank)
  /\ leader' = n
  /\ UNCHANGED <<clientVars, snapVars, faultVars>>

-----------------------------------------------------------------------------
(* The store of one node. *)

\* The node m sends what others lack: it leads, or it has every entry and a majority
\* that can elect it, whose logs it completes before its no-op (Elect) commits.
Sends(m) ==
  /\ Runs(m)
  /\ \/ m = leader
     \/ /\ leader = NoLeader
        /\ logged[m] = Len(log)
        /\ \E Q \in Quorums : \A n \in Q : Runs(n)

\* Variant: the first entry after a purge is taken for purged, too.
ReplicateAfterPurge(n) ==
  /\ Runs(n)
  /\ logged[n] < Len(log)
  /\ \E m \in Nodes : Sends(m) /\ purged[m] < logged[n]
  /\ logged' = [logged EXCEPT ![n] = @ + 1]
  /\ durable' = [durable EXCEPT ![n] = {locks[n]}]
  /\ UNCHANGED <<clientVars, raftVars, up, purged, locks, applied, snapVars, faultVars>>

\* append_to_log of the next entry on a node that lags behind.
Replicate(n) ==
  /\ Runs(n)
  /\ logged[n] < Len(log)
  /\ \E m \in Nodes : Sends(m) /\ purged[m] <= logged[n]
  /\ logged' = [logged EXCEPT ![n] = @ + 1]
  /\ durable' = [durable EXCEPT ![n] = {locks[n]}]
  /\ UNCHANGED <<clientVars, raftVars, up, purged, locks, applied, snapVars, faultVars>>

\* Variant: the answer goes to the callers of the next entry.
WaitingForNext(n, i) ==
  {u \in Users : call[u] = [pc |-> "waiting", node |-> n, index |-> i + 1]}

\* The callers who wait at node n for the answer to entry i.
Waiting(n, i) == {u \in Users : call[u] = [pc |-> "waiting", node |-> n, index |-> i]}

\* apply_to_state_machine, one entry: last_applied_log, the table, the answer.
\* A leader tells n what is committed; n does not catch up while nobody leads.
Apply(n) ==
  LET i == applied[n] + 1
  IN /\ Runs(n)
     /\ leader # NoLeader
     /\ purged[n] < i
     /\ i <= logged[n]
     /\ applied' = [applied EXCEPT ![n] = i]
     /\ locks' = [locks EXCEPT ![n] = ApplyEntry(@, log[i])]
     /\ durable' = [durable EXCEPT ![n] = @ \cup {locks'[n]}]
     /\ call' = [u \in Users |-> IF u \in Waiting(n, i) THEN Idle ELSE call[u]]
     /\ told' = told \cup {[index |-> i, ok |-> Accepts(locks[n], log[i])] :
                             u \in Waiting(n, i)}
     /\ UNCHANGED <<clock, raftVars, up, logged, purged, snapVars, faultVars>>

\* get_snapshot_builder captures the applied index, and build_snapshot reads the trees
\* later; its data is kept by no one.  openraft remembers the index alone.
BuildSnapshot(n) ==
  /\ Runs(n)
  /\ snapshot[n] + LogsSinceLast <= applied[n]
  /\ snapshot' = [snapshot EXCEPT ![n] = applied[n]]
  /\ UNCHANGED <<clientVars, raftVars, storeVars, exact, faultVars>>

\* purge_logs_upto, once a snapshot covers the entries.
Purge(n) ==
  /\ Runs(n)
  /\ purged[n] < snapshot[n]
  /\ purged' = [purged EXCEPT ![n] = snapshot[n]]
  /\ durable' = [durable EXCEPT ![n] = {locks[n]}]
  /\ UNCHANGED <<clientVars, raftVars, up, logged, locks, applied, snapVars, faultVars>>

-----------------------------------------------------------------------------
(* Faults and recovery. *)

\* Variant: who waits for an answer is forgotten.
EndRaftSilently(n) ==
  /\ fatal' = fatal \cup {n}
  /\ leader' = IF leader = n THEN NoLeader ELSE leader
  /\ UNCHANGED <<clientVars, log, hist, storeVars, snapVars, crashes>>

\* The Raft of n ends with a storage error: n neither writes nor applies, votes nor
\* leads, and who waits for its answer gets the error.  Its process goes on to serve
\* reads, until someone restarts it.
EndRaft(n) ==
  /\ fatal' = fatal \cup {n}
  /\ leader' = IF leader = n THEN NoLeader ELSE leader
  /\ call' = [u \in Users |->
                IF call[u].pc = "waiting" /\ call[u].node = n THEN Idle ELSE call[u]]
  /\ UNCHANGED <<clock, told, log, hist, storeVars, snapVars, crashes>>

\* f lacks entries that m has purged: openraft asks m's store for a snapshot to send,
\* and get_current_snapshot returns None.
MissingSnapshot(m, f) ==
  /\ Sends(m)
  /\ logged[f] < purged[m]
  /\ EndRaft(m)

\* The next entry to apply on n is purged: try_get_log_entries does not return it.
MissingEntries(n) ==
  /\ Runs(n)
  /\ leader # NoLeader
  /\ applied[n] < purged[n]
  /\ EndRaft(n)

\* The process of n ends.  What sled had not flushed is lost with it, and the
\* callers it was serving get an error.
Crash(n) ==
  /\ up[n]
  /\ crashes < MaxCrashes
  /\ crashes' = crashes + 1
  /\ fatal' = fatal \ {n}
  /\ up' = [up EXCEPT ![n] = FALSE]
  /\ \E tree \in durable[n] : locks' = [locks EXCEPT ![n] = tree]
  /\ durable' = [durable EXCEPT ![n] = {locks'[n]}]
  /\ leader' = IF leader = n THEN NoLeader ELSE leader
  /\ call' = [u \in Users |->
                IF call[u].pc # "idle" /\ call[u].node = n THEN Idle ELSE call[u]]
  /\ UNCHANGED <<clock, told, log, hist, logged, purged, applied, snapVars>>

\* Variant: the restarted node takes all that is in its log for applied.
RestartTrustingLog(n) ==
  /\ ~ up[n]
  /\ up' = [up EXCEPT ![n] = TRUE]
  /\ applied' = [applied EXCEPT ![n] = logged[n]]
  /\ snapshot' = [snapshot EXCEPT ![n] = 0]
  /\ exact' = [exact EXCEPT ![n] = {t \in Tickets : locks[n][t] = NoLock}]
  /\ UNCHANGED <<clientVars, raftVars, logged, purged, locks, durable, faultVars>>

\* Variant: last_applied_log outlives the process, without the writes it stands for.
RestartKeepingApplied(n) ==
  /\ ~ up[n]
  /\ up' = [up EXCEPT ![n] = TRUE]
  /\ snapshot' = [snapshot EXCEPT ![n] = 0]
  /\ exact' = [exact EXCEPT ![n] = {t \in Tickets : locks[n][t] = NoLock}]
  /\ UNCHANGED <<clientVars, raftVars, logged, purged, locks, durable, applied, faultVars>>

\* CustodianStore::new: the trees are as sled recovered them, last_applied_log
\* starts from None, and there is no snapshot.
Restart(n) ==
  /\ ~ up[n]
  /\ up' = [up EXCEPT ![n] = TRUE]
  /\ applied' = [applied EXCEPT ![n] = 0]
  /\ snapshot' = [snapshot EXCEPT ![n] = 0]
  /\ exact' = [exact EXCEPT ![n] = {t \in Tickets : locks[n][t] = NoLock}]
  /\ UNCHANGED <<clientVars, raftVars, logged, purged, locks, durable, faultVars>>

-----------------------------------------------------------------------------
Service ==
  \/ \E n \in Nodes : Tick(n)
  \/ \E u \in Users, n \in Nodes, t \in Tickets :
       RequestAcquire(u, n, t) \/ RequestRelease(u, n, t)
  \/ \E u \in Users : NotLeader(u)
  \/ \E u \in Users, Q \in Quorums : Commit(u, Q)
  \/ \E n \in Nodes, Q \in Quorums : Elect(n, Q)

Store == \E n \in Nodes :
  Replicate(n) \/ Apply(n) \/ BuildSnapshot(n) \/ Purge(n)

\* Storage errors that end the Raft of a node.
Endings ==
  \/ \E m, f \in Nodes : MissingSnapshot(m, f)
  \/ \E n \in Nodes : MissingEntries(n)

Stops == \E n \in Nodes : Crash(n) \/ Restart(n)

\* The cluster while every process keeps running.
SteadyNext == Service \/ Store \/ Endings

Next == SteadyNext \/ Stops

SteadySpec == Init /\ [][SteadyNext]_vars

Spec == Init /\ [][Next]_vars

\* openraft keeps replicating to and applying on every node that runs, elects a
\* leader when there is none, and drives client_write to an end; the process
\* supervisor starts a stopped node again.  Crashes, ticks, requests, changes of
\* a working leader and compaction owe nothing.
Fairness ==
  /\ \A n \in Nodes :
       /\ WF_vars(Replicate(n))
       /\ WF_vars(Apply(n))
       /\ WF_vars(MissingEntries(n))
       /\ WF_vars(\E f \in Nodes : Runs(f) /\ MissingSnapshot(n, f))
       /\ WF_vars(Restart(n))
  /\ \A u \in Users :
       WF_vars(NotLeader(u)) /\ WF_vars(\E Q \in Quorums : Commit(u, Q))
  /\ WF_vars(leader = NoLeader /\ \E n \in Nodes, Q \in Quorums : Elect(n, Q))

FairSpec == Spec /\ Fairness

-----------------------------------------------------------------------------
(* What the store owes the log. *)

\* The table that the log prescribes after the first i entries.
Prescribed(i) == hist[i + 1]

\* A running node has, for every ticket whose lock stems from the log alone,
\* exactly the lock the log prescribes at the node's applied index: elections,
\* lagging, purges, unflushed writes, the end of its Raft, other nodes' crashes and
\* its own restart do not disturb a ticket that was free on disk when it restarted.
ExactTicketsFollowLog ==
  \A n \in Nodes : up[n] =>
    \A t \in exact[n] : locks[n][t] = Prescribed(applied[n])[t]

\* The nodes whose whole table stems from the log.
Exact == {n \in Nodes : up[n] /\ exact[n] = Tickets}

R == INSTANCE Replicas WITH
       Initial <- NoLocks,
       states  <- hist,
       at      <- [n \in Exact |-> applied[n] + 1],
       shown   <- [n \in Exact |-> locks[n]]

\* "Raft applies entries in identical order on every node": who reads the locks of one
\* node (check_lock, update_ticket) sees a table that the log prescribes, and never an
\* earlier one afterwards, through elections, lagging, purges, the end of its Raft and
\* other nodes' crashes, until the node itself stops; it is a replica again if all
\* tickets were free on disk when it restarted.
ImplementsReplicas == R!Spec

\* health: a node that leads or follows; without a leader it stands for election.
Healthy(n) == Runs(n) /\ leader # NoLeader

\* cluster_status calls the index it last applied the commit index.
ClusterStatus(n) == [leader_id |-> leader, commit_index |-> applied[n]]

MajorityRuns == \E Q \in Quorums : \A n \in Q : Runs(n)

\* The Raft of n runs, and has entry i in its log, unpurged and yet to be applied.
CanAnswer(n, i) == Runs(n) /\ applied[n] < i /\ i <= logged[n] /\ purged[n] < i

\* A caller waits only where its answer can still be given: no purge, election or
\* storage error takes an entry from under those who wait for what it does.
WaitersCanBeAnswered ==
  \A u \in Users : call[u].pc = "waiting" => CanAnswer(call[u].node, call[u].index)

\* Every lock RPC comes to an end, unless the Rafts of half the nodes have ended:
\* client_write is neither lost nor left waiting by an election, a lagging node, or the
\* end of the Raft that was to answer.
EveryCallReturns ==
  \A u \in Users : call[u].pc # "idle" ~> (call[u].pc = "idle" \/ ~ MajorityRuns)

\* A node that goes on to report itself healthy comes to have the whole log applied:
\* a leader that purged what others lack does not last, and a node that applied less
\* than it purged does not go on as if it had it.
HealthyNodesCatchUp ==
  \A n \in Nodes : <>[](Healthy(n) => ClusterStatus(n).commit_index = Len(log))

\* Snapshots are "used for fast node recovery and log compaction": whatever was purged,
\* a node whose Raft runs comes to have the whole log.  It does not: nodes that purged
\* what one lacks end in turn (MissingSnapshot), the majority is lost, and the one that
\* is left can neither catch up nor lead.
EveryNodeCatchesUp == \A n \in Nodes : <>[](Runs(n) => applied[n] = Len(log))

\* The service the callers see.
AbstractCall(u) ==
  IF call[u].pc = "stamped" THEN [pc |-> "invoked", cmd |-> call[u].cmd]
  ELSE IF call[u].pc = "waiting" THEN [pc |-> "effected", index |-> call[u].index]
  ELSE Idle

LS == INSTANCE LockService WITH
        ok    <- [i \in 1..Len(log) |-> Accepts(hist[i], log[i])],
        table <- hist[Len(hist)],
        call  <- [u \in Users |-> AbstractCall(u)]

\* Every answer is the one a single, unreplicated lock table would have given,
\* the commands taking effect in log order between request and answer.
ImplementsLockService == LS!Spec

\* No two users are told they have a ticket's lock while the first one's lease
\* still runs.
NoDoubleGrant == LS!NoDoubleGrant
=============================================================================
