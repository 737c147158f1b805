---------------------------- MODULE RaftCluster ----------------------------
(***************************************************************************)
(* A Raft cluster of the system, the custodian's or the DB's: openraft     *)
(* (external, as version 0.9 behaves towards its storage and network) over *)
(* the log store and the wire conversions of this repository.  It answers  *)
(* what the other modules take for granted: that a leader has every        *)
(* committed entry, and that a node finds its vote and its log again.      *)
(*                                                                         *)
(* An RPC is handled in one step; its answer may be lost, and a candidate  *)
(* that is refused learns the higher vote only from the node it is of.     *)
(***************************************************************************)
EXTENDS RaftWire, Sequences, FiniteSets

CONSTANTS
  Peers,      \* RAFT_PEERS, the same on every node: ids with the parts of an address
  Services,   \* which clusters to look at: "custodian", "db"
  MaxTerm,    \* bound on the terms
  MaxCampaigns, \* bound on the candidacies
  MaxLog,     \* bound on the log
  MaxCrashes, \* bound on the crashes
  MaxPurges   \* bound on the purges

ASSUME RaftAssumption ==
  /\ Peers \in Seq([node_id : Nat, address : Seq(STRING)])
  /\ Services \subseteq {"custodian", "db"}
  /\ MaxTerm \in Nat \ {0}
  /\ MaxCampaigns \in Nat
  /\ MaxLog \in Nat
  /\ MaxCrashes \in Nat
  /\ MaxPurges \in Nat

C == INSTANCE CustodianRaft
D == INSTANCE DbRaft

Nodes == {Peers[i].node_id : i \in C!ParsePeerConfigs(Peers)}

VARIABLES
  service,   \* the cluster this behaviour is of
  up,        \* the nodes that run
  store,     \* store[n]: what n keeps in sled, and what of it a crash may lose
  base,      \* base[n]: the log id that n's openraft takes for the one before its log
  committed, \* committed[n]: the index up to which n knows entries to be committed
  matched,   \* matched[n][m]: how far n, leading, knows m's log to match its own
  knows,     \* the nodes that know the voters
  granted,   \* granted[n]: the nodes that n, a candidate, knows to have granted its vote
  campaigns, \* campaigns, crashes, purges: counted for the bounds
  crashes,
  purges,
  decided,   \* history: the entries that a leader committed, with its vote
  causes     \* history: what happened that Raft does not expect of its host

counters == <<campaigns, crashes, purges>>
vars == <<service, up, store, base, committed, matched, knows, granted, counters,
          decided, causes>>

Index  == 1..MaxLog
Leader == [term : 1..MaxTerm, node : Nodes]

Cause == {"misjudged",   \* a vote was granted to a log that is older, for its log id
                         \* changed on the way
          "mistaken",    \* a node took an entry of its own for the leader's entry before
                         \* the new ones, for the leader's log id changed on the way
          "dropped",     \* a node dropped entries that were equal to the leader's
          "vote_lost",   \* a crash took back a vote
          "purge_lost",  \* a crash took back last_purged, with the entries removed
          "emptied"}     \* a node restarted with all of its log purged

\* What a node stores and knows of its peers: the log's keys are the indexes of its
\* entries (append_to_log), and votes and log ids name nodes and terms.
TypeOK ==
  /\ service \in Services
  /\ up \subseteq Nodes
  /\ \A n \in Nodes :
       /\ store[n].vote \in Vote
       /\ store[n].votes \subseteq Vote
       /\ DOMAIN store[n].tree \subseteq Index
       /\ \A i \in DOMAIN store[n].tree : store[n].tree[i] \in Leader
       /\ store[n].last_purged \in LogId
       /\ store[n].purges \subseteq LogId
  /\ base \in [Nodes -> LogId]
  /\ committed \in [Nodes -> 0..MaxLog]
  /\ matched \in [Nodes -> [Nodes -> 0..MaxLog]]
  /\ knows \subseteq Nodes
  /\ granted \in [Nodes -> SUBSET Nodes]
  /\ campaigns \in 0..MaxCampaigns
  /\ crashes \in 0..MaxCrashes
  /\ purges \in 0..MaxPurges
  /\ decided \subseteq [index : Index, entry : Leader, vote : Vote]
  /\ causes \subseteq Cause

NoneMatched == [m \in Nodes |-> 0]

-----------------------------------------------------------------------------
(* The host's operations, by service. *)

SaveVote(s, v) == IF service = "db" THEN D!SaveVote(s, v) ELSE C!SaveVote(s, v)

AppendToLog(s, es) == IF service = "db" THEN D!AppendToLog(s, es) ELSE C!AppendToLog(s, es)

DeleteSince(s, i) ==
  IF service = "db" THEN D!DeleteConflictLogsSince(s, i)
  ELSE C!DeleteConflictLogsSince(s, i)

RemoveUpto(s, id) == IF service = "db" THEN D!RemoveUpto(s, id) ELSE C!RemoveUpto(s, id)

PurgeUpto(s, id) ==
  IF service = "db" THEN D!PurgeLogsUpto(s, id) ELSE C!PurgeLogsUpto(s, id)

Entries(s, range) ==
  IF service = "db" THEN D!TryGetLogEntries(s, range) ELSE C!TryGetLogEntries(s, range)

LastInTree(s) == IF service = "db" THEN D!LastInTree(s) ELSE C!LastInTree(s)

Reopen(s, v, id) == IF service = "db" THEN D!Reopen(s, v, id) ELSE C!Reopen(s, v, id)

VoteOverWire(rpc) ==
  IF service = "db" THEN D!ReceiveVote(D!SendVote(rpc)) ELSE C!ReceiveVote(C!SendVote(rpc))

AppendOverWire(rpc) ==
  IF service = "db" THEN D!ReceiveAppend(D!SendAppend(rpc))
  ELSE C!ReceiveAppend(C!SendAppend(rpc))

AnswerOverWire(resp, echoed) ==
  IF service = "db" THEN D!AnswerAppend(resp, echoed) ELSE C!AnswerAppend(resp, echoed)

GetCurrentSnapshot ==
  IF service = "db" THEN D!GetCurrentSnapshot ELSE C!GetCurrentSnapshot

\* All nodes have started, and the one that is to initialize the cluster has done so:
\* it knows the voters and stands for election.
Init ==
  /\ service \in Services
  /\ up = Nodes
  /\ LET first == {n \in Nodes : IF service = "db" THEN D!ShouldInitializeCluster(n, Peers)
                                ELSE C!ShouldInitializeCluster(n, Peers)}
     IN  /\ store = [n \in Nodes |->
              IF n \notin first THEN C!NewStore
              ELSE SaveVote(C!NewStore, [term |-> 1, node |-> n, committed |-> FALSE])]
         /\ granted = [n \in Nodes |-> first \cap {n}]
         /\ knows = first
  /\ base = [n \in Nodes |-> NoLogId]
  /\ committed = [n \in Nodes |-> 0]
  /\ matched = [n \in Nodes |-> NoneMatched]
  /\ campaigns = 0
  /\ crashes = 0
  /\ purges = 0
  /\ decided = {}
  /\ causes = {}

-----------------------------------------------------------------------------
(* openraft *)

Quorums == {q \in SUBSET Nodes : 2 * Cardinality(q) > Cardinality(Nodes)}

VoteOf(n) == store[n].vote

\* n is a candidate; a restart makes it a follower.
Stands(n) == granted[n] # {} /\ VoteOf(n).node = n /\ ~ VoteOf(n).committed

Leads(n) == n \in up /\ n \in knows /\ VoteOf(n).node = n /\ VoteOf(n).committed

\* The log id of the entry at an index, as n has it.
IdAt(s, b, i) ==
  IF i \in DOMAIN s.tree
  THEN [term |-> s.tree[i].term, node |-> s.tree[i].node, index |-> i]
  ELSE IF i = b.index THEN b ELSE NoLogId

LastId(s, b) == IF DOMAIN s.tree = {} THEN b ELSE LastInTree(s)

Last(n) == LastId(store[n], base[n])

\* n stands for election in the next term.
Campaign(n) ==
  /\ n \in up
  /\ n \in knows
  /\ ~ Leads(n)
  /\ VoteOf(n).term < MaxTerm
  /\ campaigns < MaxCampaigns
  /\ campaigns' = campaigns + 1
  /\ LET v == [term |-> VoteOf(n).term + 1, node |-> n, committed |-> FALSE]
     IN  /\ store' = [store EXCEPT ![n] = SaveVote(@, v)]
         /\ granted' = [granted EXCEPT ![n] = {n}]
  /\ UNCHANGED <<service, up, base, committed, matched, knows, crashes, purges, decided,
                 causes>>

\* n handles c's vote request, with the log id as it arrives.
GrantVote(c, n) ==
  /\ {c, n} \subseteq up
  /\ n \notin granted[c]
  /\ Stands(c)
  /\ LET req == VoteOverWire([vote |-> VoteOf(c), last_log_id |-> Last(c)])
     IN  /\ LogIdLeq(Last(n), req.last_log_id)
         /\ VoteLeq(VoteOf(n), req.vote)
         /\ store' = [store EXCEPT ![n] = SaveVote(@, req.vote)]
         /\ granted' = [granted EXCEPT ![c] = @ \cup {n}, ![n] = {}]
         /\ matched' = [matched EXCEPT ![n] = NoneMatched]
         /\ causes' = IF LogIdLeq(Last(n), Last(c)) THEN causes
                      ELSE causes \cup {"misjudged"}
  /\ UNCHANGED <<service, up, base, committed, knows, counters, decided>>

\* A quorum granted n's vote: n leads, and starts with a blank entry of its own.
Elect(n) ==
  /\ n \in up
  /\ Stands(n)
  /\ Last(n).index < MaxLog
  /\ granted[n] \in Quorums
  /\ LET s == SaveVote(store[n], [VoteOf(n) EXCEPT !.committed = TRUE])
     IN  store' = [store EXCEPT ![n] =
           AppendToLog(s, [i \in {Last(n).index + 1} |->
                             [term |-> VoteOf(n).term, node |-> n]])]
  /\ matched' = [matched EXCEPT ![n] = NoneMatched]
  /\ granted' = [granted EXCEPT ![n] = {}]
  /\ UNCHANGED <<service, up, base, committed, knows, counters, decided, causes>>

\* client_write on the leader.
Propose(n) ==
  /\ Leads(n)
  /\ Last(n).index < MaxLog
  /\ store' = [store EXCEPT ![n] =
       AppendToLog(@, [i \in {Last(n).index + 1} |->
                         [term |-> VoteOf(n).term, node |-> n]])]
  /\ UNCHANGED <<service, up, base, committed, matched, knows, granted, counters,
                 decided, causes>>

-----------------------------------------------------------------------------
(* Replication *)

HasLogId(s, b, c, id) == id.index <= c \/ IdAt(s, b, id.index) = id

\* f, with the store s after it took the leader's vote over, handles append_entries:
\* either the previous log id does not fit and what f has there is dropped, or the
\* entries replace what differs from them and f commits what the leader committed.
HandleAppend(s, b, c, req) ==
  IF ~ HasLogId(s, b, c, req.prev_log_id)
  THEN [outcome |-> "Conflict", committed |-> c,
        store |-> IF req.prev_log_id.index \in DOMAIN s.tree
                  THEN DeleteSince(s, req.prev_log_id.index) ELSE s]
  ELSE
    LET new  == {i \in DOMAIN req.entries : i > b.index /\ (i \notin DOMAIN s.tree \/
                                             s.tree[i] # req.entries[i])}
        first == CHOOSE j \in new : \A i \in new : j <= i
        t    == IF new = {} THEN s
                ELSE AppendToLog(DeleteSince(s, first),
                                 [i \in {j \in DOMAIN req.entries : first <= j} |->
                                    req.entries[i]])
        accepted == IF DOMAIN req.entries = {} THEN req.prev_log_id
                    ELSE LET i == CHOOSE i \in DOMAIN req.entries :
                                    \A j \in DOMAIN req.entries : j <= i
                         IN  [term |-> req.entries[i].term, node |-> req.entries[i].node,
                              index |-> i]
        commit == IF LogIdLeq(req.leader_commit, accepted) THEN req.leader_commit
                  ELSE accepted
    IN  [outcome |-> "Success", store |-> t,
         committed |-> IF c < commit.index THEN commit.index ELSE c]

\* The last index that a quorum has and that the leader wrote itself, if it is news.
CommitIndex(l, m) ==
  LET ok == {i \in DOMAIN store[l].tree :
               /\ SameLeader(store[l].tree[i], VoteOf(l))
               /\ \E q \in Quorums : \A n \in q : n = l \/ m[n] >= i}
  IN  CHOOSE i \in ok \cup {committed[l]} : \A j \in ok \cup {committed[l]} : j <= i

\* What l sends of its log after index p, as it arrives.
Request(l, p) ==
  AppendOverWire([vote |-> VoteOf(l), prev_log_id |-> IdAt(store[l], base[l], p),
                  entries |-> Entries(store[l], (p + 1)..Last(l).index),
                  leader_commit |-> IdAt(store[l], base[l], committed[l])])

\* The leader l sends f what follows index p of its log; the answer is lost or not.
\* The whole log starts with the voters.
Replicate(l, f, p, answered) ==
  /\ Leads(l)
  /\ f \in up \ {l}
  /\ VoteLeq(VoteOf(f), VoteOf(l))
  /\ matched[l][f] <= p
  /\ base[l].index <= p
  /\ \E got \in {HandleAppend(SaveVote(store[f], VoteOf(l)), base[f], committed[f],
                               Request(l, p))} :
       LET resp == AnswerOverWire([outcome |-> got.outcome], VoteOf(l))
           m    == IF answered /\ resp.outcome = "Success"
                   THEN [matched[l] EXCEPT ![f] = Last(l).index] ELSE matched[l]
           ci   == CommitIndex(l, m)
           same == IdAt(store[f], base[f], p) = IdAt(store[l], base[l], p)
       IN  /\ store' = [store EXCEPT ![f] = got.store]
           /\ matched' = [matched EXCEPT ![l] = m, ![f] = NoneMatched]
           /\ granted' = [granted EXCEPT ![f] = {}]
           /\ knows' = IF got.outcome = "Success" /\ p = 0 THEN knows \cup {f} ELSE knows
           /\ committed' = [committed EXCEPT ![f] = got.committed, ![l] = ci]
           /\ decided' = decided \cup
                {[index |-> i, entry |-> store[l].tree[i], vote |-> VoteOf(l)] :
                   i \in {j \in DOMAIN store[l].tree : committed[l] < j /\ j <= ci}}
           /\ causes' = causes \cup
                (IF got.outcome = "Conflict" /\ p \in DOMAIN store[f].tree /\ same
                 THEN {"dropped"} ELSE {}) \cup
                (IF got.outcome = "Success" /\ committed[f] < p /\ ~ same
                 THEN {"mistaken"} ELSE {})
  /\ UNCHANGED <<service, up, base, counters>>

\* f has a higher vote than the leader l, says so, and l steps down.
Refuse(l, f) ==
  /\ Leads(l)
  /\ f \in up
  /\ ~ VoteLeq(VoteOf(f), VoteOf(l))
  /\ LET resp == AnswerOverWire([outcome |-> "HigherVote", vote |-> VoteOf(f)], VoteOf(l))
     IN  store' = [store EXCEPT ![l] = SaveVote(@, resp.vote)]
  /\ matched' = [matched EXCEPT ![l] = NoneMatched]
  /\ UNCHANGED <<service, up, base, committed, knows, granted, counters,
                 decided, causes>>

-----------------------------------------------------------------------------
(* Purging, storage errors, crashes *)

\* The log id of the snapshot that n builds of what it applied, and does not keep.
SnapshotId(n) == IdAt(store[n], base[n], committed[n])

\* n purges its log up to its last snapshot.
Purge(n) ==
  /\ n \in up
  /\ purges < MaxPurges
  /\ base[n].index < committed[n]
  /\ committed[n] \in DOMAIN store[n].tree
  /\ store' = [store EXCEPT ![n] = PurgeUpto(@, SnapshotId(n))]
  /\ base' = [base EXCEPT ![n] = SnapshotId(n)]
  /\ purges' = purges + 1
  /\ UNCHANGED <<service, up, committed, matched, knows, granted, campaigns, crashes,
                 decided, causes>>

\* What n had in memory goes with its process: what it applied and knows of its peers,
\* and the voters, which can be read again only from a log that was never purged.
ForgetVolatile(n, purged) ==
  /\ up' = up \ {n}
  /\ base' = [base EXCEPT ![n] = NoLogId]
  /\ committed' = [committed EXCEPT ![n] = 0]
  /\ matched' = [matched EXCEPT ![n] = NoneMatched]
  /\ granted' = [granted EXCEPT ![n] = {}]
  /\ knows' = IF purged THEN knows \ {n} ELSE knows

\* n stops; sled keeps what was flushed, and some of what was not.
Stop(n) ==
  /\ \E v \in store[n].votes, id \in store[n].purges :
       /\ store' = [store EXCEPT ![n] = Reopen(@, v, id)]
       /\ causes' = causes \cup (IF v = VoteOf(n) THEN {} ELSE {"vote_lost"})
                           \cup (IF id = store[n].last_purged THEN {} ELSE {"purge_lost"})
  /\ ForgetVolatile(n, base[n].index > 0)
  /\ UNCHANGED <<service, campaigns, purges, decided>>

Crash(n) ==
  /\ n \in up
  /\ crashes < MaxCrashes
  /\ crashes' = crashes + 1
  /\ Stop(n)

\* f has not the entry that the leader l purged last, so l is to send its snapshot, and
\* there is none: l's Raft ends with a storage error, and does nothing more until its
\* process, which may lose what was not flushed, has been stopped and started again.
MissingSnapshot(l, f) ==
  /\ Leads(l)
  /\ f # l
  /\ matched[l][f] < base[l].index
  /\ ~ HasLogId(store[f], base[f], committed[f], Request(l, base[l].index).prev_log_id)
  /\ GetCurrentSnapshot = NoLogId
  /\ UNCHANGED crashes
  /\ Stop(l)

\* n, which started with its first entries purged and nothing applied, is to apply them:
\* its Raft ends likewise.
MissingEntries(n) ==
  /\ n \in up \ knows
  /\ committed[n] > 0
  /\ Entries(store[n], {1}) = << >>
  /\ UNCHANGED crashes
  /\ Stop(n)

\* n stops in purge_logs_upto, between the batch and the put of last_purged.
CrashInPurge(n) ==
  /\ n \in up
  /\ crashes < MaxCrashes
  /\ purges < MaxPurges
  /\ base[n].index < committed[n]
  /\ committed[n] \in DOMAIN store[n].tree
  /\ LET s == RemoveUpto(store[n], SnapshotId(n))
     IN  store' = [store EXCEPT ![n] = Reopen(s, s.vote, s.last_purged)]
  /\ purges' = purges + 1
  /\ crashes' = crashes + 1
  /\ causes' = causes \cup {"purge_lost"}
  /\ ForgetVolatile(n, TRUE)
  /\ UNCHANGED <<service, campaigns, decided>>

\* n starts again, with the vote and the log state that its store has.
Restart(n) ==
  /\ n \in Nodes \ up
  /\ up' = up \cup {n}
  /\ base' = [base EXCEPT ![n] =
       IF LastInTree(store[n]) = NoLogId THEN NoLogId ELSE store[n].last_purged]
  /\ causes' = IF DOMAIN store[n].tree = {} /\ store[n].last_purged # NoLogId
               THEN causes \cup {"emptied"} ELSE causes
  /\ UNCHANGED <<service, store, committed, matched, knows, granted, counters,
                 decided>>

Next ==
  \/ \E n \in Nodes : Campaign(n) \/ Elect(n) \/ Propose(n)
  \/ \E c, n \in Nodes : GrantVote(c, n)
  \/ \E l, f \in Nodes, p \in 0..MaxLog, answered \in BOOLEAN :
       p <= Last(l).index /\ Replicate(l, f, p, answered)
  \/ \E l, f \in Nodes : Refuse(l, f) \/ MissingSnapshot(l, f)
  \/ \E n \in Nodes :
       Purge(n) \/ MissingEntries(n) \/ Crash(n) \/ CrashInPurge(n) \/ Restart(n)

Spec == Init /\ [][Next]_vars

-----------------------------------------------------------------------------
(* Properties *)

\* n's log has the decided entry d, or had it and purged it.
Has(n, d) ==
  \/ d.index <= base[n].index
  \/ d.index \in DOMAIN store[n].tree /\ store[n].tree[d.index] = d.entry

\* What the rest of the system takes from Raft: a leader has every entry that was
\* committed under an earlier vote.
LeadersComplete ==
  \A n \in Nodes : Leads(n) =>
    \A d \in decided : LeaderBelow(d.vote, VoteOf(n)) => Has(n, d)

\* No two leaders committed different entries at one index, and what a running node
\* hands to apply_to_state_machine, up to committed[n], are the committed entries: the
\* replicas apply one sequence.
CommitsAgree ==
  /\ \A d, e \in decided : d.index = e.index => d.entry = e.entry
  /\ \A n \in up : \A i \in 1..committed[n] :
       \E d \in decided : d.index = i /\ Has(n, d)

\* A leader without a committed entry, and nodes that apply different entries at one
\* index, are explained by one of the things the store and the wire do to openraft's
\* expectations, and by nothing else: a changed log id (raft-rpc log_id: misjudged,
\* mistaken, dropped), an unflushed put (persist_vote, persist_last_purged), a
\* log state without last_purged (get_log_state).
LossesExplained == causes = {} => LeadersComplete /\ CommitsAgree

\* The DB flushes its vote before it answers: no crash takes a vote back, so a node
\* never supports a leader below one that it supported before.
DbVotesNeverRecede ==
  [][service = "db" => \A n \in Nodes : VoteLeq(VoteOf(n), VoteOf(n)')]_vars

\* A running node has every entry from the one after last_purged to the last one: no
\* append_entries, truncation, purge, storage error or restart leaves a gap, as long as
\* none of the causes above lost an entry or made logs differ.
LogsContiguous ==
  causes = {} => \A n \in up :
    LET s == store[n]
        p == s.last_purged.index
    IN  DOMAIN s.tree = (p + 1)..(p + Cardinality(DOMAIN s.tree))
=============================================================================
