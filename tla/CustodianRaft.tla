--------------------------- MODULE CustodianRaft ---------------------------
(***************************************************************************)
(* The custodian's half of openraft: its log store over sled, and its      *)
(* client and server of the Raft RPCs.  Single puts are not flushed; the   *)
(* log batches are, and a flush makes everything before it durable.        *)
(*                                                                         *)
(* A store is a record: vote and last_purged as RaftMetadata caches them,  *)
(* the tree of entries by index, and the values of the two metadata keys   *)
(* that a crash may leave on disk.                                         *)
(***************************************************************************)
EXTENDS RaftWire, Integers, Sequences, Functions

\* parse_peer_configs: peers without an address or without an id are left out.  The
\* result is the positions of the others in RAFT_PEERS.
ParsePeerConfigs(peers) ==
  {i \in DOMAIN peers : peers[i].node_id # 0 /\ peers[i].address # << >>}

\* The first peer initializes the cluster.
ShouldInitializeCluster(n, peers) ==
  \E i \in ParsePeerConfigs(peers) :
    n = peers[i].node_id /\ \A j \in ParsePeerConfigs(peers) : i <= j

\* CustodianStore::new on an empty directory.
NewStore ==
  [vote |-> NoVote, votes |-> {NoVote}, tree |-> << >>,
   last_purged |-> NoLogId, purges |-> {NoLogId}]

\* RaftMetadata::new: the caches are read back from what the disk kept.
Reopen(s, vote, purged) ==
  [s EXCEPT !.vote = vote, !.votes = {vote}, !.last_purged = purged, !.purges = {purged}]

\* A flush of the log tree.
Flush(s, tree) ==
  [s EXCEPT !.tree = tree, !.votes = {s.vote}, !.purges = {s.last_purged}]

\* save_vote: cached, and put without a flush.
SaveVote(s, vote) == [s EXCEPT !.vote = vote, !.votes = @ \cup {vote}]

\* Variant: entries are keyed by their position, counted from 0.
AppendToLogFromZero(s, entries) ==
  Flush(s, [i \in DOMAIN s.tree \cup {j - 1 : j \in DOMAIN entries} |->
              IF i + 1 \in DOMAIN entries THEN entries[i + 1] ELSE s.tree[i]])

\* append_to_log: one batch, flushed.  An entry is the id of the leader that wrote it.
AppendToLog(s, entries) ==
  Flush(s, [i \in DOMAIN s.tree \cup DOMAIN entries |->
              IF i \in DOMAIN entries THEN entries[i] ELSE s.tree[i]])

\* delete_conflict_logs_since: the entry at the index goes too.
DeleteConflictLogsSince(s, index) ==
  Flush(s, Restrict(s.tree, {i \in DOMAIN s.tree : i < index}))

\* Variant: the entry at the index stays.
RemoveBelow(s, id) == Flush(s, Restrict(s.tree, {i \in DOMAIN s.tree : i >= id.index}))

\* purge_logs_upto removes the entries in a flushed batch ...
RemoveUpto(s, id) == Flush(s, Restrict(s.tree, {i \in DOMAIN s.tree : i > id.index}))

\* ... and then puts last_purged, which is not flushed.
PurgeLogsUpto(s, id) ==
  LET r == RemoveUpto(s, id)
  IN  [r EXCEPT !.last_purged = id, !.purges = @ \cup {id}]

\* try_get_log_entries: the entries of the tree in a range of indexes.
TryGetLogEntries(s, range) == Restrict(s.tree, DOMAIN s.tree \cap range)

\* get_log_state: the last entry of the tree, None when it holds none.
LastInTree(s) ==
  IF DOMAIN s.tree = {} THEN NoLogId
  ELSE LET i == CHOOSE i \in DOMAIN s.tree : \A j \in DOMAIN s.tree : j <= i
       IN  [term |-> s.tree[i].term, node |-> s.tree[i].node, index |-> i]

\* get_current_snapshot: None, whatever build_snapshot built.
GetCurrentSnapshot == NoLogId

-----------------------------------------------------------------------------
(* CustodianNetwork makes the wire form of each request, RaftServiceImpl   *)
(* hands what it decodes to the local Raft.                                *)

SendVote(rpc) == [vote |-> rpc.vote, last_log_id |-> LogIdParts(rpc.last_log_id)]

ReceiveVote(wire) == VoteRequest(wire)

SendAppend(rpc) ==
  [vote |-> rpc.vote, prev_log_id |-> LogIdParts(rpc.prev_log_id),
   entries |-> rpc.entries, leader_commit |-> LogIdParts(rpc.leader_commit)]

ReceiveAppend(wire) == AppendRequest(wire)

\* The answer, sent by the server and read by the client.
AnswerAppend(resp, echoed) == AppendResponseFromWire(ClassifyAppendResponse(resp, echoed))
=============================================================================
