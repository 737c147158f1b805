--------------------------- MODULE MCRaftCluster ---------------------------
(* Small instances of the Raft clusters. *)
EXTENDS RaftCluster

\* RAFT_PEERS names three nodes, the first one not the lowest, and one that is not
\* well formed.
Peers3 == <<[node_id |-> 0, address |-> <<"http">>], [node_id |-> 2, address |-> <<"http">>],
            [node_id |-> 1, address |-> <<"http">>], [node_id |-> 3, address |-> <<"http">>]>>
=============================================================================
