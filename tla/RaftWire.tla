------------------------------ MODULE RaftWire ------------------------------
(***************************************************************************)
(* What happens to openraft's types on the way from one node to another:   *)
(* the shared raft-rpc crate.  A log id on the wire has only a term and an *)
(* index; the receiver takes the node id from the vote that came with it,  *)
(* so an id that was written by another leader changes on the way.         *)
(***************************************************************************)
EXTENDS Naturals

\* openraft's Option<LogId>: entries have indexes from 1 here, index 0 is None.
LogId   == [term : Nat, node : Nat, index : Nat]
NoLogId == [term |-> 0, node |-> 0, index |-> 0]

Vote   == [term : Nat, node : Nat, committed : BOOLEAN]
NoVote == [term |-> 0, node |-> 0, committed |-> FALSE]

\* Leader ids are ordered by term, then by node.
LeaderBelow(a, b) == a.term < b.term \/ (a.term = b.term /\ a.node < b.node)

SameLeader(a, b) == a.term = b.term /\ a.node = b.node

\* Log ids are ordered by leader first, by index second.
LogIdLeq(a, b) == LeaderBelow(a, b) \/ (SameLeader(a, b) /\ a.index <= b.index)

\* Votes are ordered by leader; a committed vote is above an uncommitted one.
VoteLeq(a, b) == LeaderBelow(a, b) \/ (SameLeader(a, b) /\ (a.committed => b.committed))

-----------------------------------------------------------------------------
\* The parts of a log id that travel.
LogIdParts(id) == [term |-> id.term, index |-> id.index]

\* The log id that the receiver makes of them; None stays None.
LogIdFrom(parts, node) ==
  IF parts.index = 0 THEN NoLogId
  ELSE [term |-> parts.term, node |-> node, index |-> parts.index]

VoteRequest(wire) ==
  [vote |-> wire.vote, last_log_id |-> LogIdFrom(wire.last_log_id, wire.vote.node)]

\* Entries are opaque bytes and arrive as they were sent.
AppendRequest(wire) ==
  [vote |-> wire.vote,
   prev_log_id |-> LogIdFrom(wire.prev_log_id, wire.vote.node),
   entries |-> wire.entries,
   leader_commit |-> LogIdFrom(wire.leader_commit, wire.vote.node)]

\* The outcome of append_entries as a code, with the leader's vote echoed; openraft's
\* followers do not answer with a PartialSuccess ...
ClassifyAppendResponse(resp, echoed) ==
  CASE resp.outcome = "Success"        -> [code |-> 0, vote |-> echoed]
    [] resp.outcome = "PartialSuccess" -> [code |-> 1, vote |-> echoed,
                                           matching |-> LogIdParts(resp.matching)]
    [] resp.outcome = "Conflict"       -> [code |-> 2, vote |-> echoed]
    [] resp.outcome = "HigherVote"     -> [code |-> 3, vote |-> resp.vote]

\* Variant: a conflict is taken for a success.
AppendResponseLenient(wire) ==
  CASE wire.code \in {0, 2} -> [outcome |-> "Success"]
    [] wire.code = 3 -> [outcome |-> "HigherVote", vote |-> wire.vote]

\* ... and what the leader makes of it.
AppendResponseFromWire(wire) ==
  CASE wire.code = 0 -> [outcome |-> "Success"]
    [] wire.code = 1 -> [outcome |-> "PartialSuccess",
                         matching |-> LogIdFrom(wire.matching, wire.vote.node)]
    [] wire.code = 2 -> [outcome |-> "Conflict"]
    [] wire.code = 3 -> [outcome |-> "HigherVote", vote |-> wire.vote]
=============================================================================
