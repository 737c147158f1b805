---------------------------- MODULE MCDbReplica ----------------------------
(* The DB cluster with few index fields and filters.                       *)
EXTENDS DbReplica

MCTicketTrees == <<"status", "account", "project", "assignee">>

MCUserTrees == <<"username">>

MCValue == {0, 1}

\* Open and unassigned, or of another status and assigned.
MCTicketIndex ==
  {[status |-> 0, account |-> 0, project |-> 0, assignee |-> NoValue],
   [status |-> 1, account |-> 0, project |-> 0, assignee |-> 1]}

MCUserIndex == {[username |-> v] : v \in {0, 1}}

NoFilter == [status |-> NoValue, assignee |-> NoValue, account |-> NoValue,
             project |-> NoValue, include_deleted |-> FALSE, limit |-> 0]

\* One for every way to find the candidates, and one that stops at a limit.
MCFilters ==
  {[NoFilter EXCEPT !.status = 0, !.project = 0], [NoFilter EXCEPT !.assignee = 1],
   [NoFilter EXCEPT !.account = 0, !.limit = 1], [NoFilter EXCEPT !.project = 0],
   [NoFilter EXCEPT !.status = 1, !.include_deleted = TRUE], NoFilter}
=============================================================================
