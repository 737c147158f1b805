----------------------------- MODULE DbReplica -----------------------------
(***************************************************************************)
(* The DB cluster: writes go through the Raft log, each node carries out   *)
(* the entries one tree write at a time, and readers look at the trees of  *)
(* one node without any lock, between two of those writes if it so         *)
(* happens.  A node may stop at any write; it starts again with the trees  *)
(* as they are and applies the log from its first entry.                   *)
(*                                                                         *)
(* openraft is external: there is one committed log, it grows while a      *)
(* majority runs, a node applies it in order after the last applied entry  *)
(* that its store reports, and an error from apply stops the node's Raft   *)
(* core for good while its gRPC server goes on answering reads.            *)
(***************************************************************************)
EXTENDS DbStorage

CONSTANTS
  Nodes,       \* the nodes of the DB cluster
  Filters,     \* the queries that readers make
  MaxTicket,   \* bound on the ids that writers name
  MaxLog,      \* bound on the number of committed entries
  MaxCrashes,  \* bound on the number of crashes
  MaxQueries   \* bound on the number of queries

ASSUME ReplicaAssumption ==
  /\ MaxTicket \in Nat
  /\ MaxLog \in Nat
  /\ MaxCrashes \in Nat
  /\ MaxQueries \in Nat
  /\ Filters \subseteq [status : Value \cup {NoValue}, assignee : Value \cup {NoValue},
                       account : Value \cup {NoValue}, project : Value \cup {NoValue},
                       include_deleted : BOOLEAN, limit : Nat]

VARIABLES
  log,       \* the committed log
  hist,      \* history: hist[i + 1] has the rows and the counter after i entries
  run,       \* run[n]: node n is "up", "halted" by an error in apply, or "down"
  store,     \* store[n]: the trees of n in sled
  applied,   \* applied[n]: last_applied_log of n, in memory only
  work,      \* work[n]: what is left of the entry that n is applying
  clean,     \* history: the nodes that never stopped
  crashes,   \* number of crashes so far
  query,     \* the query that a reader is making
  queries    \* number of queries so far

raftVars  == <<log, hist>>
nodeVars  == <<run, store, applied, work, clean, crashes>>
queryVars == <<query, queries>>
vars == <<raftVars, nodeVars, queryVars>>

NoQuery == [pc |-> "idle"]

Stages == {"seq", "unindex", "put", "index"}

TypedRows(rows) ==
  /\ DOMAIN rows \subseteq Key
  /\ \A k \in DOMAIN rows : rows[k] \in Row /\ rows[k].index \in IndexesFor(k)

TypedStore(s) ==
  /\ TypedRows(s.rows)
  /\ s.idx \subseteq STRING \X Value \X Key
  /\ s.seq \in Nat

TypedWork(w) ==
  /\ w \in [stage : Stages, key : Key, old : Index, row : Row, pos : Nat]
  /\ w.old \in IndexesFor(w.key)
  /\ w.row.index \in IndexesFor(w.key)
  /\ w.pos \in 1..Len(Trees(w.key))

TypeOK ==
  /\ log \in Seq(Entry)
  /\ Len(hist) = Len(log) + 1
  /\ run \in [Nodes -> {"up", "halted", "down"}]
  /\ DOMAIN store = Nodes /\ \A n \in Nodes : TypedStore(store[n])
  /\ applied \in [Nodes -> 0..Len(log)]
  /\ DOMAIN work = Nodes /\ \A n \in Nodes : work[n] = NoWork \/ TypedWork(work[n])
  /\ clean \subseteq Nodes
  /\ crashes \in Nat
  /\ queries \in Nat

Init ==
  /\ log = << >>
  /\ hist = <<[rows |-> EmptyStore.rows, seq |-> 0]>>
  /\ run = [n \in Nodes |-> "up"]
  /\ store = [n \in Nodes |-> EmptyStore]
  /\ applied = [n \in Nodes |-> 0]
  /\ work = [n \in Nodes |-> NoWork]
  /\ clean = Nodes
  /\ crashes = 0
  /\ query = NoQuery
  /\ queries = 0

-----------------------------------------------------------------------------
(* Writers. *)

\* Rows and counter after entry e, all writes of it at once; an entry that fails
\* changes nothing.
Effect(d, e) ==
  IF Fails(d.rows, e) THEN d
  ELSE [rows |-> WithRow(d.rows, KeyOf(d.seq, e), NewRow(d.rows, e)),
        seq  |-> IF e.op = "create_ticket" THEN d.seq + 1 ELSE d.seq]

\* client_write: the entry is committed.  No handler looks whether the row exists.
Propose(e) ==
  /\ Len(log) < MaxLog
  /\ 2 * Cardinality({n \in Nodes : run[n] = "up"}) > Cardinality(Nodes)
  /\ log' = Append(log, e)
  /\ hist' = Append(hist, Effect(hist[Len(hist)], e))
  /\ UNCHANGED <<nodeVars, queryVars>>

ProposeCreateTicket == \E index \in TicketIndex : Propose(CreateTicket(index))

\* A ticket_id of 0 is refused.
ProposeUpdateTicket ==
  \E t \in 1..MaxTicket, index \in TicketIndex : Propose(Update(t, index))

\* A ticket_id of 0 is not refused here; it names no row, like any id never handed out.
ProposeSoftDeleteTicket == \E t \in 1..MaxTicket : Propose(SoftDelete(t))

ProposeCreateUser == \E u \in Uuids, index \in UserIndex : Propose(CreateUser(u, index))

ProposeUpdateUser == \E u \in Uuids, index \in UserIndex : Propose(Update(u, index))

ProposeSoftDeleteUser == \E u \in Uuids : Propose(SoftDelete(u))

-----------------------------------------------------------------------------
(* Nodes. *)

\* Rows and counter as the log prescribes them after i entries.
Prescribed(i) == hist[i + 1]

\* While entry i is being applied, a reader at n may see a ticket as before or as
\* after it; the tickets a query asks for throughout are those it asks for in both.
Overlap(n, i) ==
  IF query.pc = "reading" /\ query.node = n
  THEN [query EXCEPT !.asked = @ \cap Answer(Prescribed(i).rows, query.filter),
                     !.touched = @ \cup {KeyOf(store[n].seq, log[i])}]
  ELSE query

\* apply_to_state_machine takes the next entry: last_applied_log is set first, then
\* the entry fails, or its writes begin.
BeginApply(n) ==
  LET i == applied[n] + 1
  IN /\ run[n] = "up"
     /\ work[n] = NoWork
     /\ i <= Len(log)
     /\ applied' = [applied EXCEPT ![n] = i]
     /\ query' = Overlap(n, i)
     /\ \/ /\ Fails(store[n].rows, log[i])
           /\ run' = [run EXCEPT ![n] = "halted"]
           /\ UNCHANGED work
        \/ /\ ~ Fails(store[n].rows, log[i])
           /\ work' = [work EXCEPT ![n] = Begin(store[n], log[i])]
           /\ UNCHANGED run
     /\ UNCHANGED <<raftVars, store, clean, crashes, queries>>

\* One write to one tree, flushed.
Write(n) ==
  /\ run[n] = "up"
  /\ work[n] # NoWork
  /\ store' = [store EXCEPT ![n] = WriteStore(@, work[n])]
  /\ work' = [work EXCEPT ![n] = AfterWrite(@)]
  /\ UNCHANGED <<raftVars, run, applied, clean, crashes, queryVars>>

\* The process of n ends, between two writes at the most; its readers get an error.
Crash(n) ==
  /\ run[n] # "down"
  /\ crashes < MaxCrashes
  /\ crashes' = crashes + 1
  /\ run' = [run EXCEPT ![n] = "down"]
  /\ work' = [work EXCEPT ![n] = NoWork]
  /\ clean' = clean \ {n}
  /\ query' = IF query.pc # "idle" /\ query.node = n THEN NoQuery ELSE query
  /\ UNCHANGED <<raftVars, store, applied, queries>>

\* DbStore::new: the trees as they are, last_applied_log from None.
Restart(n) ==
  /\ run[n] = "down"
  /\ run' = [run EXCEPT ![n] = "up"]
  /\ applied' = [applied EXCEPT ![n] = 0]
  /\ UNCHANGED <<raftVars, store, work, clean, crashes, queryVars>>

-----------------------------------------------------------------------------
(* Readers: query_tickets. *)

\* The candidates are collected in one scan ...
QueryScan(n, f) ==
  /\ run[n] # "down"
  /\ query.pc # "reading"
  /\ queries < MaxQueries
  /\ queries' = queries + 1
  /\ query' =
       [pc |-> "reading", node |-> n, filter |-> f, out |-> {},
        left |-> Candidates(store[n], f),
        asked |-> Answer(Prescribed(applied[n]).rows, f) \cap
                    (IF work[n] = NoWork THEN Ids
                     ELSE Answer(Prescribed(applied[n] - 1).rows, f)),
        touched |-> IF work[n] = NoWork THEN {} ELSE {work[n].key}]
  /\ UNCHANGED <<raftVars, nodeVars>>

\* ... and their rows are read one by one, in the order of the ids, until the limit.
QueryRead ==
  /\ query.pc = "reading"
  /\ query.left # {}
  /\ LET k == CHOOSE x \in query.left : \A y \in query.left : x <= y
         f == query.filter
         rows == store[query.node].rows
         hit == k \in DOMAIN rows /\ Visible(rows[k], f) /\ Matches(rows[k], f)
         out == IF hit THEN query.out \cup {k} ELSE query.out
     IN query' = [query EXCEPT
          !.out = out,
          !.left = IF hit /\ f.limit > 0 /\ Cardinality(out) >= f.limit
                   THEN {} ELSE @ \ {k}]
  /\ UNCHANGED <<raftVars, nodeVars, queries>>

QueryReturn ==
  /\ query.pc = "reading"
  /\ query.left = {}
  /\ query' = [query EXCEPT !.pc = "done"]
  /\ UNCHANGED <<raftVars, nodeVars, queries>>

-----------------------------------------------------------------------------
Writers ==
  \/ ProposeCreateTicket \/ ProposeUpdateTicket \/ ProposeSoftDeleteTicket
  \/ ProposeCreateUser \/ ProposeUpdateUser \/ ProposeSoftDeleteUser

Readers == QueryRead \/ QueryReturn \/ \E n \in Nodes, f \in Filters : QueryScan(n, f)

Next ==
  \/ Writers
  \/ Readers
  \/ \E n \in Nodes : BeginApply(n) \/ Write(n) \/ Crash(n) \/ Restart(n)

Spec == Init /\ [][Next]_vars

-----------------------------------------------------------------------------
\* A node that never stopped, between two entries, has the rows and the counter
\* that the log prescribes; every active row is in all its index trees, and the
\* ticket trees hold nothing else.  (A user that is created over an existing one
\* leaves the entries of its old index fields behind.)
NodesFollowLog ==
  \A n \in clean : work[n] = NoWork =>
    /\ store[n].rows = Prescribed(applied[n]).rows
    /\ store[n].seq = Prescribed(applied[n]).seq
    /\ IndexOf(store[n].rows) \subseteq store[n].idx
    /\ {x \in store[n].idx : x[3] \in Ids} \subseteq IndexOf(store[n].rows)

\* A ticket that is marked deleted on a node stays so, through updates that race
\* the deletion, crashes between two writes, and replays: no counter that a crash
\* left ahead or behind makes a creation reuse its id.
TicketsStayDeleted ==
  [][\A n \in Nodes : \A t \in DOMAIN store[n].rows \cap Ids :
       store[n].rows[t].deleted =>
         t \in DOMAIN store'[n].rows /\ store'[n].rows[t].deleted]_vars

\* A node that never stopped is halted only by an entry that names a row the log
\* itself does not have; then every other such node halts there, too.
HaltsExplained ==
  \A n \in clean : run[n] = "halted" =>
    Fails(Prescribed(applied[n] - 1).rows, log[applied[n]])

\* A query at a node that never stopped returns every ticket that it asks for and
\* that was not written meanwhile, though it scans an index and then reads the
\* rows one by one while entries are applied; a limit cuts off the highest ids.
QueriesComplete ==
  (query.pc = "done" /\ query.node \in clean) =>
    \A t \in (query.asked \ query.touched) \ query.out :
      /\ query.filter.limit > 0
      /\ Cardinality(query.out) = query.filter.limit
      /\ \A x \in query.out : x < t
=============================================================================
