----------------------------- MODULE DbStorage -----------------------------
(***************************************************************************)
(* The DB service's storage: rows of tickets and users with plaintext      *)
(* index fields, the secondary index trees, the id counter, and the single *)
(* tree writes that a log entry is carried out by.                         *)
(*                                                                         *)
(* Tickets are keyed by the ids that next_id hands out, users by their     *)
(* uuid.  A row's encrypted body and its deletion time travel with its     *)
(* index fields and are not told apart from them.                          *)
(***************************************************************************)
EXTENDS Integers, Sequences, FiniteSets

CONSTANTS
  TicketTrees,  \* the index trees of tickets, in the order of ticket_index_entries
  UserTrees,    \* the index trees of users, in the order of user_index_entries
  Value,        \* the values of index fields
  NoValue,      \* an optional index field that is absent
  TicketIndex,  \* the index fields that tickets are written with
  UserIndex,    \* the index fields that users are written with
  Uuids         \* the users

TreesOf(trees) == {trees[p] : p \in 1..Len(trees)}

ASSUME StorageAssumption ==
  /\ TicketTrees \in Seq(STRING) \ {<< >>}
  /\ UserTrees \in Seq(STRING) \ {<< >>}
  /\ \A p, q \in 1..Len(TicketTrees) : TicketTrees[p] = TicketTrees[q] => p = q
  /\ \A p, q \in 1..Len(UserTrees) : UserTrees[p] = UserTrees[q] => p = q
  /\ TicketIndex \subseteq [TreesOf(TicketTrees) -> Value \cup {NoValue}]
  /\ UserIndex \subseteq [TreesOf(UserTrees) -> Value \cup {NoValue}]
  /\ Uuids \cap Nat = {}
  /\ {"status", "assignee", "account", "project"} \subseteq TreesOf(TicketTrees)
  /\ TreesOf(TicketTrees) \cap TreesOf(UserTrees) = {}

Ids == Nat \ {0}

Key == Ids \cup Uuids

Index == TicketIndex \cup UserIndex

\* StoredTicket and StoredUser.
Row == [index : Index, deleted : BOOLEAN]

Trees(k) == IF k \in Uuids THEN UserTrees ELSE TicketTrees

IndexesFor(k) == IF k \in Uuids THEN UserIndex ELSE TicketIndex

\* The rows by key, the entries <<tree, value, key>> of all index trees, and the
\* id handed out last.
EmptyStore == [rows |-> [k \in {} |-> NoValue], idx |-> {}, seq |-> 0]

WithRow(rows, k, row) == [x \in DOMAIN rows \cup {k} |-> IF x = k THEN row ELSE rows[x]]

-----------------------------------------------------------------------------
(* Log entries. *)

CreateTicket(index) == [op |-> "create_ticket", index |-> index]
CreateUser(u, index) == [op |-> "create_user", key |-> u, index |-> index]
Update(k, index) == [op |-> "update", key |-> k, index |-> index]
SoftDelete(k) == [op |-> "soft_delete", key |-> k]

Entry ==
  [op : {"create_ticket"}, index : TicketIndex]
    \cup [op : {"create_user", "update"}, key : Uuids, index : UserIndex]
    \cup [op : {"update"}, key : Ids, index : TicketIndex]
    \cup [op : {"soft_delete"}, key : Key]

\* The row an entry is about; a creation of a ticket allocates its key.
KeyOf(seq, e) == IF e.op = "create_ticket" THEN seq + 1 ELSE e.key

\* Updates and deletions of a row that does not exist end in an error.
Fails(rows, e) == e.op \in {"update", "soft_delete"} /\ e.key \notin DOMAIN rows

\* Variant: an update writes the row as an active one.
NewRowReviving(rows, e) ==
  CASE e.op = "soft_delete" -> [rows[e.key] EXCEPT !.deleted = TRUE]
    [] OTHER -> [index |-> e.index, deleted |-> FALSE]

\* The row that the entry writes.  An update keeps the mark of deletion; a
\* creation starts unmarked, even over a user that exists.
NewRow(rows, e) ==
  CASE e.op = "update" -> [index |-> e.index, deleted |-> rows[e.key].deleted]
    [] e.op = "soft_delete" -> [rows[e.key] EXCEPT !.deleted = TRUE]
    [] OTHER -> [index |-> e.index, deleted |-> FALSE]

-----------------------------------------------------------------------------
(* The writes of one entry.  Each goes to one tree and is flushed: old index *)
(* entries are removed tree by tree, the row is put, new index entries are   *)
(* inserted tree by tree.                                                    *)

NoWork == [stage |-> "none"]

Work(stage, k, old, row, p) ==
  [stage |-> stage, key |-> k, old |-> old, row |-> row, pos |-> p]

\* Variant: the index entries of an updated row are left where they are.
BeginKeepingIndex(s, e) ==
  LET k == KeyOf(s.seq, e)
      row == NewRow(s.rows, e)
  IN Work(IF e.op = "create_ticket" THEN "seq" ELSE "put", k, row.index, row, 1)

\* What apply sets out to do with entry e on store s.
Begin(s, e) ==
  LET k == KeyOf(s.seq, e)
      row == NewRow(s.rows, e)
      old == IF e.op \in {"update", "soft_delete"} THEN s.rows[k].index ELSE row.index
  IN CASE e.op = "create_ticket" -> Work("seq", k, old, row, 1)
       [] e.op = "create_user" -> Work("put", k, old, row, 1)
       [] OTHER -> Work(IF s.rows[k].deleted THEN "put" ELSE "unindex", k, old, row, 1)

\* The index entry of fields `index` in the tree at position p, if the field is set.
IndexEntry(k, index, p) ==
  LET tree == Trees(k)[p]
  IN IF index[tree] = NoValue THEN {} ELSE {<<tree, index[tree], k>>}

\* All index entries of fields `index`.
IndexEntries(k, index) == UNION {IndexEntry(k, index, p) : p \in 1..Len(Trees(k))}

\* The index entries that rows call for: those of every row that is not deleted.
IndexOf(rows) ==
  UNION {IndexEntries(k, rows[k].index) : k \in {x \in DOMAIN rows : ~ rows[x].deleted}}

\* Variant: the row of a deleted entity is taken out of its tree.
WriteStoreDroppingDeleted(s, w) ==
  CASE w.stage = "seq" -> [s EXCEPT !.seq = @ + 1]
    [] w.stage = "unindex" -> [s EXCEPT !.idx = @ \ IndexEntry(w.key, w.old, w.pos)]
    [] w.stage = "put" ->
         [s EXCEPT !.rows = IF w.row.deleted
                            THEN [k \in DOMAIN @ \ {w.key} |-> @[k]]
                            ELSE WithRow(@, w.key, w.row)]
    [] OTHER -> [s EXCEPT !.idx = @ \cup IndexEntry(w.key, w.row.index, w.pos)]

\* The store after the next write of w.
WriteStore(s, w) ==
  CASE w.stage = "seq" -> [s EXCEPT !.seq = @ + 1]
    [] w.stage = "unindex" -> [s EXCEPT !.idx = @ \ IndexEntry(w.key, w.old, w.pos)]
    [] w.stage = "put" -> [s EXCEPT !.rows = WithRow(@, w.key, w.row)]
    [] OTHER -> [s EXCEPT !.idx = @ \cup IndexEntry(w.key, w.row.index, w.pos)]

MoveTo(w, stage, p) == Work(stage, w.key, w.old, w.row, p)

\* Variant: the position runs past the last tree.
AfterWritePastEnd(w) ==
  LET last == w.pos > Len(Trees(w.key))
  IN CASE w.stage = "seq" -> MoveTo(w, "put", 1)
       [] w.stage = "unindex" ->
            IF last THEN MoveTo(w, "put", 1) ELSE MoveTo(w, "unindex", w.pos + 1)
       [] w.stage = "put" -> IF w.row.deleted THEN NoWork ELSE MoveTo(w, "index", 1)
       [] OTHER -> IF last THEN NoWork ELSE MoveTo(w, "index", w.pos + 1)

\* What is left to do after that write.
AfterWrite(w) ==
  LET last == w.pos = Len(Trees(w.key))
  IN CASE w.stage = "seq" -> MoveTo(w, "put", 1)
       [] w.stage = "unindex" ->
            IF last THEN MoveTo(w, "put", 1) ELSE MoveTo(w, "unindex", w.pos + 1)
       [] w.stage = "put" -> IF w.row.deleted THEN NoWork ELSE MoveTo(w, "index", 1)
       [] OTHER -> IF last THEN NoWork ELSE MoveTo(w, "index", w.pos + 1)

-----------------------------------------------------------------------------
(* Reads. *)

\* A filter of query_tickets: NoValue is any value, limit 0 is no limit.
Matches(row, f) ==
  \A field \in {"status", "assignee", "account", "project"} :
    f[field] # NoValue => row.index[field] = f[field]

\* get_ticket shows a deleted row only on request.
Visible(row, f) == f.include_deleted \/ ~ row.deleted

ScanIndexIds(s, tree, v) == {x[3] : x \in {y \in s.idx : y[1] = tree /\ y[2] = v}}

AllTicketIds(s) == DOMAIN s.rows \cap Ids

\* Variant: deleted rows are looked for in the indexes, too.
CandidatesByIndexOnly(s, f) ==
  IF f.status # NoValue THEN ScanIndexIds(s, "status", f.status)
  ELSE IF f.assignee # NoValue THEN ScanIndexIds(s, "assignee", f.assignee)
  ELSE IF f.account # NoValue THEN ScanIndexIds(s, "account", f.account)
  ELSE IF f.project # NoValue THEN ScanIndexIds(s, "project", f.project)
  ELSE AllTicketIds(s)

\* The ids that query_tickets goes through: by the first field that is set, or all.
Candidates(s, f) ==
  IF f.include_deleted THEN AllTicketIds(s)
  ELSE IF f.status # NoValue THEN ScanIndexIds(s, "status", f.status)
  ELSE IF f.assignee # NoValue THEN ScanIndexIds(s, "assignee", f.assignee)
  ELSE IF f.account # NoValue THEN ScanIndexIds(s, "account", f.account)
  ELSE IF f.project # NoValue THEN ScanIndexIds(s, "project", f.project)
  ELSE AllTicketIds(s)

\* The tickets that a filter asks for, by the rows alone.
Answer(rows, f) ==
  {k \in DOMAIN rows \cap Ids : Visible(rows[k], f) /\ Matches(rows[k], f)}
=============================================================================
