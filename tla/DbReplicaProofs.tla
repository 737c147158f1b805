-------------------------- MODULE DbReplicaProofs --------------------------
(***************************************************************************)
(* Theorems about the DB cluster, for any index trees, fields, filters and *)
(* bounds.  The argument is local to a node: what holds of its store and   *)
(* of the work it has left is stated as predicates on the two, kept by the *)
(* start of an entry and by every single write.                            *)
(***************************************************************************)
EXTENDS DbReplica, FiniteSetTheorems, WellFoundedInduction, TLAPS

RowMap == UNION {[D -> Row] : D \in SUBSET Key}

Store == [rows : RowMap, idx : SUBSET (STRING \X Value \X Key), seq : Nat]

\* A store whose rows have the fields of their kind.
GoodStore(s) ==
  s \in Store /\ \A k \in DOMAIN s.rows : s.rows[k].index \in IndexesFor(k)

-----------------------------------------------------------------------------
(* Rows and index entries. *)

\* A map of rows is a function on keys, with rows for values.
LEMMA RowMapFacts ==
  ASSUME NEW rows \in RowMap
  PROVE  /\ DOMAIN rows \subseteq Key
         /\ \A k \in DOMAIN rows : rows[k] \in Row
         /\ rows = [k \in DOMAIN rows |-> rows[k]]
<1>1. PICK D \in SUBSET Key : rows \in [D -> Row]
  BY DEF RowMap
<1> QED BY <1>1

\* Putting a row gives a map of rows that differs at its key only.
LEMMA WithRowFacts ==
  \A rows \in RowMap, k \in Key, row \in Row :
    /\ WithRow(rows, k, row) \in RowMap
    /\ \A x : x \in DOMAIN WithRow(rows, k, row) <=> x \in DOMAIN rows \/ x = k
    /\ \A x \in DOMAIN WithRow(rows, k, row) :
         WithRow(rows, k, row)[x] = IF x = k THEN row ELSE rows[x]
<1> SUFFICES ASSUME NEW rows \in RowMap, NEW k \in Key, NEW row \in Row
             PROVE  /\ WithRow(rows, k, row) \in RowMap
                    /\ \A x : x \in DOMAIN WithRow(rows, k, row) <=> x \in DOMAIN rows \/ x = k
                    /\ \A x \in DOMAIN WithRow(rows, k, row) :
                         WithRow(rows, k, row)[x] = IF x = k THEN row ELSE rows[x]
  OBVIOUS
<1> DEFINE D == DOMAIN rows \cup {k}
<1>1. D \in SUBSET Key /\ \A x \in DOMAIN rows : rows[x] \in Row
  BY RowMapFacts
<1>2. WithRow(rows, k, row) \in [D -> Row]
  BY <1>1 DEF WithRow
<1>3. WithRow(rows, k, row) \in RowMap
  BY <1>1, <1>2 DEF RowMap
<1> QED BY <1>3 DEF WithRow

\* Every kind of row has at least one index tree, and no tree twice.
LEMMA TreesFacts ==
  ASSUME NEW k \in Key
  PROVE  /\ Len(Trees(k)) \in Nat \ {0}
         /\ \A p \in 1..Len(Trees(k)) : Trees(k)[p] \in STRING
         /\ \A p, q \in 1..Len(Trees(k)) : Trees(k)[p] = Trees(k)[q] => p = q
         /\ IndexesFor(k) \subseteq Index
         /\ \A index \in IndexesFor(k), p \in 1..Len(Trees(k)) :
              index[Trees(k)[p]] \in Value \cup {NoValue}
<1>1. CASE k \in Uuids
  <2>1. Trees(k) = UserTrees /\ IndexesFor(k) = UserIndex
    BY <1>1 DEF Trees, IndexesFor
  <2>2. Len(UserTrees) \in Nat \ {0}
    BY StorageAssumption
  <2>3. \A p \in 1..Len(UserTrees) : UserTrees[p] \in TreesOf(UserTrees)
    BY DEF TreesOf
  <2> QED BY <2>1, <2>2, <2>3, StorageAssumption DEF Index
<1>2. CASE k \notin Uuids
  <2>1. Trees(k) = TicketTrees /\ IndexesFor(k) = TicketIndex
    BY <1>2 DEF Trees, IndexesFor
  <2>2. Len(TicketTrees) \in Nat \ {0}
    BY StorageAssumption
  <2>3. \A p \in 1..Len(TicketTrees) : TicketTrees[p] \in TreesOf(TicketTrees)
    BY DEF TreesOf
  <2> QED BY <2>1, <2>2, <2>3, StorageAssumption DEF Index
<1> QED BY <1>1, <1>2

\* An index entry names the key it is for.
LEMMA IndexEntryFacts ==
  ASSUME NEW k \in Key, NEW index \in IndexesFor(k), NEW p \in 1..Len(Trees(k))
  PROVE  /\ IndexEntry(k, index, p) \subseteq STRING \X Value \X Key
         /\ \A x \in IndexEntry(k, index, p) : x[3] = k
BY TreesFacts DEF IndexEntry

\* What an entry has to hold on to: its key and its row have the fields of their kind.
LEMMA EntryFacts ==
  ASSUME NEW s, GoodStore(s), NEW e \in Entry, ~ Fails(s.rows, e)
  PROVE  /\ KeyOf(s.seq, e) \in Key
         /\ NewRow(s.rows, e) \in Row
         /\ NewRow(s.rows, e).index \in IndexesFor(KeyOf(s.seq, e))
         /\ e.op \in {"update", "soft_delete"} =>
              /\ KeyOf(s.seq, e) = e.key
              /\ e.key \in DOMAIN s.rows
              /\ s.rows[e.key] \in Row
              /\ s.rows[e.key].deleted => NewRow(s.rows, e).deleted
         /\ e.op = "soft_delete" => NewRow(s.rows, e).deleted
         /\ e.op = "create_ticket" => KeyOf(s.seq, e) = s.seq + 1
         /\ e.op = "create_user" => KeyOf(s.seq, e) = e.key /\ e.key \in Uuids
         /\ e.op \in {"create_ticket", "create_user", "update", "soft_delete"}
<1>1. s.rows \in RowMap /\ s.seq \in Nat
  BY DEF GoodStore, Store
<1>2. \A k \in DOMAIN s.rows : s.rows[k] \in Row /\ s.rows[k].index \in IndexesFor(k)
  BY <1>1, RowMapFacts DEF GoodStore
<1>3. \A k \in Ids : k \notin Uuids
  BY StorageAssumption DEF Ids
<1>4. CASE e \in [op : {"create_ticket"}, index : TicketIndex]
  BY <1>1, <1>3, <1>4 DEF KeyOf, NewRow, Row, Index, IndexesFor, Key, Ids
<1>5. CASE e \in [op : {"create_user", "update"}, key : Uuids, index : UserIndex]
  BY <1>1, <1>2, <1>5 DEF KeyOf, NewRow, Row, Index, IndexesFor, Key, Fails
<1>6. CASE e \in [op : {"update"}, key : Ids, index : TicketIndex]
  BY <1>1, <1>2, <1>3, <1>6 DEF KeyOf, NewRow, Row, Index, IndexesFor, Key, Fails
<1>7. CASE e \in [op : {"soft_delete"}, key : Key]
  BY <1>1, <1>2, <1>7 DEF KeyOf, NewRow, Row, Fails
<1> QED BY <1>4, <1>5, <1>6, <1>7 DEF Entry

\* How the work on an entry begins.
LEMMA BeginFacts ==
  ASSUME NEW s, GoodStore(s), NEW e \in Entry, ~ Fails(s.rows, e)
  PROVE  LET w == Begin(s, e)
         IN /\ TypedWork(w)
            /\ w.key = KeyOf(s.seq, e)
            /\ w.row = NewRow(s.rows, e)
            /\ w.pos = 1
            /\ w.stage = "seq" <=> e.op = "create_ticket"
            /\ w.stage = "unindex" => /\ e.op \in {"update", "soft_delete"}
                                      /\ ~ s.rows[w.key].deleted
                                      /\ w.old = s.rows[w.key].index
            /\ w.stage = "put" =>
                 \/ e.op = "create_user"
                 \/ e.op \in {"update", "soft_delete"} /\ s.rows[w.key].deleted
            /\ w.stage # "index"
<1> DEFINE k == KeyOf(s.seq, e)
           row == NewRow(s.rows, e)
           old == IF e.op \in {"update", "soft_delete"} THEN s.rows[k].index ELSE row.index
<1>1. k \in Key /\ row \in Row /\ row.index \in IndexesFor(k)
  BY EntryFacts
<1>2. old \in IndexesFor(k)
  BY <1>1, EntryFacts DEF GoodStore
<1>3. 1 \in 1..Len(Trees(k))
  BY <1>1, TreesFacts
<1>4. \A st \in Stages : TypedWork(Work(st, k, old, row, 1))
  BY <1>1, <1>2, <1>3, TreesFacts DEF TypedWork, Work
<1> HIDE DEF k, row, old
<1>5. e.op \in {"create_ticket", "create_user", "update", "soft_delete"}
  BY EntryFacts
<1>6. Begin(s, e) =
        CASE e.op = "create_ticket" -> Work("seq", k, old, row, 1)
          [] e.op = "create_user" -> Work("put", k, old, row, 1)
          [] OTHER -> Work(IF s.rows[k].deleted THEN "put" ELSE "unindex", k, old, row, 1)
  BY DEF Begin, k, row, old
<1>7. CASE e.op = "create_ticket"
  BY <1>4, <1>6, <1>7 DEF k, row, Work, Stages
<1>8. CASE e.op = "create_user"
  BY <1>4, <1>6, <1>8 DEF k, row, Work, Stages
<1>9. CASE e.op \in {"update", "soft_delete"}
  BY <1>4, <1>6, <1>9 DEF k, row, old, Work, Stages
<1> QED BY <1>5, <1>7, <1>8, <1>9

-----------------------------------------------------------------------------
(* Types. *)

\* The write of the counter.
LEMMA WriteSeq ==
  ASSUME NEW s, GoodStore(s), NEW w, TypedWork(w), w.stage = "seq"
  PROVE  /\ WriteStore(s, w) = [rows |-> s.rows, idx |-> s.idx, seq |-> s.seq + 1]
         /\ AfterWrite(w) =
              Work("put", w.key, w.old, w.row, 1)
<1>1. s = [rows |-> s.rows, idx |-> s.idx, seq |-> s.seq]
  BY DEF GoodStore, Store
<1>2. WriteStore(s, w) = [rows |-> s.rows, idx |-> s.idx, seq |-> s.seq + 1]
  BY <1>1 DEF WriteStore
<1>3. AfterWrite(w) =
        Work("put", w.key, w.old, w.row, 1)
  BY DEF AfterWrite, MoveTo
<1> QED BY <1>2, <1>3

\* The removal of one old index entry.
LEMMA WriteUnindex ==
  ASSUME NEW s, GoodStore(s), NEW w, TypedWork(w), w.stage = "unindex"
  PROVE  /\ WriteStore(s, w) = [rows |-> s.rows, idx |-> s.idx \ IndexEntry(w.key, w.old, w.pos), seq |-> s.seq]
         /\ AfterWrite(w) =
              IF w.pos = Len(Trees(w.key)) THEN Work("put", w.key, w.old, w.row, 1)
              ELSE Work("unindex", w.key, w.old, w.row, w.pos + 1)
<1>1. s = [rows |-> s.rows, idx |-> s.idx, seq |-> s.seq]
  BY DEF GoodStore, Store
<1>2. WriteStore(s, w) = [rows |-> s.rows, idx |-> s.idx \ IndexEntry(w.key, w.old, w.pos), seq |-> s.seq]
  BY <1>1 DEF WriteStore
<1>3. AfterWrite(w) =
        IF w.pos = Len(Trees(w.key)) THEN Work("put", w.key, w.old, w.row, 1)
              ELSE Work("unindex", w.key, w.old, w.row, w.pos + 1)
  BY DEF AfterWrite, MoveTo
<1> QED BY <1>2, <1>3

\* The write of the row.
LEMMA WritePut ==
  ASSUME NEW s, GoodStore(s), NEW w, TypedWork(w), w.stage = "put"
  PROVE  /\ WriteStore(s, w) = [rows |-> WithRow(s.rows, w.key, w.row), idx |-> s.idx, seq |-> s.seq]
         /\ AfterWrite(w) =
              IF w.row.deleted THEN NoWork ELSE Work("index", w.key, w.old, w.row, 1)
<1>1. s = [rows |-> s.rows, idx |-> s.idx, seq |-> s.seq]
  BY DEF GoodStore, Store
<1>2. WriteStore(s, w) = [rows |-> WithRow(s.rows, w.key, w.row), idx |-> s.idx, seq |-> s.seq]
  BY <1>1 DEF WriteStore
<1>3. AfterWrite(w) =
        IF w.row.deleted THEN NoWork ELSE Work("index", w.key, w.old, w.row, 1)
  BY DEF AfterWrite, MoveTo
<1> QED BY <1>2, <1>3

\* The insertion of one new index entry.
LEMMA WriteIndex ==
  ASSUME NEW s, GoodStore(s), NEW w, TypedWork(w), w.stage = "index"
  PROVE  /\ WriteStore(s, w) = [rows |-> s.rows, idx |-> s.idx \cup IndexEntry(w.key, w.row.index, w.pos), seq |-> s.seq]
         /\ AfterWrite(w) =
              IF w.pos = Len(Trees(w.key)) THEN NoWork
              ELSE Work("index", w.key, w.old, w.row, w.pos + 1)
<1>1. s = [rows |-> s.rows, idx |-> s.idx, seq |-> s.seq]
  BY DEF GoodStore, Store
<1>2. WriteStore(s, w) = [rows |-> s.rows, idx |-> s.idx \cup IndexEntry(w.key, w.row.index, w.pos), seq |-> s.seq]
  BY <1>1 DEF WriteStore
<1>3. AfterWrite(w) =
        IF w.pos = Len(Trees(w.key)) THEN NoWork
              ELSE Work("index", w.key, w.old, w.row, w.pos + 1)
  BY DEF AfterWrite, MoveTo
<1> QED BY <1>2, <1>3

\* The parts of well-formed work, and work made of them.
LEMMA WorkFacts ==
  ASSUME NEW w, TypedWork(w)
  PROVE  /\ w.stage \in {"seq", "unindex", "put", "index"} /\ w.key \in Key /\ w.row \in Row
         /\ w.old \in IndexesFor(w.key) /\ w.row.index \in IndexesFor(w.key)
         /\ w.pos \in 1..Len(Trees(w.key))
         /\ Len(Trees(w.key)) \in Nat \ {0}
         /\ \A st \in Stages, p \in 1..Len(Trees(w.key)) :
              TypedWork(Work(st, w.key, w.old, w.row, p))
<1>1. /\ w.stage \in Stages /\ w.key \in Key /\ w.row \in Row /\ w.old \in Index
      /\ w.old \in IndexesFor(w.key) /\ w.row.index \in IndexesFor(w.key)
      /\ w.pos \in 1..Len(Trees(w.key))
  BY DEF TypedWork
<1>2. Len(Trees(w.key)) \in Nat \ {0}
  BY <1>1, TreesFacts
<1>3. \A st \in Stages, p \in 1..Len(Trees(w.key)) :
        TypedWork(Work(st, w.key, w.old, w.row, p))
  BY <1>1, <1>2 DEF TypedWork, Work
<1> QED BY <1>1, <1>2, <1>3 DEF Stages

\* A write keeps the store good and what is left of the work well-formed.
LEMMA WriteTypes ==
  ASSUME NEW s, GoodStore(s), NEW w, TypedWork(w)
  PROVE  /\ GoodStore(WriteStore(s, w))
         /\ AfterWrite(w) = NoWork \/ TypedWork(AfterWrite(w))
<1>1. /\ s.rows \in RowMap /\ s.seq \in Nat
      /\ s.idx \subseteq STRING \X Value \X Key
      /\ \A k \in DOMAIN s.rows : s.rows[k].index \in IndexesFor(k)
  BY DEF GoodStore, Store
<1>2. /\ w.stage \in {"seq", "unindex", "put", "index"} /\ w.key \in Key /\ w.row \in Row
      /\ w.old \in IndexesFor(w.key) /\ w.row.index \in IndexesFor(w.key)
      /\ w.pos \in 1..Len(Trees(w.key))
      /\ Len(Trees(w.key)) \in Nat \ {0}
  BY WorkFacts
<1>3. /\ w.pos # Len(Trees(w.key)) => w.pos + 1 \in 1..Len(Trees(w.key))
      /\ 1 \in 1..Len(Trees(w.key))
      /\ {"seq", "unindex", "put", "index"} = Stages
  BY <1>2 DEF Stages
<1>4. CASE w.stage = "seq"
  <2>1. WriteStore(s, w) = [rows |-> s.rows, idx |-> s.idx, seq |-> s.seq + 1]
    BY <1>4, WriteSeq
  <2>2. GoodStore(WriteStore(s, w))
    BY <1>1, <1>2, <2>1 DEF GoodStore, Store
  <2>3. AfterWrite(w) \in {Work("put", w.key, w.old, w.row, 1)}
    BY <1>4, WriteSeq
  <2> QED BY <1>3, <2>2, <2>3, WorkFacts
<1>5. CASE w.stage = "unindex"
  <2>1. WriteStore(s, w) = [rows |-> s.rows, idx |-> s.idx \ IndexEntry(w.key, w.old, w.pos), seq |-> s.seq]
    BY <1>5, WriteUnindex
  <2>2. GoodStore(WriteStore(s, w))
    BY <1>1, <1>2, <2>1 DEF GoodStore, Store
  <2>3. AfterWrite(w) \in 
          IF w.pos = Len(Trees(w.key)) THEN {Work("put", w.key, w.old, w.row, 1)}
          ELSE {Work("unindex", w.key, w.old, w.row, w.pos + 1)}
    BY <1>5, WriteUnindex
  <2> QED BY <1>3, <2>2, <2>3, WorkFacts
<1>6. CASE w.stage = "put"
  <2>1. WriteStore(s, w) = [rows |-> WithRow(s.rows, w.key, w.row), idx |-> s.idx, seq |-> s.seq]
    BY <1>6, WritePut
  <2>0. /\ WithRow(s.rows, w.key, w.row) \in RowMap
        /\ \A k \in DOMAIN WithRow(s.rows, w.key, w.row) :
             WithRow(s.rows, w.key, w.row)[k].index \in IndexesFor(k)
    <3> DEFINE rows == WithRow(s.rows, w.key, w.row)
    <3>1. /\ rows \in RowMap
          /\ \A x : x \in DOMAIN rows <=> x \in DOMAIN s.rows \/ x = w.key
          /\ \A x \in DOMAIN rows : rows[x] = IF x = w.key THEN w.row ELSE s.rows[x]
      BY <1>1, <1>2, WithRowFacts
    <3> HIDE DEF rows
    <3>2. \A k \in DOMAIN rows : rows[k].index \in IndexesFor(k)
      BY <1>1, <1>2, <3>1
    <3> QED BY <3>1, <3>2 DEF rows
  <2>2. GoodStore(WriteStore(s, w))
    BY <1>1, <2>0, <2>1 DEF GoodStore, Store
  <2>3. AfterWrite(w) \in {NoWork, Work("index", w.key, w.old, w.row, 1)}
    BY <1>6, WritePut
  <2> QED BY <1>3, <2>2, <2>3, WorkFacts
<1>7. CASE w.stage = "index"
  <2>0. IndexEntry(w.key, w.row.index, w.pos) \subseteq STRING \X Value \X Key
    BY <1>2, IndexEntryFacts
  <2>1. WriteStore(s, w) = [rows |-> s.rows, idx |-> s.idx \cup IndexEntry(w.key, w.row.index, w.pos), seq |-> s.seq]
    BY <1>7, WriteIndex
  <2>2. GoodStore(WriteStore(s, w))
    BY <1>1, <1>2, <2>1, <2>0 DEF GoodStore, Store
  <2>3. AfterWrite(w) \in 
          IF w.pos = Len(Trees(w.key)) THEN {NoWork}
          ELSE {Work("index", w.key, w.old, w.row, w.pos + 1)}
    BY <1>7, WriteIndex
  <2> QED BY <1>3, <2>2, <2>3, WorkFacts
<1> QED BY <1>2, <1>4, <1>5, <1>6, <1>7
-----------------------------------------------------------------------------
(* Ids. *)

\* No row has an id that is still to be handed out, and no write that is under
\* way takes the mark of deletion from a ticket.
Fresh(s, w) ==
  /\ DOMAIN s.rows \cap Ids \subseteq 1..s.seq
  /\ w # NoWork =>
       /\ w.stage = "seq" => w.key = s.seq + 1
       /\ (w.stage # "seq" /\ w.key \in Ids) => w.key \in 1..s.seq
       /\ (/\ w.stage # "index"
           /\ w.key \in DOMAIN s.rows \cap Ids
           /\ s.rows[w.key].deleted) => w.row.deleted

\* An entry begins with a fresh id or with the id of a row that exists.
LEMMA BeginFresh ==
  ASSUME NEW s, GoodStore(s), Fresh(s, NoWork), NEW e \in Entry, ~ Fails(s.rows, e)
  PROVE  Fresh(s, Begin(s, e))
<1> DEFINE w == Begin(s, e)
<1>1. /\ w.key = KeyOf(s.seq, e) /\ w.row = NewRow(s.rows, e)
      /\ w.stage = "seq" <=> e.op = "create_ticket"
  BY BeginFacts
<1>2. /\ e.op \in {"update", "soft_delete"} =>
           /\ KeyOf(s.seq, e) \in DOMAIN s.rows
           /\ s.rows[KeyOf(s.seq, e)].deleted => NewRow(s.rows, e).deleted
      /\ e.op = "create_ticket" => KeyOf(s.seq, e) = s.seq + 1
      /\ e.op = "create_user" => KeyOf(s.seq, e) \in Uuids
      /\ e.op \in {"create_ticket", "create_user", "update", "soft_delete"}
  BY EntryFacts
<1>3. s.seq \in Nat /\ \A k \in Ids : k \notin Uuids
  BY StorageAssumption DEF GoodStore, Store, Ids
<1> HIDE DEF w
<1>4. Fresh(s, w)
  BY <1>1, <1>2, <1>3 DEF Fresh
<1> QED BY <1>4 DEF w

\* Every write keeps the ids fresh and the marks of deletion.
LEMMA WriteFresh ==
  ASSUME NEW s, GoodStore(s), NEW w, TypedWork(w), Fresh(s, w), w # NoWork
  PROVE  /\ Fresh(WriteStore(s, w), AfterWrite(w))
         /\ Fresh(WriteStore(s, w), NoWork)
         /\ \A t \in DOMAIN s.rows \cap Ids : s.rows[t].deleted =>
              /\ t \in DOMAIN WriteStore(s, w).rows
              /\ WriteStore(s, w).rows[t].deleted
<1>1. s.rows \in RowMap /\ s.seq \in Nat
  BY DEF GoodStore, Store
<1>2. w.stage \in {"seq", "unindex", "put", "index"} /\ w.key \in Key /\ w.row \in Row
  BY WorkFacts
<1>3. CASE w.stage = "seq"
  <2>1. WriteStore(s, w) = [rows |-> s.rows, idx |-> s.idx, seq |-> s.seq + 1]
    BY <1>3, WriteSeq
  <2>2. AfterWrite(w) = Work("put", w.key, w.old, w.row, 1)
    BY <1>3, WriteSeq
  <2> QED BY <1>1, <1>3, <2>1, <2>2 DEF Fresh, Work, Ids
<1>4. CASE w.stage = "unindex"
  <2>1. WriteStore(s, w).rows = s.rows /\ WriteStore(s, w).seq = s.seq
    BY <1>4, WriteUnindex
  <2>2. \E st \in {"unindex", "put"}, p \in {1, w.pos + 1} :
          AfterWrite(w) = Work(st, w.key, w.old, w.row, p)
    BY <1>4, WriteUnindex
  <2> QED BY <1>1, <1>4, <2>1, <2>2 DEF Fresh, Work
<1>5. CASE w.stage = "put"
  <2>1. WriteStore(s, w) = [rows |-> WithRow(s.rows, w.key, w.row), idx |-> s.idx, seq |-> s.seq]
    BY <1>5, WritePut
  <2>2. AfterWrite(w) \in {NoWork, Work("index", w.key, w.old, w.row, 1)}
    BY <1>5, WritePut
  <2> DEFINE rows == WithRow(s.rows, w.key, w.row)
  <2>3. /\ \A x : x \in DOMAIN rows <=> x \in DOMAIN s.rows \/ x = w.key
        /\ \A x \in DOMAIN rows : rows[x] = IF x = w.key THEN w.row ELSE s.rows[x]
    BY <1>1, <1>2, WithRowFacts
  <2> HIDE DEF rows
  <2>4. WriteStore(s, w) = [rows |-> rows, idx |-> s.idx, seq |-> s.seq]
    BY <2>1 DEF rows
  <2> QED BY <1>1, <1>5, <2>2, <2>3, <2>4 DEF Fresh, Work
<1>6. CASE w.stage = "index"
  <2>1. WriteStore(s, w).rows = s.rows /\ WriteStore(s, w).seq = s.seq
    BY <1>6, WriteIndex
  <2>2. AfterWrite(w) \in {NoWork, Work("index", w.key, w.old, w.row, w.pos + 1)}
    BY <1>6, WriteIndex
  <2> QED BY <1>1, <1>6, <2>1, <2>2 DEF Fresh, Work
<1> QED BY <1>2, <1>3, <1>4, <1>5, <1>6
-----------------------------------------------------------------------------
(* Rows and indexes of a node that never stopped. *)

\* Every active row other than k's is in all its index trees.
IndexedBut(s, k) ==
  \A x \in DOMAIN s.rows : (x # k /\ ~ s.rows[x].deleted) =>
    \A p \in 1..Len(Trees(x)) : IndexEntry(x, s.rows[x].index, p) \subseteq s.idx

\* Every index entry of a ticket other than k stems from an active row.
NothingElseBut(s, k) ==
  \A y \in s.idx : (y[3] \in Ids /\ y[3] # k) =>
    /\ y[3] \in DOMAIN s.rows
    /\ ~ s.rows[y[3]].deleted
    /\ \E p \in 1..Len(Trees(y[3])) : y \in IndexEntry(y[3], s.rows[y[3]].index, p)

\* Between two entries: the store is what state d of the log prescribes.
Settled(s, d) ==
  /\ s.rows = d.rows
  /\ s.seq = d.seq
  /\ IndexedBut(s, 0)
  /\ NothingElseBut(s, 0)

\* The index entries of the row being written, as far as the writes have come.
OwnEntries(s, w) ==
  /\ (w.key \in Ids /\ w.stage \in {"seq", "put"}) => \A y \in s.idx : y[3] # w.key
  /\ (w.key \in Ids /\ w.stage = "unindex") =>
       \A y \in s.idx : y[3] = w.key =>
         \E q \in w.pos..Len(Trees(w.key)) : y \in IndexEntry(w.key, w.old, q)
  /\ w.stage = "index" =>
       \A q \in 1..(w.pos - 1) : IndexEntry(w.key, w.row.index, q) \subseteq s.idx
  /\ (w.key \in Ids /\ w.stage = "index") =>
       \A y \in s.idx : y[3] = w.key =>
         \E q \in 1..(w.pos - 1) : y \in IndexEntry(w.key, w.row.index, q)

\* Within entry e, which takes the log from state b to Effect(b, e).
Following(s, w, b, e) ==
  /\ ~ Fails(b.rows, e)
  /\ w.key = KeyOf(b.seq, e)
  /\ w.row = NewRow(b.rows, e)
  /\ w.stage = "seq" => e.op = "create_ticket"
  /\ w.stage = "index" => ~ w.row.deleted
  /\ s.rows = IF w.stage = "index" THEN WithRow(b.rows, w.key, w.row) ELSE b.rows
  /\ s.seq = IF w.stage # "seq" /\ e.op = "create_ticket" THEN b.seq + 1 ELSE b.seq
  /\ IndexedBut(s, w.key)
  /\ NothingElseBut(s, w.key)
  /\ OwnEntries(s, w)

\* A settled node that begins an entry follows it.
LEMMA BeginFollows ==
  ASSUME NEW s, GoodStore(s), Fresh(s, NoWork), NEW d, Settled(s, d),
         NEW e \in Entry, ~ Fails(s.rows, e)
  PROVE  Following(s, Begin(s, e), d, e)
<1> DEFINE w == Begin(s, e)
<1>1. /\ TypedWork(w)
      /\ w.key = KeyOf(s.seq, e) /\ w.row = NewRow(s.rows, e)
      /\ w.pos = 1
      /\ w.stage = "seq" <=> e.op = "create_ticket"
      /\ w.stage = "unindex" => ~ s.rows[w.key].deleted /\ w.old = s.rows[w.key].index
      /\ w.stage = "put" =>
           \/ e.op = "create_user"
           \/ e.op \in {"update", "soft_delete"} /\ s.rows[w.key].deleted
      /\ w.stage # "index"
  BY BeginFacts
<1>2. /\ e.op = "create_ticket" => KeyOf(s.seq, e) = s.seq + 1
      /\ e.op = "create_user" => KeyOf(s.seq, e) \in Uuids
  BY EntryFacts
<1>3. s.seq \in Nat /\ DOMAIN s.rows \subseteq Key
  BY RowMapFacts DEF GoodStore, Store
<1>4. /\ \A k \in Ids : k \notin Uuids /\ k # 0
      /\ \A k \in Key : k # 0
  BY StorageAssumption DEF Ids, Key
<1> HIDE DEF w
<1>5. IndexedBut(s, w.key)
  BY <1>3, <1>4 DEF Settled, IndexedBut
<1>6. NothingElseBut(s, w.key)
  BY <1>4 DEF Settled, NothingElseBut
<1>7. ASSUME w.key \in Ids, w.stage \in {"seq", "put"}, NEW y \in s.idx, y[3] = w.key
      PROVE  FALSE
  <2>1. y[3] \in DOMAIN s.rows /\ ~ s.rows[y[3]].deleted
    BY <1>4, <1>7 DEF Settled, NothingElseBut
  <2>2. CASE w.stage = "seq"
    BY <1>1, <1>2, <1>3, <1>7, <2>1, <2>2 DEF Fresh
  <2>3. CASE w.stage = "put"
    BY <1>1, <1>2, <1>4, <1>7, <2>1, <2>3
  <2> QED BY <1>7, <2>2, <2>3
<1>8. ASSUME w.key \in Ids, w.stage = "unindex", NEW y \in s.idx, y[3] = w.key
      PROVE  \E q \in w.pos..Len(Trees(w.key)) : y \in IndexEntry(w.key, w.old, q)
  BY <1>1, <1>4, <1>8 DEF Settled, NothingElseBut
<1>9. OwnEntries(s, w)
  BY <1>1, <1>7, <1>8 DEF OwnEntries
<1>10. Following(s, w, d, e)
  BY <1>1, <1>5, <1>6, <1>9 DEF Following, Settled
<1> QED BY <1>10 DEF w

\* Index entries of key k concern the duties of no other key.
LEMMA OtherKeys ==
  ASSUME NEW s, GoodStore(s), NEW k \in Key, NEW index \in IndexesFor(k),
         NEW p \in 1..Len(Trees(k)), IndexedBut(s, k), NothingElseBut(s, k),
         NEW t, t.rows = s.rows,
         t.idx = s.idx \ IndexEntry(k, index, p) \/ t.idx = s.idx \cup IndexEntry(k, index, p)
  PROVE  IndexedBut(t, k) /\ NothingElseBut(t, k)
<1>1. \A y \in IndexEntry(k, index, p) : y[3] = k
  BY IndexEntryFacts
<1>2. /\ DOMAIN s.rows \subseteq Key
      /\ \A x \in DOMAIN s.rows : s.rows[x].index \in IndexesFor(x)
  BY RowMapFacts DEF GoodStore, Store
<1>3. \A x \in DOMAIN s.rows : \A q \in 1..Len(Trees(x)) :
        \A y \in IndexEntry(x, s.rows[x].index, q) : y[3] = x
  BY <1>2, IndexEntryFacts
<1>4. IndexedBut(t, k)
  BY <1>1, <1>3 DEF IndexedBut
<1>5. NothingElseBut(t, k)
  BY <1>1 DEF NothingElseBut
<1> QED BY <1>4, <1>5

\* A write takes a node that follows an entry on to the next write, or to the
\* state of the log after the entry.
LEMMA WriteFollows ==
  ASSUME NEW s, GoodStore(s), NEW w, TypedWork(w), NEW b, NEW e, Following(s, w, b, e)
  PROVE  IF AfterWrite(w) = NoWork THEN Settled(WriteStore(s, w), Effect(b, e))
         ELSE Following(WriteStore(s, w), AfterWrite(w), b, e)
<1> DEFINE t == WriteStore(s, w)
           v == AfterWrite(w)
<1>1. /\ w.stage \in {"seq", "unindex", "put", "index"} /\ w.key \in Key /\ w.row \in Row
      /\ w.old \in IndexesFor(w.key) /\ w.row.index \in IndexesFor(w.key)
      /\ w.pos \in 1..Len(Trees(w.key))
      /\ Len(Trees(w.key)) \in Nat \ {0}
  BY WorkFacts
<1>2. /\ s.rows \in RowMap /\ s.seq \in Nat /\ DOMAIN s.rows \subseteq Key
      /\ \A x \in Key : x # 0
  BY RowMapFacts, StorageAssumption DEF GoodStore, Store, Key, Ids
<1>3. /\ Effect(b, e).rows = WithRow(b.rows, w.key, w.row)
      /\ Effect(b, e).seq = IF e.op = "create_ticket" THEN b.seq + 1 ELSE b.seq
  BY DEF Following, Effect
<1>4. CASE w.stage = "seq"
  <2>1. t = [rows |-> s.rows, idx |-> s.idx, seq |-> s.seq + 1]
    BY <1>4, WriteSeq
  <2>2. v = Work("put", w.key, w.old, w.row, 1)
    BY <1>4, WriteSeq
  <2> HIDE DEF t, v
  <2>3. IndexedBut(t, w.key) /\ NothingElseBut(t, w.key)
    BY <2>1 DEF Following, IndexedBut, NothingElseBut
  <2>4. OwnEntries(t, v)
    BY <1>4, <2>1, <2>2 DEF Following, OwnEntries, Work
  <2>5. Following(t, v, b, e) /\ v # NoWork
    BY <1>4, <2>1, <2>2, <2>3, <2>4 DEF Following, Work, NoWork
  <2> QED BY <2>5 DEF t, v
<1>5. CASE w.stage = "unindex"
  <2>1. t = [rows |-> s.rows, idx |-> s.idx \ IndexEntry(w.key, w.old, w.pos), seq |-> s.seq]
    BY <1>5, WriteUnindex
  <2>2. v = IF w.pos = Len(Trees(w.key)) THEN Work("put", w.key, w.old, w.row, 1)
            ELSE Work("unindex", w.key, w.old, w.row, w.pos + 1)
    BY <1>5, WriteUnindex
  <2> HIDE DEF t, v
  <2>3. IndexedBut(t, w.key) /\ NothingElseBut(t, w.key)
    BY <1>1, <2>1, OtherKeys DEF Following
  <2>4. ASSUME w.key \in Ids, NEW y \in t.idx, y[3] = w.key
        PROVE  \E q \in (w.pos + 1)..Len(Trees(w.key)) : y \in IndexEntry(w.key, w.old, q)
    <3>1. y \in s.idx /\ y \notin IndexEntry(w.key, w.old, w.pos)
      BY <2>1, <2>4
    <3>2. PICK q \in w.pos..Len(Trees(w.key)) : y \in IndexEntry(w.key, w.old, q)
      BY <1>5, <2>4, <3>1 DEF Following, OwnEntries
    <3>3. q \in (w.pos + 1)..Len(Trees(w.key))
      BY <1>1, <3>1, <3>2
    <3> QED BY <3>2, <3>3
  <2>5. OwnEntries(t, v)
    BY <1>1, <2>2, <2>4 DEF OwnEntries, Work
  <2>6. Following(t, v, b, e) /\ v # NoWork
    BY <1>5, <2>1, <2>2, <2>3, <2>5 DEF Following, Work, NoWork
  <2> QED BY <2>6 DEF t, v
<1>6. CASE w.stage = "put"
  <2> DEFINE rows == WithRow(s.rows, w.key, w.row)
  <2>1. t = [rows |-> rows, idx |-> s.idx, seq |-> s.seq]
    BY <1>6, WritePut
  <2>2. v = IF w.row.deleted THEN NoWork ELSE Work("index", w.key, w.old, w.row, 1)
    BY <1>6, WritePut
  <2>3. /\ \A x : x \in DOMAIN rows <=> x \in DOMAIN s.rows \/ x = w.key
        /\ \A x \in DOMAIN rows : rows[x] = IF x = w.key THEN w.row ELSE s.rows[x]
    BY <1>1, <1>2, WithRowFacts
  <2>4. /\ rows = WithRow(b.rows, w.key, w.row)
        /\ s.seq = IF e.op = "create_ticket" THEN b.seq + 1 ELSE b.seq
    BY <1>6 DEF Following
  <2> HIDE DEF t, v, rows
  <2>5. IndexedBut(t, w.key) /\ NothingElseBut(t, w.key)
    BY <2>1, <2>3 DEF Following, IndexedBut, NothingElseBut
  <2>6. w.key \in Ids => \A y \in t.idx : y[3] # w.key
    BY <1>6, <2>1 DEF Following, OwnEntries
  <2>7. CASE w.row.deleted
    <3>1. IndexedBut(t, 0) /\ NothingElseBut(t, 0)
      BY <2>1, <2>3, <2>5, <2>6, <2>7 DEF IndexedBut, NothingElseBut
    <3>2. Settled(t, Effect(b, e)) /\ v = NoWork
      BY <1>3, <2>1, <2>2, <2>4, <2>7, <3>1 DEF Settled
    <3> QED BY <3>2 DEF t, v
  <2>8. CASE ~ w.row.deleted
    <3>1. OwnEntries(t, v)
      BY <2>2, <2>6, <2>8 DEF OwnEntries, Work
    <3>2. Following(t, v, b, e) /\ v # NoWork
      BY <2>1, <2>2, <2>4, <2>5, <2>8, <3>1 DEF Following, Work, NoWork
    <3> QED BY <3>2 DEF t, v
  <2> QED BY <2>7, <2>8
<1>7. CASE w.stage = "index"
  <2>1. t = [rows |-> s.rows, idx |-> s.idx \cup IndexEntry(w.key, w.row.index, w.pos), seq |-> s.seq]
    BY <1>7, WriteIndex
  <2>2. v = IF w.pos = Len(Trees(w.key)) THEN NoWork
            ELSE Work("index", w.key, w.old, w.row, w.pos + 1)
    BY <1>7, WriteIndex
  <2> HIDE DEF t, v
  <2>3. IndexedBut(t, w.key) /\ NothingElseBut(t, w.key)
    BY <1>1, <2>1, OtherKeys DEF Following
  <2>4. \A q \in 1..w.pos : IndexEntry(w.key, w.row.index, q) \subseteq t.idx
    BY <1>1, <1>7, <2>1 DEF Following, OwnEntries
  <2>5. ASSUME w.key \in Ids, NEW y \in t.idx, y[3] = w.key
        PROVE  \E q \in 1..w.pos : y \in IndexEntry(w.key, w.row.index, q)
    BY <1>1, <1>7, <2>1, <2>5 DEF Following, OwnEntries
  <2>6. CASE w.pos = Len(Trees(w.key))
    <3>1. /\ t.rows = s.rows
          /\ w.key \in DOMAIN s.rows /\ s.rows[w.key] = w.row /\ ~ w.row.deleted
      <4>1. s.rows = WithRow(b.rows, w.key, w.row) /\ ~ w.row.deleted
        BY <1>7 DEF Following
      <4> QED BY <2>1, <4>1 DEF WithRow
    <3>2. IndexedBut(t, 0)
      BY <2>3, <2>4, <2>6, <3>1 DEF IndexedBut
    <3>3. NothingElseBut(t, 0)
      BY <2>3, <2>5, <2>6, <3>1 DEF NothingElseBut
    <3>4. Settled(t, Effect(b, e)) /\ v = NoWork
      BY <1>3, <1>7, <2>1, <2>2, <2>6, <3>2, <3>3 DEF Settled, Following
    <3> QED BY <3>4 DEF t, v
  <2>7. CASE w.pos # Len(Trees(w.key))
    <3>1. OwnEntries(t, v)
      BY <1>1, <2>2, <2>4, <2>5, <2>7 DEF OwnEntries, Work
    <3>2. Following(t, v, b, e) /\ v # NoWork
      BY <1>7, <2>1, <2>2, <2>3, <2>7, <3>1 DEF Following, Work, NoWork
    <3> QED BY <3>2 DEF t, v
  <2> QED BY <2>6, <2>7
<1> QED BY <1>1, <1>4, <1>5, <1>6, <1>7
-----------------------------------------------------------------------------
(* The cluster. *)

\* A state of the log: well-formed rows, and the counter.
Db == [rows : {r \in RowMap : \A k \in DOMAIN r : r[k].index \in IndexesFor(k)}, seq : Nat]

LogInv ==
  /\ log \in Seq(Entry)
  /\ hist \in Seq(Db)
  /\ Len(hist) = Len(log) + 1
  /\ \A i \in 1..Len(log) : hist[i + 1] = Effect(hist[i], log[i])

NodeTypes ==
  /\ run \in [Nodes -> {"up", "halted", "down"}]
  /\ store \in [Nodes -> Store]
  /\ \A n \in Nodes : GoodStore(store[n])
  /\ applied \in [Nodes -> Nat]
  /\ \A n \in Nodes : applied[n] <= Len(log)
  /\ DOMAIN work = Nodes /\ work = [n \in Nodes |-> work[n]]
  /\ \A n \in Nodes : work[n] = NoWork \/ (run[n] = "up" /\ TypedWork(work[n]))
  /\ clean \subseteq Nodes
  /\ crashes \in Nat
  /\ queries \in Nat

FreshInv == \A n \in Nodes : Fresh(store[n], work[n])

CleanInv ==
  \A n \in clean :
    /\ run[n] # "down"
    /\ work[n] = NoWork => Settled(store[n], hist[applied[n] + 1])
    /\ work[n] # NoWork =>
         /\ applied[n] \in 1..Len(log)
         /\ Following(store[n], work[n], hist[applied[n]], log[applied[n]])
    /\ run[n] = "halted" =>
         /\ applied[n] \in 1..Len(log)
         /\ Fails(hist[applied[n]].rows, log[applied[n]])

DbInv == LogInv /\ NodeTypes /\ FreshInv /\ CleanInv

\* The effect of an entry on a state of the log is a state of the log.
LEMMA EffectTypes ==
  ASSUME NEW d \in Db, NEW e \in Entry
  PROVE  Effect(d, e) \in Db
<1>1. CASE Fails(d.rows, e)
  BY <1>1 DEF Effect
<1>2. CASE ~ Fails(d.rows, e)
  <2> DEFINE s == [rows |-> d.rows, idx |-> {}, seq |-> d.seq]
             k == KeyOf(d.seq, e)
             row == NewRow(d.rows, e)
             rows == WithRow(d.rows, k, row)
  <2>1. GoodStore(s) /\ s.rows = d.rows /\ s.seq = d.seq
    BY DEF GoodStore, Store, Db
  <2>2. k \in Key /\ row \in Row /\ row.index \in IndexesFor(k)
    <3> HIDE DEF s
    <3> QED BY <1>2, <2>1, EntryFacts
  <2>3. d.rows \in RowMap /\ d.seq \in Nat
        /\ \A x \in DOMAIN d.rows : d.rows[x].index \in IndexesFor(x)
    BY DEF Db
  <2> HIDE DEF k, row
  <2>4. /\ rows \in RowMap
        /\ \A x : x \in DOMAIN rows <=> x \in DOMAIN d.rows \/ x = k
        /\ \A x \in DOMAIN rows : rows[x] = IF x = k THEN row ELSE d.rows[x]
    BY <2>2, <2>3, WithRowFacts
  <2>5. Effect(d, e) = [rows |-> rows,
                        seq |-> IF e.op = "create_ticket" THEN d.seq + 1 ELSE d.seq]
    BY <1>2 DEF Effect, k, row
  <2> HIDE DEF rows
  <2>6. \A x \in DOMAIN rows : rows[x].index \in IndexesFor(x)
    BY <2>2, <2>3, <2>4
  <2> QED BY <2>3, <2>4, <2>5, <2>6 DEF Db
<1> QED BY <1>1, <1>2

\* The invariant holds at the start.
LEMMA InitDbInv == Init => DbInv
<1> SUFFICES ASSUME Init PROVE DbInv
  OBVIOUS
<1> DEFINE rows == [k \in {} |-> NoValue]
<1>1. rows \in RowMap /\ DOMAIN rows = {}
  <2>1. rows \in [{} -> Row] /\ {} \in SUBSET Key
    OBVIOUS
  <2> QED BY <2>1 DEF RowMap
<1>2. EmptyStore = [rows |-> rows, idx |-> {}, seq |-> 0]
  BY DEF EmptyStore
<1>3. [rows |-> rows, seq |-> 0] \in Db /\ EmptyStore \in Store
  BY <1>1, <1>2 DEF Db, Store
<1>4. hist = <<[rows |-> rows, seq |-> 0]>>
  BY <1>2 DEF Init
<1> HIDE DEF rows
<1>5. LogInv
  BY <1>3, <1>4 DEF Init, LogInv
<1>6. NodeTypes
  BY <1>1, <1>2, <1>3, <1>5 DEF Init, NodeTypes, GoodStore, LogInv
<1>7. FreshInv
  BY <1>1, <1>2 DEF Init, FreshInv, Fresh
<1>8. CleanInv
  <2>1. Settled(EmptyStore, [rows |-> rows, seq |-> 0])
    BY <1>1, <1>2 DEF Settled, IndexedBut, NothingElseBut
  <2> QED BY <1>4, <2>1 DEF Init, CleanInv
<1> QED BY <1>5, <1>6, <1>7, <1>8 DEF DbInv

\* A write to the log.
LEMMA ProposeKeeps ==
  ASSUME DbInv, NEW e \in Entry, Propose(e)
  PROVE  DbInv'
<1>1. /\ log' = Append(log, e)
      /\ hist' = Append(hist, Effect(hist[Len(hist)], e))
      /\ UNCHANGED nodeVars /\ UNCHANGED queryVars
  BY DEF Propose
<1>2. log \in Seq(Entry) /\ hist \in Seq(Db) /\ Len(hist) = Len(log) + 1
  BY DEF DbInv, LogInv
<1>3. hist[Len(hist)] \in Db
  BY <1>2
<1>4. Effect(hist[Len(hist)], e) \in Db
  BY <1>3, EffectTypes
<1>5. /\ log' \in Seq(Entry) /\ Len(log') = Len(log) + 1
      /\ hist' \in Seq(Db) /\ Len(hist') = Len(hist) + 1
      /\ \A i \in 1..Len(log) : log'[i] = log[i]
      /\ \A i \in 1..Len(hist) : hist'[i] = hist[i]
      /\ log'[Len(log) + 1] = e
      /\ hist'[Len(hist) + 1] = Effect(hist[Len(hist)], e)
  BY <1>1, <1>2, <1>4
<1>6. LogInv'
  <2>1. ASSUME NEW i \in 1..Len(log') PROVE hist'[i + 1] = Effect(hist'[i], log'[i])
    <3>1. CASE i \in 1..Len(log)
      <4>1. hist[i + 1] = Effect(hist[i], log[i]) /\ i \in 1..Len(hist) /\ i + 1 \in 1..Len(hist)
        BY <1>2, <3>1 DEF DbInv, LogInv
      <4> QED BY <1>5, <3>1, <4>1
    <3>2. CASE i = Len(log) + 1
      <4>1. i = Len(hist) /\ i \in 1..Len(hist)
        BY <1>2, <3>2
      <4> QED BY <1>5, <3>2, <4>1
    <3> QED BY <1>2, <1>5, <2>1, <3>1, <3>2
  <2> QED BY <1>2, <1>5, <2>1 DEF LogInv
<1>7. NodeTypes'
  BY <1>1, <1>2, <1>5 DEF DbInv, NodeTypes, nodeVars, queryVars
<1>8. FreshInv'
  BY <1>1 DEF DbInv, FreshInv, nodeVars
<1>9. CleanInv'
  <2> SUFFICES ASSUME NEW n \in clean
               PROVE  /\ run[n] # "down"
                      /\ work[n] = NoWork => Settled(store[n], hist'[applied[n] + 1])
                      /\ work[n] # NoWork =>
                           /\ applied[n] \in 1..Len(log')
                           /\ Following(store[n], work[n], hist'[applied[n]], log'[applied[n]])
                      /\ run[n] = "halted" =>
                           /\ applied[n] \in 1..Len(log')
                           /\ Fails(hist'[applied[n]].rows, log'[applied[n]])
    BY <1>1 DEF CleanInv, nodeVars
  <2>1. applied[n] \in Nat /\ applied[n] <= Len(log)
    BY DEF DbInv, NodeTypes
  <2>2. applied[n] + 1 \in 1..Len(hist) /\ hist'[applied[n] + 1] = hist[applied[n] + 1]
    BY <1>2, <1>5, <2>1
  <2>3. applied[n] \in 1..Len(log) =>
          /\ applied[n] \in 1..Len(log')
          /\ log'[applied[n]] = log[applied[n]] /\ hist'[applied[n]] = hist[applied[n]]
    BY <1>2, <1>5, <2>1
  <2> QED BY <2>2, <2>3 DEF DbInv, CleanInv
<1> QED BY <1>6, <1>7, <1>8, <1>9 DEF DbInv

\* The start of an entry.
LEMMA BeginApplyKeeps ==
  ASSUME DbInv, NEW n \in Nodes, BeginApply(n)
  PROVE  DbInv'
<1> DEFINE i == applied[n] + 1
<1>1. /\ run[n] = "up" /\ work[n] = NoWork /\ i <= Len(log)
      /\ applied' = [applied EXCEPT ![n] = i]
      /\ UNCHANGED <<raftVars, store, clean, crashes, queries>>
  BY DEF BeginApply
<1>2. \/ /\ Fails(store[n].rows, log[i])
         /\ run' = [run EXCEPT ![n] = "halted"] /\ work' = work
      \/ /\ ~ Fails(store[n].rows, log[i])
         /\ work' = [work EXCEPT ![n] = Begin(store[n], log[i])] /\ run' = run
  BY DEF BeginApply
<1>3. /\ applied[n] \in Nat /\ i \in 1..Len(log) /\ log[i] \in Entry
      /\ GoodStore(store[n]) /\ Fresh(store[n], NoWork)
      /\ hist[i + 1] = Effect(hist[i], log[i])
  BY <1>1 DEF DbInv, LogInv, NodeTypes, FreshInv
<1>4. n \in clean => Settled(store[n], hist[i])
  BY <1>1 DEF DbInv, CleanInv
<1>5. LogInv'
  BY <1>1 DEF DbInv, LogInv, raftVars
<1> HIDE DEF i
<1>6. CASE Fails(store[n].rows, log[i])
  <2>1. run' = [run EXCEPT ![n] = "halted"] /\ work' = work
    BY <1>2, <1>6
  <2>2. NodeTypes'
    BY <1>1, <1>3, <2>1 DEF DbInv, NodeTypes, raftVars
  <2>3. FreshInv'
    BY <1>1, <2>1 DEF DbInv, FreshInv
  <2>4. n \in clean => Settled(store[n], hist[i + 1]) /\ Fails(hist[i].rows, log[i])
    BY <1>3, <1>4, <1>6 DEF Settled, Effect
  <2>5. CleanInv'
    BY <1>1, <1>3, <2>1, <2>4 DEF DbInv, CleanInv, NodeTypes, raftVars
  <2> QED BY <1>5, <2>2, <2>3, <2>5 DEF DbInv
<1>7. CASE ~ Fails(store[n].rows, log[i])
  <2> DEFINE w == Begin(store[n], log[i])
  <2>1. run' = run /\ work' = [work EXCEPT ![n] = w]
    BY <1>2, <1>7
  <2>2. TypedWork(w)
    BY <1>3, <1>7, BeginFacts
  <2>3. Fresh(store[n], w)
    BY <1>3, <1>7, BeginFresh
  <2>4. n \in clean => Following(store[n], w, hist[i], log[i])
    BY <1>3, <1>4, <1>7, BeginFollows
  <2>5. w # NoWork
    BY <2>2 DEF TypedWork, NoWork, Stages
  <2> HIDE DEF w
  <2>10. /\ DOMAIN work' = Nodes /\ work' = [m \in Nodes |-> work'[m]]
         /\ \A m \in Nodes : work'[m] = IF m = n THEN w ELSE work[m]
    BY <2>1 DEF DbInv, NodeTypes
  <2>11. \A m \in Nodes : work'[m] = NoWork \/ (run'[m] = "up" /\ TypedWork(work'[m]))
    BY <1>1, <2>1, <2>2, <2>10 DEF DbInv, NodeTypes
  <2>6. NodeTypes'
    BY <1>1, <1>3, <2>1, <2>10, <2>11 DEF DbInv, NodeTypes, raftVars
  <2>7. FreshInv'
    BY <1>1, <2>1, <2>3 DEF DbInv, FreshInv, NodeTypes
  <2>8. CleanInv'
    BY <1>1, <1>3, <2>1, <2>4, <2>5 DEF DbInv, CleanInv, NodeTypes, raftVars
  <2> QED BY <1>5, <2>6, <2>7, <2>8 DEF DbInv
<1> QED BY <1>6, <1>7

\* One write.
LEMMA WriteKeeps ==
  ASSUME DbInv, NEW n \in Nodes, Write(n)
  PROVE  DbInv'
<1> DEFINE s == store[n]
           w == work[n]
           t == WriteStore(s, w)
           v == AfterWrite(w)
<1>1. /\ run[n] = "up" /\ w # NoWork
      /\ store' = [store EXCEPT ![n] = t] /\ work' = [work EXCEPT ![n] = v]
      /\ UNCHANGED <<raftVars, run, applied, clean, crashes, queryVars>>
  BY DEF Write
<1>2. GoodStore(s) /\ TypedWork(w) /\ Fresh(s, w)
  BY <1>1 DEF DbInv, NodeTypes, FreshInv
<1>3. GoodStore(t) /\ (v = NoWork \/ TypedWork(v))
  BY <1>2, WriteTypes
<1>4. Fresh(t, v)
  BY <1>1, <1>2, WriteFresh
<1>5. n \in clean =>
        /\ applied[n] \in 1..Len(log)
        /\ Following(s, w, hist[applied[n]], log[applied[n]])
  BY <1>1 DEF DbInv, CleanInv
<1>6. n \in clean =>
        IF v = NoWork THEN Settled(t, Effect(hist[applied[n]], log[applied[n]]))
        ELSE Following(t, v, hist[applied[n]], log[applied[n]])
  BY <1>2, <1>5, WriteFollows
<1>7. n \in clean => hist[applied[n] + 1] = Effect(hist[applied[n]], log[applied[n]])
  BY <1>5 DEF DbInv, LogInv
<1> HIDE DEF t, v
<1>8. LogInv'
  BY <1>1 DEF DbInv, LogInv, raftVars
<1>9. NodeTypes'
  BY <1>1, <1>3 DEF DbInv, NodeTypes, raftVars, queryVars, GoodStore
<1>10. FreshInv'
  BY <1>1, <1>4 DEF DbInv, FreshInv, NodeTypes
<1>11. CleanInv'
  BY <1>1, <1>5, <1>6, <1>7 DEF DbInv, CleanInv, NodeTypes, raftVars
<1> QED BY <1>8, <1>9, <1>10, <1>11 DEF DbInv

\* Crashes, restarts, and what changes no node.
LEMMA CrashKeeps ==
  ASSUME DbInv, NEW n \in Nodes, Crash(n)
  PROVE  DbInv'
<1>1. LogInv'
  BY DEF DbInv, LogInv, Crash, raftVars
<1>2. NodeTypes'
  <2>1. /\ DOMAIN work' = Nodes /\ work' = [m \in Nodes |-> work'[m]]
        /\ \A m \in Nodes : work'[m] = IF m = n THEN NoWork ELSE work[m]
    BY DEF DbInv, NodeTypes, Crash
  <2>2. \A m \in Nodes : work'[m] = NoWork \/ (run'[m] = "up" /\ TypedWork(work'[m]))
    BY <2>1 DEF DbInv, NodeTypes, Crash
  <2> QED BY <2>1, <2>2 DEF DbInv, NodeTypes, Crash, raftVars
<1>3. FreshInv'
  BY DEF DbInv, FreshInv, NodeTypes, Crash, Fresh
<1>4. CleanInv'
  BY DEF DbInv, CleanInv, NodeTypes, Crash, raftVars
<1> QED BY <1>1, <1>2, <1>3, <1>4 DEF DbInv

LEMMA RestartKeeps ==
  ASSUME DbInv, NEW n \in Nodes, Restart(n)
  PROVE  DbInv'
<1>1. LogInv'
  BY DEF DbInv, LogInv, Restart, raftVars
<1>2. NodeTypes'
  BY DEF DbInv, LogInv, NodeTypes, Restart, raftVars, queryVars
<1>3. FreshInv'
  BY DEF DbInv, FreshInv, Restart
<1>4. CleanInv'
  BY DEF DbInv, CleanInv, NodeTypes, Restart, raftVars
<1> QED BY <1>1, <1>2, <1>3, <1>4 DEF DbInv

LEMMA ReadersKeep ==
  ASSUME DbInv, UNCHANGED <<raftVars, nodeVars>>, queries' \in Nat
  PROVE  DbInv'
<1>1. LogInv'
  BY DEF DbInv, LogInv, raftVars
<1>2. NodeTypes'
  BY DEF DbInv, NodeTypes, raftVars, nodeVars
<1>3. FreshInv'
  BY DEF DbInv, FreshInv, nodeVars
<1>4. CleanInv'
  BY DEF DbInv, CleanInv, raftVars, nodeVars
<1> QED BY <1>1, <1>2, <1>3, <1>4 DEF DbInv

\* Every step keeps the invariant.
LEMMA NextDbInv == DbInv /\ [Next]_vars => DbInv'
<1> SUFFICES ASSUME DbInv, [Next]_vars PROVE DbInv'
  OBVIOUS
<1>0. queries \in Nat
  BY DEF DbInv, NodeTypes
<1>1. CASE Writers
  <2>1. \A t \in 1..MaxTicket : t \in Ids
    BY ReplicaAssumption DEF Ids
  <2>2. PICK e \in Entry : Propose(e)
    BY <1>1, <2>1 DEF Writers, ProposeCreateTicket, ProposeUpdateTicket,
         ProposeSoftDeleteTicket, ProposeCreateUser, ProposeUpdateUser,
         ProposeSoftDeleteUser, Entry, CreateTicket, Update, SoftDelete, CreateUser, Key
  <2> QED BY <2>2, ProposeKeeps
<1>2. CASE Readers
  <2>1. UNCHANGED <<raftVars, nodeVars>> /\ queries' \in Nat
    BY <1>0, <1>2 DEF Readers, QueryScan, QueryRead, QueryReturn
  <2> QED BY <2>1, ReadersKeep
<1>3. CASE \E n \in Nodes : BeginApply(n) \/ Write(n) \/ Crash(n) \/ Restart(n)
  BY <1>3, BeginApplyKeeps, WriteKeeps, CrashKeeps, RestartKeeps
<1>4. CASE UNCHANGED vars
  BY <1>0, <1>4, ReadersKeep DEF vars, queryVars
<1> QED BY <1>1, <1>2, <1>3, <1>4 DEF Next

\* The invariant holds throughout: crashes between any two writes, restarts and
\* replays included.
THEOREM DbInvariant == Spec => []DbInv
BY InitDbInv, NextDbInv, PTL DEF Spec

\* Log, trees and the work of every node stay well-formed, and no write runs past
\* the last index tree of its row.
THEOREM DbTypeCorrect == Spec => []TypeOK
<1>1. DbInv => TypeOK
  <2> SUFFICES ASSUME DbInv PROVE TypeOK
    OBVIOUS
  <2>1. ASSUME NEW n \in Nodes PROVE TypedStore(store[n])
    <3>1. GoodStore(store[n])
      BY DEF DbInv, NodeTypes
    <3>2. /\ store[n].rows \in RowMap /\ store[n].seq \in Nat
          /\ store[n].idx \subseteq STRING \X Value \X Key
          /\ \A k \in DOMAIN store[n].rows : store[n].rows[k].index \in IndexesFor(k)
      BY <3>1 DEF GoodStore, Store
    <3> QED BY <3>2, RowMapFacts DEF TypedStore, TypedRows
  <2>2. applied \in [Nodes -> 0..Len(log)]
    BY DEF DbInv, LogInv, NodeTypes
  <2> QED BY <2>1, <2>2 DEF DbInv, LogInv, NodeTypes, TypeOK
<1> QED BY <1>1, DbInvariant, PTL

\* A node that never stopped has, between two entries, the rows, the counter and
\* the ticket indexes that the log prescribes.
THEOREM NodesFollowTheLog == Spec => []NodesFollowLog
<1>1. DbInv => NodesFollowLog
  <2> SUFFICES ASSUME DbInv, NEW n \in clean, work[n] = NoWork
               PROVE  /\ store[n].rows = Prescribed(applied[n]).rows
                      /\ store[n].seq = Prescribed(applied[n]).seq
                      /\ IndexOf(store[n].rows) \subseteq store[n].idx
                      /\ {x \in store[n].idx : x[3] \in Ids} \subseteq IndexOf(store[n].rows)
    BY DEF NodesFollowLog
  <2> DEFINE s == store[n]
  <2>1. Settled(s, Prescribed(applied[n]))
    BY DEF DbInv, CleanInv, Prescribed
  <2>2. DOMAIN s.rows \subseteq Key /\ (\A k \in Key : k # 0) /\ (\A k \in Ids : k # 0)
    <3>1. s.rows \in RowMap
      BY DEF DbInv, NodeTypes, GoodStore, Store
    <3> QED BY <3>1, RowMapFacts, StorageAssumption DEF Key, Ids
  <2> HIDE DEF s
  <2>3. \A y : y \in IndexOf(s.rows) <=>
          \E k \in DOMAIN s.rows : /\ ~ s.rows[k].deleted
                                   /\ \E p \in 1..Len(Trees(k)) :
                                        y \in IndexEntry(k, s.rows[k].index, p)
    BY DEF IndexOf, IndexEntries
  <2>4. IndexOf(s.rows) \subseteq s.idx
    BY <2>1, <2>2, <2>3 DEF Settled, IndexedBut
  <2>5. {x \in s.idx : x[3] \in Ids} \subseteq IndexOf(s.rows)
    BY <2>1, <2>2, <2>3 DEF Settled, NothingElseBut
  <2> QED BY <2>1, <2>4, <2>5 DEF Settled, s
<1> QED BY <1>1, DbInvariant, PTL

\* A ticket marked deleted on a node stays marked there, whatever stops the node
\* and however often it replays the log.
THEOREM DeletedTicketsStay == Spec => TicketsStayDeleted
<1> DEFINE Kept == \A n \in Nodes : \A t \in DOMAIN store[n].rows \cap Ids :
                     store[n].rows[t].deleted =>
                       t \in DOMAIN store'[n].rows /\ store'[n].rows[t].deleted
<1>1. DbInv /\ [Next]_vars => [Kept]_vars
  <2> SUFFICES ASSUME DbInv, Next PROVE Kept
    BY DEF vars
  <2>1. CASE store' = store
    BY <2>1
  <2>2. ASSUME NEW m \in Nodes, Write(m) PROVE Kept
    <3>1. /\ store' = [store EXCEPT ![m] = WriteStore(store[m], work[m])]
          /\ work[m] # NoWork
      BY <2>2 DEF Write
    <3>2. GoodStore(store[m]) /\ TypedWork(work[m]) /\ Fresh(store[m], work[m])
      BY <3>1 DEF DbInv, NodeTypes, FreshInv
    <3>3. \A t \in DOMAIN store[m].rows \cap Ids : store[m].rows[t].deleted =>
            /\ t \in DOMAIN WriteStore(store[m], work[m]).rows
            /\ WriteStore(store[m], work[m]).rows[t].deleted
      BY <3>1, <3>2, WriteFresh
    <3>4. store \in [Nodes -> Store]
      BY DEF DbInv, NodeTypes
    <3> QED BY <3>1, <3>3, <3>4
  <2>3. CASE Writers
    <3>1. store' = store
      BY <2>3 DEF Writers, ProposeCreateTicket, ProposeUpdateTicket,
           ProposeSoftDeleteTicket, ProposeCreateUser, ProposeUpdateUser,
           ProposeSoftDeleteUser, Propose, nodeVars
    <3> QED BY <2>1, <3>1
  <2>4. CASE Readers
    <3>1. store' = store
      BY <2>4 DEF Readers, QueryScan, QueryRead, QueryReturn, nodeVars
    <3> QED BY <2>1, <3>1
  <2>5. CASE \E m \in Nodes : BeginApply(m) \/ Crash(m) \/ Restart(m)
    <3>1. store' = store
      BY <2>5 DEF BeginApply, Crash, Restart
    <3> QED BY <2>1, <3>1
  <2> QED BY <2>2, <2>3, <2>4, <2>5 DEF Next
<1>2. Spec => [][Kept]_vars
  BY <1>1, DbInvariant, PTL DEF Spec
<1> QED BY <1>2 DEF TicketsStayDeleted

\* An error in apply stops a node that never stopped before only at an entry whose
\* row the log itself does not have.
THEOREM HaltsAreExplained == Spec => []HaltsExplained
<1>1. DbInv => HaltsExplained
  <2> SUFFICES ASSUME DbInv, NEW n \in clean, run[n] = "halted"
               PROVE  Fails(Prescribed(applied[n] - 1).rows, log[applied[n]])
    BY DEF HaltsExplained
  <2>1. applied[n] \in 1..Len(log) /\ Fails(hist[applied[n]].rows, log[applied[n]])
    BY DEF DbInv, CleanInv
  <2>2. (applied[n] - 1) + 1 = applied[n]
    BY <2>1
  <2> QED BY <2>1, <2>2 DEF Prescribed
<1> QED BY <1>1, DbInvariant, PTL

-----------------------------------------------------------------------------
(* Queries.  A node that never stopped shows a ticket that nobody writes as  *)
(* the log has it, in the rows and in the index trees; a query therefore     *)
(* finds it among the candidates and, whenever its turn comes, among the     *)
(* rows.                                                                     *)

LEMMA LeastId ==
  ASSUME NEW S, S \subseteq Nat, S # {}
  PROVE  LET k == CHOOSE x \in S : \A y \in S : x <= y
         IN  k \in S /\ \A y \in S : k <= y
<1>1. PICK k \in S : \A j \in S : ~ (<<j, k>> \in OpToRel(<, Nat))
  BY NatLessThanWellFounded, WFMin
<1>2. \A j \in S : ~ (j < k)
  BY <1>1 DEF OpToRel
<1>3. \A j \in S : k <= j
  BY <1>2
<1> QED BY <1>3

\* An index entry lies in a tree of its key's kind.
OwnTrees(s) == \A y \in s.idx : y[3] \in Key /\ y[1] \in TreesOf(Trees(y[3]))

LEMMA EntryInOwnTree ==
  ASSUME NEW k \in Key, NEW index \in IndexesFor(k), NEW p \in 1..Len(Trees(k))
  PROVE  \A y \in IndexEntry(k, index, p) : y[3] \in Key /\ y[1] \in TreesOf(Trees(y[3]))
BY DEF IndexEntry, TreesOf

LEMMA WriteOwnTrees ==
  ASSUME NEW s, GoodStore(s), NEW w, TypedWork(w), OwnTrees(s)
  PROVE  OwnTrees(WriteStore(s, w))
<1>1. /\ w.stage \in {"seq", "unindex", "put", "index"} /\ w.key \in Key
      /\ w.row.index \in IndexesFor(w.key) /\ w.pos \in 1..Len(Trees(w.key))
  BY WorkFacts
<1>2. WriteStore(s, w).idx \subseteq s.idx \cup IndexEntry(w.key, w.row.index, w.pos)
  BY <1>1, WriteSeq, WriteUnindex, WritePut, WriteIndex
<1> QED BY <1>1, <1>2, EntryInOwnTree DEF OwnTrees

TicketFields == {"status", "assignee", "account", "project"}

LEMMA TicketTreesFacts ==
  /\ \A t \in Ids : t \in Key /\ t \notin Uuids /\ Trees(t) = TicketTrees /\ t # 0
  /\ \A field \in TicketFields : \E p \in 1..Len(TicketTrees) : TicketTrees[p] = field
  /\ \A field \in TicketFields, k \in Key : field \in TreesOf(Trees(k)) => k \in Ids
<1>1. \A t \in Ids : t \in Key /\ t \notin Uuids /\ Trees(t) = TicketTrees /\ t # 0
  BY StorageAssumption DEF Ids, Key, Trees
<1>2. \A field \in TicketFields : field \in TreesOf(TicketTrees)
  BY StorageAssumption DEF TicketFields
<1>3. \A field \in TicketFields : field \notin TreesOf(UserTrees)
  BY <1>2, StorageAssumption
<1>4. \A field \in TicketFields : \E p \in 1..Len(TicketTrees) : TicketTrees[p] = field
  BY <1>2 DEF TreesOf
<1>5. \A field \in TicketFields, k \in Key : field \in TreesOf(Trees(k)) => k \in Ids
  BY <1>3 DEF Key, Trees
<1> QED BY <1>1, <1>4, <1>5

LEMMA FilterFacts ==
  \A f \in Filters : f.limit \in Nat /\ f.include_deleted \in BOOLEAN
BY ReplicaAssumption

\* A store without the row of k shows a ticket as rows d do.
ShowsBut(s, d, k) ==
  /\ IndexedBut(s, k)
  /\ \A t \in Ids \ {k} : t \in DOMAIN d => t \in DOMAIN s.rows /\ s.rows[t] = d[t]

LEMMA SettledShows ==
  ASSUME NEW s, NEW d, Settled(s, d)
  PROVE  ShowsBut(s, d.rows, 0)
BY DEF Settled, ShowsBut

LEMMA FollowingShows ==
  ASSUME NEW s, NEW w, NEW b \in Db, NEW e, Following(s, w, b, e), TypedWork(w)
  PROVE  ShowsBut(s, b.rows, w.key)
<1>1. /\ w.key \in Key /\ w.row \in Row
  BY WorkFacts
<1>2. b.rows \in RowMap
  BY DEF Db
<1>3. /\ s.rows = IF w.stage = "index" THEN WithRow(b.rows, w.key, w.row) ELSE b.rows
      /\ IndexedBut(s, w.key)
  BY DEF Following
<1>4. \A x \in DOMAIN b.rows : x # w.key =>
        /\ x \in DOMAIN WithRow(b.rows, w.key, w.row)
        /\ WithRow(b.rows, w.key, w.row)[x] = b.rows[x]
  BY <1>1, <1>2, WithRowFacts
<1>5. \A x \in DOMAIN b.rows : x # w.key => x \in DOMAIN s.rows /\ s.rows[x] = b.rows[x]
  BY <1>3, <1>4
<1> QED BY <1>3, <1>5 DEF ShowsBut

\* What such a store says of a ticket that a filter asks for.
LEMMA ShownIsFound ==
  ASSUME NEW s, NEW d, NEW k, NEW f, ShowsBut(s, d, k), NEW t \in Answer(d, f), t # k
  PROVE  /\ t \in DOMAIN s.rows /\ Visible(s.rows[t], f) /\ Matches(s.rows[t], f)
         /\ t \in Candidates(s, f)
<1>1. t \in DOMAIN d /\ t \in Ids /\ Visible(d[t], f) /\ Matches(d[t], f)
  BY DEF Answer
<1>2. t \in DOMAIN s.rows /\ s.rows[t] = d[t]
  BY <1>1 DEF ShowsBut
<1>3. Visible(s.rows[t], f) /\ Matches(s.rows[t], f)
  BY <1>1, <1>2
<1>4. t \in AllTicketIds(s)
  BY <1>1, <1>2 DEF AllTicketIds
<1>5. ASSUME ~ f.include_deleted, NEW field \in TicketFields, f[field] # NoValue
      PROVE  t \in ScanIndexIds(s, field, f[field])
  <2>1. ~ s.rows[t].deleted
    BY <1>3, <1>5 DEF Visible
  <2>2. s.rows[t].index[field] = f[field]
    BY <1>3, <1>5 DEF Matches, TicketFields
  <2>3. PICK p \in 1..Len(Trees(t)) : Trees(t)[p] = field
    BY <1>1, TicketTreesFacts
  <2>4. IndexEntry(t, s.rows[t].index, p) = {<<field, f[field], t>>}
    BY <1>5, <2>2, <2>3 DEF IndexEntry
  <2>5. <<field, f[field], t>> \in s.idx
    BY <1>2, <2>1, <2>4 DEF ShowsBut, IndexedBut
  <2> QED BY <2>5 DEF ScanIndexIds
<1>6. t \in Candidates(s, f)
  BY <1>4, <1>5 DEF Candidates, TicketFields
<1> QED BY <1>2, <1>3, <1>6

\* Only tickets are candidates.
LEMMA CandidatesAreTickets ==
  ASSUME NEW s, OwnTrees(s), NEW f
  PROVE  Candidates(s, f) \subseteq Ids
<1>1. ASSUME NEW field \in TicketFields, NEW v
      PROVE  ScanIndexIds(s, field, v) \subseteq Ids
  BY <1>1, TicketTreesFacts DEF ScanIndexIds, OwnTrees
<1>2. AllTicketIds(s) \subseteq Ids
  BY DEF AllTicketIds
<1> QED BY <1>1, <1>2 DEF Candidates, TicketFields

\* A query that was made has its parts.
QueryShape ==
  query = NoQuery \/
    query \in [pc : {"reading", "done"}, node : Nodes, filter : Filters, out : SUBSET Key,
               left : SUBSET Key, asked : SUBSET Ids, touched : SUBSET Key]

\* What a query asks for throughout, the log asks for, before and after the entry
\* that the node is carrying out.
Asks ==
  LET n == query.node
      f == query.filter
  IN  /\ query.asked \subseteq Answer(hist[applied[n] + 1].rows, f)
      /\ work[n] # NoWork =>
           /\ query.asked \subseteq Answer(hist[applied[n]].rows, f)
           /\ work[n].key \in query.touched

\* The limit cut t off.
CutOff(q, t) ==
  /\ q.filter.limit > 0
  /\ Cardinality(q.out) = q.filter.limit
  /\ \A x \in q.out : x < t

\* How far a query has come: what it asks for was found, is still to be read, or is
\* cut off.
Progress(q) ==
  /\ q.left \subseteq Ids
  /\ q.out \subseteq Ids
  /\ IsFiniteSet(q.out)
  /\ \A x \in q.out, y \in q.left : x < y
  /\ (q.left # {} /\ q.filter.limit > 0) => Cardinality(q.out) < q.filter.limit
  /\ \A t \in (q.asked \ q.touched) \ q.out : t \in q.left \/ CutOff(q, t)

QueryInv ==
  /\ \A n \in Nodes : OwnTrees(store[n])
  /\ QueryShape
  /\ (query.pc = "reading" /\ query.node \in clean) => Progress(query) /\ Asks
  /\ QueriesComplete

\* A ticket that a query asks for and nobody wrote is where the query looks for it.
LEMMA AskedIsFound ==
  ASSUME DbInv, NEW n \in clean, NEW f, NEW asked, NEW touched,
         asked \subseteq Answer(hist[applied[n] + 1].rows, f),
         work[n] # NoWork =>
           asked \subseteq Answer(hist[applied[n]].rows, f) /\ work[n].key \in touched,
         NEW t \in asked \ touched
  PROVE  /\ t \in DOMAIN store[n].rows
         /\ Visible(store[n].rows[t], f) /\ Matches(store[n].rows[t], f)
         /\ t \in Candidates(store[n], f)
<1>1. t \in Ids /\ t # 0
  BY TicketTreesFacts DEF Answer
<1>2. CASE work[n] = NoWork
  <2>1. Settled(store[n], hist[applied[n] + 1])
    BY <1>2 DEF DbInv, CleanInv
  <2>2. ShowsBut(store[n], hist[applied[n] + 1].rows, 0)
    BY <2>1, SettledShows
  <2> QED BY <1>1, <2>2, ShownIsFound
<1>3. CASE work[n] # NoWork
  <2>1. /\ applied[n] \in 1..Len(log)
        /\ Following(store[n], work[n], hist[applied[n]], log[applied[n]])
    BY <1>3 DEF DbInv, CleanInv
  <2>2. TypedWork(work[n])
    BY <1>3 DEF DbInv, NodeTypes
  <2>3. hist[applied[n]] \in Db
    BY <2>1 DEF DbInv, LogInv
  <2>4. ShowsBut(store[n], hist[applied[n]].rows, work[n].key)
    BY <2>1, <2>2, <2>3, FollowingShows
  <2>5. t # work[n].key /\ t \in Answer(hist[applied[n]].rows, f)
    BY <1>3
  <2> QED BY <2>4, <2>5, ShownIsFound
<1> QED BY <1>2, <1>3

LEMMA InitQueryInv == Init => QueryInv
BY DEF Init, QueryInv, OwnTrees, EmptyStore, QueryShape, QueriesComplete, NoQuery

\* What leaves the query alone and changes nothing that the query's node shows.
LEMMA QueryStays ==
  ASSUME DbInv, QueryInv, query' = query, clean' \subseteq clean,
         \A n \in Nodes : OwnTrees(store'[n]),
         (query.pc = "reading" /\ query.node \in clean') => Asks'
  PROVE  QueryInv'
<1>1. QueryShape' /\ QueriesComplete'
  BY DEF QueryInv, QueryShape, QueriesComplete
<1>2. ASSUME query'.pc = "reading", query'.node \in clean' PROVE Progress(query') /\ Asks'
  BY <1>2 DEF QueryInv
<1> QED BY <1>1, <1>2 DEF QueryInv

LEMMA ProposeQuery ==
  ASSUME DbInv, QueryInv, NEW e \in Entry, Propose(e)
  PROVE  QueryInv'
<1>1. /\ hist' = Append(hist, Effect(hist[Len(hist)], e))
      /\ UNCHANGED <<run, store, applied, work, clean, crashes, query, queries>>
  BY DEF Propose, nodeVars, queryVars
<1>2. hist \in Seq(Db) /\ Len(hist) = Len(log) + 1 /\ Len(log) \in Nat
  BY DEF DbInv, LogInv
<1>3. Effect(hist[Len(hist)], e) \in Db
  BY <1>2, EffectTypes
<1>4. \A i \in 1..Len(hist) : hist'[i] = hist[i]
  BY <1>1, <1>2, <1>3
<1>5. ASSUME query.pc = "reading", query.node \in clean PROVE Asks'
  <2> DEFINE n == query.node
  <2>1. n \in Nodes /\ applied[n] \in Nat /\ applied[n] <= Len(log)
    BY <1>5 DEF DbInv, NodeTypes
  <2>2. applied[n] + 1 \in 1..Len(hist) /\ hist'[applied[n] + 1] = hist[applied[n] + 1]
    BY <1>2, <1>4, <2>1
  <2>3. work[n] # NoWork => hist'[applied[n]] = hist[applied[n]]
    <3>1. work[n] # NoWork => applied[n] \in 1..Len(log)
      BY <1>5 DEF DbInv, CleanInv
    <3> QED BY <1>2, <1>4, <3>1
  <2>4. Asks
    BY <1>5 DEF QueryInv
  <2> QED BY <1>1, <2>2, <2>3, <2>4 DEF Asks
<1> QED BY <1>1, <1>5, QueryStays DEF QueryInv

LEMMA KeyOfType ==
  ASSUME NEW seq \in Nat, NEW e \in Entry
  PROVE  KeyOf(seq, e) \in Key
<1>1. CASE e.op = "create_ticket"
  BY <1>1 DEF KeyOf, Key, Ids
<1>2. CASE e.op # "create_ticket"
  BY <1>2 DEF KeyOf, Entry, Key
<1> QED BY <1>1, <1>2

\* The node that the query reads begins an entry.
LEMMA BeginApplyQuery ==
  ASSUME DbInv, QueryInv, NEW n \in Nodes, BeginApply(n)
  PROVE  QueryInv'
<1> DEFINE i == applied[n] + 1
           k == KeyOf(store[n].seq, log[i])
<1>1. /\ work[n] = NoWork /\ i <= Len(log)
      /\ applied' = [applied EXCEPT ![n] = i]
      /\ query' = Overlap(n, i)
      /\ UNCHANGED <<log, hist, store, clean>>
  BY DEF BeginApply, raftVars
<1>2. /\ applied[n] \in Nat /\ log[i] \in Entry /\ store[n].seq \in Nat
      /\ DOMAIN applied = Nodes /\ DOMAIN work = Nodes /\ clean \subseteq Nodes
      /\ GoodStore(store[n])
  BY <1>1 DEF DbInv, LogInv, NodeTypes, GoodStore, Store
<1>3. work' = work \/ (~ Fails(store[n].rows, log[i]) /\
                       work' = [work EXCEPT ![n] = Begin(store[n], log[i])])
  BY DEF BeginApply
<1>4. \A m \in Nodes \ {n} : work'[m] = work[m] /\ applied'[m] = applied[m]
  BY <1>1, <1>2, <1>3
<1>5. /\ applied'[n] = i
      /\ work'[n] # NoWork => work'[n].key = k
  BY <1>1, <1>2, <1>3, BeginFacts
<1>6. k \in Key
  BY <1>2, KeyOfType
<1> HIDE DEF k
<1>7. CASE ~ (query.pc = "reading" /\ query.node = n)
  <2>1. query' = query
    BY <1>1, <1>7 DEF Overlap
  <2>2. ASSUME query.pc = "reading", query.node \in clean PROVE Asks'
    <3>1. query.node \in Nodes \ {n}
      BY <1>2, <1>7, <2>2
    <3> QED BY <1>1, <1>4, <2>1, <2>2, <3>1 DEF QueryInv, Asks
  <2> QED BY <1>1, <2>1, <2>2, QueryStays DEF QueryInv
<1>8. CASE query.pc = "reading" /\ query.node = n
  <2>1. query' = [query EXCEPT !.asked = @ \cap Answer(hist[i + 1].rows, query.filter),
                               !.touched = @ \cup {k}]
    BY <1>1, <1>8 DEF Overlap, Prescribed, k
  <2>2. query \in [pc : {"reading", "done"}, node : Nodes, filter : Filters, out : SUBSET Key,
                   left : SUBSET Key, asked : SUBSET Ids, touched : SUBSET Key]
    BY <1>8 DEF QueryInv, QueryShape, NoQuery
  <2>3. /\ query'.pc = "reading" /\ query'.node = n /\ query'.filter = query.filter
        /\ query'.out = query.out /\ query'.left = query.left
        /\ query'.asked = query.asked \cap Answer(hist[i + 1].rows, query.filter)
        /\ query'.touched = query.touched \cup {k}
    BY <1>8, <2>1, <2>2
  <2>4. query' \in [pc : {"reading", "done"}, node : Nodes, filter : Filters, out : SUBSET Key,
                    left : SUBSET Key, asked : SUBSET Ids, touched : SUBSET Key]
    BY <1>6, <2>1, <2>2
  <2>5. ASSUME n \in clean PROVE Progress(query') /\ Asks'
    <3>1. Progress(query) /\ Asks
      BY <1>8, <2>5 DEF QueryInv
    <3>2. Progress(query')
      BY <2>3, <3>1 DEF Progress, CutOff
    <3>3. query.asked \subseteq Answer(hist[i].rows, query.filter)
      BY <1>8, <3>1 DEF Asks
    <3>4. Asks'
      BY <1>1, <1>5, <2>3, <3>3 DEF Asks
    <3> QED BY <3>2, <3>4
  <2>6. QueriesComplete'
    BY <2>3 DEF QueriesComplete
  <2> QED BY <1>1, <2>3, <2>4, <2>5, <2>6 DEF QueryInv, QueryShape
<1> QED BY <1>7, <1>8

LEMMA WriteQuery ==
  ASSUME DbInv, QueryInv, NEW n \in Nodes, Write(n)
  PROVE  QueryInv'
<1> DEFINE s == store[n]
           w == work[n]
           t == WriteStore(s, w)
           v == AfterWrite(w)
<1>1. /\ w # NoWork
      /\ store' = [store EXCEPT ![n] = t] /\ work' = [work EXCEPT ![n] = v]
      /\ UNCHANGED <<log, hist, applied, clean, query>>
  BY DEF Write, raftVars, queryVars
<1>2. GoodStore(s) /\ TypedWork(w)
  BY <1>1 DEF DbInv, NodeTypes
<1>3. v # NoWork => v.key = w.key
  <2>1. w.stage \in {"seq", "unindex", "put", "index"}
    BY <1>2, WorkFacts
  <2> QED BY <2>1 DEF AfterWrite, MoveTo, Work
<1>4. OwnTrees(t)
  BY <1>2, WriteOwnTrees DEF QueryInv
<1> HIDE DEF t, v
<1>5. DOMAIN store = Nodes /\ DOMAIN work = Nodes /\ clean \subseteq Nodes
  BY DEF DbInv, NodeTypes
<1>6. \A m \in Nodes : OwnTrees(store'[m])
  BY <1>1, <1>4, <1>5 DEF QueryInv
<1>7. ASSUME query.pc = "reading", query.node \in clean PROVE Asks'
  <2>1. Asks
    BY <1>7 DEF QueryInv
  <2>2. work'[query.node] # NoWork =>
          work[query.node] # NoWork /\ work'[query.node].key = work[query.node].key
    BY <1>1, <1>3, <1>5, <1>7
  <2> QED BY <1>1, <2>1, <2>2 DEF Asks
<1> QED BY <1>1, <1>6, <1>7, QueryStays

LEMMA CrashQuery ==
  ASSUME DbInv, QueryInv, NEW n \in Nodes, Crash(n)
  PROVE  QueryInv'
<1>1. /\ work' = [work EXCEPT ![n] = NoWork] /\ clean' = clean \ {n}
      /\ query' = IF query.pc # "idle" /\ query.node = n THEN NoQuery ELSE query
      /\ UNCHANGED <<log, hist, store, applied>>
  BY DEF Crash, raftVars
<1>2. DOMAIN work = Nodes /\ clean \subseteq Nodes
  BY DEF DbInv, NodeTypes
<1>3. CASE query' = NoQuery
  BY <1>1, <1>3 DEF QueryInv, QueryShape, NoQuery, QueriesComplete
<1>4. CASE query' = query
  <2>1. ASSUME query.pc = "reading", query.node \in clean' PROVE Asks'
    <3>1. query.node \in clean /\ query.node # n /\ query.node \in Nodes
      BY <1>1, <1>2, <2>1
    <3>2. work'[query.node] = work[query.node]
      BY <1>1, <1>2, <3>1
    <3> QED BY <1>1, <1>4, <2>1, <3>1, <3>2 DEF QueryInv, Asks
  <2> QED BY <1>1, <1>4, <2>1, QueryStays DEF QueryInv
<1> QED BY <1>1, <1>3, <1>4

LEMMA RestartQuery ==
  ASSUME DbInv, QueryInv, NEW n \in Nodes, Restart(n)
  PROVE  QueryInv'
<1>1. /\ run[n] = "down" /\ applied' = [applied EXCEPT ![n] = 0]
      /\ UNCHANGED <<log, hist, store, work, clean, query>>
  BY DEF Restart, raftVars, queryVars
<1>2. DOMAIN applied = Nodes /\ clean \subseteq Nodes /\ n \notin clean
  BY <1>1 DEF DbInv, NodeTypes, CleanInv
<1>3. ASSUME query.pc = "reading", query.node \in clean PROVE Asks'
  <2>1. applied'[query.node] = applied[query.node]
    BY <1>1, <1>2, <1>3
  <2> QED BY <1>1, <1>3, <2>1 DEF QueryInv, Asks
<1> QED BY <1>1, <1>3, QueryStays DEF QueryInv

\* The scan finds every ticket that the query will be asked for.
LEMMA QueryScanQuery ==
  ASSUME DbInv, QueryInv, NEW n \in Nodes, NEW f \in Filters, QueryScan(n, f)
  PROVE  QueryInv'
<1> DEFINE left == Candidates(store[n], f)
           asked == Answer(Prescribed(applied[n]).rows, f) \cap
                      (IF work[n] = NoWork THEN Ids
                       ELSE Answer(Prescribed(applied[n] - 1).rows, f))
           touched == IF work[n] = NoWork THEN {} ELSE {work[n].key}
<1>1. /\ query' = [pc |-> "reading", node |-> n, filter |-> f, out |-> {}, left |-> left,
                   asked |-> asked, touched |-> touched]
      /\ UNCHANGED <<log, hist, store, applied, work, clean>>
  BY DEF QueryScan, raftVars, nodeVars
<1>2. /\ applied[n] \in Nat
      /\ work[n] = NoWork \/ TypedWork(work[n])
  BY DEF DbInv, NodeTypes
<1>3. left \subseteq Ids
  BY CandidatesAreTickets DEF QueryInv
<1>4. /\ asked \subseteq Ids
      /\ asked \subseteq Answer(hist[applied[n] + 1].rows, f)
      /\ work[n] # NoWork =>
           asked \subseteq Answer(hist[applied[n]].rows, f) /\ work[n].key \in touched
  <2>1. (applied[n] - 1) + 1 = applied[n]
    BY <1>2
  <2> QED BY <2>1 DEF Prescribed, Answer
<1>5. touched \subseteq Key
  BY <1>2, WorkFacts
<1>6. \A t \in asked \ touched : n \in clean => t \in left
  <2> SUFFICES ASSUME NEW t \in asked \ touched, n \in clean PROVE t \in left
    OBVIOUS
  <2> HIDE DEF asked, touched
  <2>1. t \in Candidates(store[n], f)
    BY <1>4, AskedIsFound
  <2> QED BY <2>1
<1> HIDE DEF left, asked, touched
<1>7. QueryShape'
  BY <1>1, <1>3, <1>4, <1>5 DEF QueryShape, Key
<1>8. n \in clean => Progress(query')
  <2>1. IsFiniteSet({}) /\ Cardinality({}) = 0
    BY FS_EmptySet
  <2>2. /\ query'.left = left /\ query'.out = {} /\ query'.asked = asked
        /\ query'.touched = touched /\ query'.filter = f
    BY <1>1
  <2> QED BY <1>3, <1>6, <2>1, <2>2, FilterFacts DEF Progress
<1>9. Asks'
  <2>1. query'.node = n /\ query'.filter = f /\ query'.asked = asked /\ query'.touched = touched
    BY <1>1
  <2> QED BY <1>1, <1>4, <2>1 DEF Asks
<1>10. query'.pc = "reading" /\ query'.node = n
  BY <1>1
<1>11. QueriesComplete'
  BY <1>10 DEF QueriesComplete
<1> QED BY <1>1, <1>7, <1>8, <1>9, <1>10, <1>11 DEF QueryInv

\* The next row is read: the least one that is left.
LEMMA QueryReadQuery ==
  ASSUME DbInv, QueryInv, QueryRead
  PROVE  QueryInv'
<1> DEFINE n == query.node
           f == query.filter
           k == CHOOSE x \in query.left : \A y \in query.left : x <= y
           rows == store[n].rows
           hit == k \in DOMAIN rows /\ Visible(rows[k], f) /\ Matches(rows[k], f)
           out == IF hit THEN query.out \cup {k} ELSE query.out
           left == IF hit /\ f.limit > 0 /\ Cardinality(out) >= f.limit
                   THEN {} ELSE query.left \ {k}
<1>1. /\ query.pc = "reading" /\ query.left # {}
      /\ query' = [query EXCEPT !.out = out, !.left = left]
      /\ UNCHANGED <<log, hist, store, applied, work, clean>>
  BY DEF QueryRead, raftVars, nodeVars
<1>2. query \in [pc : {"reading", "done"}, node : Nodes, filter : Filters, out : SUBSET Key,
                 left : SUBSET Key, asked : SUBSET Ids, touched : SUBSET Key]
  BY <1>1 DEF QueryInv, QueryShape, NoQuery
<1>3. n \in Nodes /\ DOMAIN rows \subseteq Key /\ f.limit \in Nat
  <2>1. n \in Nodes /\ f \in Filters
    BY <1>2
  <2>2. rows \in RowMap
    BY <2>1 DEF DbInv, NodeTypes, Store
  <2> QED BY <2>1, <2>2, RowMapFacts, FilterFacts
<1>4. out \subseteq Key /\ left \subseteq Key
  BY <1>2, <1>3
<1>5. n \in clean => \A t \in query.asked \ query.touched :
        t \in DOMAIN rows /\ Visible(rows[t], f) /\ Matches(rows[t], f)
  <2>1. n \in clean => Asks
    BY <1>1 DEF QueryInv
  <2> QED BY <2>1, AskedIsFound DEF Asks
<1>6. ASSUME n \in clean PROVE k \in query.left /\ \A y \in query.left : k <= y
  <2>1. query.left \subseteq Nat /\ query.left # {}
    BY <1>1, <1>6 DEF QueryInv, Progress, Ids
  <2> QED BY <2>1, LeastId
<1> HIDE DEF k
<1>7. hit \in BOOLEAN
  OBVIOUS
<1>8. out = (IF hit THEN query.out \cup {k} ELSE query.out)
  OBVIOUS
<1>9. left = (IF hit /\ f.limit > 0 /\ Cardinality(out) >= f.limit THEN {} ELSE query.left \ {k})
  OBVIOUS
<1>10. n \in clean => \A t \in query.asked \ query.touched : t = k => hit
  BY <1>5
<1> HIDE DEF hit, out, left, rows
<1>11. /\ query'.pc = "reading" /\ query'.node = n /\ query'.filter = f
       /\ query'.out = out /\ query'.left = left
       /\ query'.asked = query.asked /\ query'.touched = query.touched
  BY <1>1, <1>2
<1>12. QueryShape'
  BY <1>1, <1>2, <1>4 DEF QueryShape
<1>13. ASSUME n \in clean PROVE Progress(query')
  <2>1. /\ query.left \subseteq Ids /\ query.out \subseteq Ids /\ IsFiniteSet(query.out)
        /\ \A x \in query.out, y \in query.left : x < y
        /\ f.limit > 0 => Cardinality(query.out) < f.limit
        /\ \A t \in (query.asked \ query.touched) \ query.out : t \in query.left \/ CutOff(query, t)
    BY <1>1, <1>13 DEF QueryInv, Progress
  <2>2. k \in query.left /\ k \in Ids /\ (\A y \in query.left : k <= y)
    BY <1>6, <1>13, <2>1
  <2>3. Cardinality(query.out) \in Nat
    BY <2>1, FS_CardinalityType
  <2>4. k \notin query.out
    BY <2>1, <2>2 DEF Ids
  <2>5. /\ IsFiniteSet(query.out \cup {k})
        /\ Cardinality(query.out \cup {k}) = Cardinality(query.out) + 1
    BY <2>1, <2>4, FS_AddElement
  <2>6. \A t \in (query.asked \ query.touched) \ query.out : t \in query.left
    BY <1>3, <2>1, <2>3 DEF CutOff
  <2>7. \A t \in (query.asked \ query.touched) \ out : t \in query.left \ {k} /\ k < t
    <3> SUFFICES ASSUME NEW t \in (query.asked \ query.touched) \ out
                 PROVE  t \in query.left \ {k} /\ k < t
      OBVIOUS
    <3>1. t # k /\ t \notin query.out
      BY <1>8, <1>10, <1>13
    <3>2. t \in query.left
      BY <2>6, <3>1
    <3> QED BY <2>1, <2>2, <3>1, <3>2 DEF Ids
  <2>8. \A y \in query.left \ {k} : k < y
    BY <2>1, <2>2 DEF Ids
  <2>9. CASE ~ hit
    <3>1. out = query.out /\ left = query.left \ {k}
      BY <1>8, <1>9, <2>9
    <3> QED BY <1>11, <2>1, <2>7, <3>1 DEF Progress
  <2>10. CASE hit /\ ~ (f.limit > 0 /\ Cardinality(out) >= f.limit)
    <3>1. out = query.out \cup {k} /\ left = query.left \ {k}
      BY <1>8, <1>9, <2>10
    <3>2. f.limit > 0 => Cardinality(out) < f.limit
      BY <1>3, <2>3, <2>5, <2>10, <3>1
    <3>3. \A x \in out, y \in left : x < y
      BY <2>1, <2>8, <3>1
    <3> QED BY <1>11, <2>1, <2>2, <2>5, <2>7, <3>1, <3>2, <3>3 DEF Progress
  <2>11. CASE hit /\ f.limit > 0 /\ Cardinality(out) >= f.limit
    <3>1. out = query.out \cup {k} /\ left = {}
      BY <1>8, <1>9, <2>11
    <3>2. Cardinality(out) = f.limit
      BY <1>3, <2>1, <2>3, <2>5, <2>11, <3>1
    <3>3. \A t \in (query.asked \ query.touched) \ out : \A x \in out : x < t
      BY <2>1, <2>7, <3>1
    <3> QED BY <1>11, <2>1, <2>2, <2>5, <2>11, <3>1, <3>2, <3>3 DEF Progress, CutOff
  <2> QED BY <2>9, <2>10, <2>11
<1>14. n \in clean => Asks'
  BY <1>1, <1>11 DEF QueryInv, Asks
<1>15. QueriesComplete'
  BY <1>11 DEF QueriesComplete
<1> QED BY <1>1, <1>11, <1>12, <1>13, <1>14, <1>15 DEF QueryInv

LEMMA QueryReturnQuery ==
  ASSUME DbInv, QueryInv, QueryReturn
  PROVE  QueryInv'
<1>1. /\ query.pc = "reading" /\ query.left = {}
      /\ query' = [query EXCEPT !.pc = "done"]
      /\ UNCHANGED <<store, clean>>
  BY DEF QueryReturn, nodeVars
<1>2. query \in [pc : {"reading", "done"}, node : Nodes, filter : Filters, out : SUBSET Key,
                 left : SUBSET Key, asked : SUBSET Ids, touched : SUBSET Key]
  BY <1>1 DEF QueryInv, QueryShape, NoQuery
<1>3. /\ query'.pc = "done" /\ query'.node = query.node /\ query'.filter = query.filter
      /\ query'.out = query.out /\ query'.asked = query.asked
      /\ query'.touched = query.touched
  BY <1>1, <1>2
<1>4. QueryShape'
  BY <1>1, <1>2 DEF QueryShape
<1>5. QueriesComplete'
  BY <1>1, <1>3 DEF QueryInv, Progress, CutOff, QueriesComplete
<1> QED BY <1>1, <1>3, <1>4, <1>5 DEF QueryInv

LEMMA NextQueryInv == DbInv /\ QueryInv /\ [Next]_vars => QueryInv'
<1> SUFFICES ASSUME DbInv, QueryInv, [Next]_vars PROVE QueryInv'
  OBVIOUS
<1>1. CASE Writers
  <2>1. \A t \in 1..MaxTicket : t \in Ids
    BY ReplicaAssumption DEF Ids
  <2>2. PICK e \in Entry : Propose(e)
    BY <1>1, <2>1 DEF Writers, ProposeCreateTicket, ProposeUpdateTicket,
         ProposeSoftDeleteTicket, ProposeCreateUser, ProposeUpdateUser,
         ProposeSoftDeleteUser, Entry, CreateTicket, Update, SoftDelete, CreateUser, Key
  <2> QED BY <2>2, ProposeQuery
<1>2. CASE Readers
  BY <1>2, QueryScanQuery, QueryReadQuery, QueryReturnQuery DEF Readers
<1>3. CASE \E n \in Nodes : BeginApply(n) \/ Write(n) \/ Crash(n) \/ Restart(n)
  BY <1>3, BeginApplyQuery, WriteQuery, CrashQuery, RestartQuery
<1>4. CASE UNCHANGED vars
  <2>1. UNCHANGED <<hist, applied, work, store, clean, query>>
    BY <1>4 DEF vars, raftVars, nodeVars, queryVars
  <2>2. (query.pc = "reading" /\ query.node \in clean) => Asks'
    BY <2>1 DEF QueryInv, Asks
  <2> QED BY <2>1, <2>2, QueryStays DEF QueryInv
<1> QED BY <1>1, <1>2, <1>3, <1>4 DEF Next

\* A query at a node that never stopped returns every ticket that it asks for and that
\* nobody wrote meanwhile, but for the highest ids when there is a limit
\* (query_tickets: one scan, then one row after the other while apply goes on).
THEOREM QueriesAreComplete == Spec => []QueriesComplete
<1>1. QueryInv => QueriesComplete
  BY DEF QueryInv
<1> QED BY <1>1, InitQueryInv, NextQueryInv, DbInvariant, PTL DEF Spec

-----------------------------------------------------------------------------
(* Readers of a node that never stopped see a replicated store: the state  *)
(* that an entry leads to shows when its row is put, between the writes to *)
(* the counter and the indexes, and no other write shows.                  *)

\* Which state of the log the rows of n are: that before the entry which n is
\* applying until its row is put, that after it from then on.
Reached(n) ==
  IF work[n].stage \in {"seq", "unindex", "put"} THEN applied[n] ELSE applied[n] + 1

R == INSTANCE Replicas WITH
       Initial <- EmptyStore.rows,
       states  <- [i \in 1..Len(hist) |-> hist[i].rows],
       at      <- [n \in clean |-> Reached(n)],
       shown   <- [n \in clean |-> store[n].rows]

Position == [n \in clean |-> Reached(n)]

Shown == [n \in clean |-> store[n].rows]

States == [i \in 1..Len(hist) |-> hist[i].rows]

CleanPrescribed ==
  \A n \in clean :
    /\ n \in Nodes
    /\ Reached(n) \in 1..Len(hist)
    /\ store[n].rows = hist[Reached(n)].rows

LEMMA CleanStore == DbInv => CleanPrescribed
<1> SUFFICES ASSUME DbInv, NEW n \in clean
             PROVE  /\ n \in Nodes
                    /\ Reached(n) \in 1..Len(hist)
                    /\ store[n].rows = hist[Reached(n)].rows
  BY DEF CleanPrescribed
<1>1. /\ n \in Nodes /\ applied[n] \in 0..Len(log)
      /\ work[n] = NoWork \/ TypedWork(work[n])
      /\ Len(log) \in Nat /\ Len(hist) = Len(log) + 1
  BY DEF DbInv, NodeTypes, LogInv
<1>2. CASE work[n] = NoWork
  <2>1. Reached(n) = applied[n] + 1
    BY <1>2 DEF Reached, NoWork
  <2>2. store[n].rows = hist[applied[n] + 1].rows
    BY <1>2 DEF DbInv, CleanInv, Settled
  <2> QED BY <1>1, <2>1, <2>2
<1>3. CASE work[n] # NoWork
  <2>1. /\ applied[n] \in 1..Len(log)
        /\ Following(store[n], work[n], hist[applied[n]], log[applied[n]])
        /\ hist[applied[n] + 1] = Effect(hist[applied[n]], log[applied[n]])
    BY <1>3 DEF DbInv, CleanInv, LogInv
  <2>2. work[n].stage \in {"seq", "unindex", "put", "index"}
    BY <1>1, <1>3, WorkFacts
  <2>3. CASE work[n].stage = "index"
    BY <1>1, <2>1, <2>3 DEF Reached, Following, Effect
  <2>4. CASE work[n].stage # "index"
    BY <1>1, <2>1, <2>2, <2>4 DEF Reached, Following
  <2> QED BY <2>3, <2>4
<1> QED BY <1>2, <1>3

LEMMA InitReplicas == Init => R!Init
<1> SUFFICES ASSUME Init PROVE R!Init
  OBVIOUS
<1>1. /\ [n \in clean |-> Reached(n)] = [n \in Nodes |-> 1]
      /\ [n \in clean |-> store[n].rows] = [n \in Nodes |-> EmptyStore.rows]
  BY DEF Init, Reached, NoWork
<1>2. [i \in 1..Len(hist) |-> hist[i].rows] = <<EmptyStore.rows>>
  BY DEF Init
<1> QED BY <1>1, <1>2 DEF R!Init

\* A step of one node that never stopped lets it go on, or cannot be seen.
LEMMA NodeStepReplicas ==
  ASSUME DbInv, DbInv', NEW n \in Nodes, hist' = hist, clean' = clean,
         \A m \in clean \ {n} : Position'[m] = Position[m] /\ Shown'[m] = Shown[m],
         n \in clean => Position[n] <= Position'[n]
  PROVE  [R!Next]_(R!vars)
<1>1. CleanPrescribed /\ CleanPrescribed'
  BY CleanStore, PTL
<1>2. /\ DOMAIN Position = clean /\ DOMAIN Shown = clean
      /\ DOMAIN Position' = clean /\ DOMAIN Shown' = clean
      /\ Position = [m \in clean |-> Position[m]] /\ Shown = [m \in clean |-> Shown[m]]
      /\ Position' = [m \in clean |-> Position'[m]] /\ Shown' = [m \in clean |-> Shown'[m]]
  BY DEF Position, Shown
<1>3. States' = States /\ DOMAIN States = 1..Len(hist)
  BY DEF States
<1>4. n \in clean => /\ Position[n] \in 1..Len(hist) /\ Shown[n] = States[Position[n]]
                     /\ Position'[n] \in 1..Len(hist) /\ Shown'[n] = States[Position'[n]]
  BY <1>1 DEF CleanPrescribed, Position, Shown, States
<1>5. CASE n \notin clean \/ Position'[n] = Position[n]
  <2>1. Position' = Position /\ Shown' = Shown
    BY <1>2, <1>4, <1>5
  <2> QED BY <1>3, <2>1 DEF R!vars, Position, Shown, States
<1>6. CASE n \in clean /\ Position'[n] # Position[n]
  <2> DEFINE i == Position'[n]
  <2>1. i \in (Position[n] + 1)..Len(hist) /\ Len(hist) \in Nat
    BY <1>4, <1>6
  <2>2. /\ Position' = [m \in clean \cup {n} |-> IF m = n THEN i ELSE Position[m]]
        /\ Shown' = [m \in clean \cup {n} |-> IF m = n THEN States[i] ELSE Shown[m]]
    BY <1>2, <1>4, <1>6
  <2>3. Len(States) = Len(hist)
    BY <1>3, <2>1
  <2> HIDE DEF i
  <2>4. /\ n \in DOMAIN Position
        /\ \E j \in (Position[n] + 1)..Len(States) :
             /\ Position' = [m \in DOMAIN Position \cup {n} |->
                              IF m = n THEN j ELSE Position[m]]
             /\ Shown' = [m \in DOMAIN Position \cup {n} |->
                           IF m = n THEN States[j] ELSE Shown[m]]
    BY <1>2, <1>6, <2>1, <2>2, <2>3
  <2>5. R!Follow(n)
    BY <1>3, <2>4 DEF R!Follow, R!Show, R!Serving, Position, Shown, States
  <2> QED BY <2>5 DEF R!Next
<1> QED BY <1>5, <1>6

\* A step that moves no node commits a state, or cannot be seen.
LEMMA ProposeReplicas ==
  ASSUME DbInv, NEW e \in Entry, Propose(e)
  PROVE  [R!Next]_(R!vars)
<1>1. hist \in Seq(Db) /\ Len(hist) = Len(log) + 1 /\ Len(log) \in Nat
  BY DEF DbInv, LogInv
<1>2. Effect(hist[Len(hist)], e) \in Db
  BY <1>1, EffectTypes
<1>3. /\ hist' \in Seq(Db) /\ Len(hist') = Len(hist) + 1
      /\ \A i \in 1..Len(hist) : hist'[i] = hist[i]
  BY <1>1, <1>2 DEF Propose
<1>4. /\ Len(States) = Len(hist) /\ Len(States') = Len(hist')
      /\ \A i \in 1..Len(hist) : States[i] = hist[i].rows
      /\ \A i \in 1..Len(hist') : States'[i] = hist'[i].rows
  BY <1>1, <1>3 DEF States
<1>5. /\ Len(States') = Len(States) + 1
      /\ \A i \in 1..Len(States) : States'[i] = States[i]
  BY <1>1, <1>3, <1>4
<1>6. Position' = Position /\ Shown' = Shown
  BY DEF Propose, nodeVars, Position, Shown, Reached
<1> QED BY <1>5, <1>6 DEF R!Next, R!Commit, R!Extend, Position, Shown, States

\* The start of an entry shows only if the entry fails, which is its whole effect.
LEMMA BeginApplyReplicas ==
  ASSUME DbInv, DbInv', NEW n \in Nodes, BeginApply(n)
  PROVE  [R!Next]_(R!vars)
<1> DEFINE i == applied[n] + 1
<1>1. /\ run[n] = "up" /\ work[n] = NoWork /\ i <= Len(log)
      /\ applied' = [applied EXCEPT ![n] = i]
      /\ hist' = hist /\ clean' = clean /\ store' = store
      /\ \/ work' = work
         \/ /\ ~ Fails(store[n].rows, log[i])
            /\ work' = [work EXCEPT ![n] = Begin(store[n], log[i])]
  BY DEF BeginApply, raftVars
<1>2. /\ applied[n] \in Nat /\ log[i] \in Entry /\ GoodStore(store[n])
      /\ DOMAIN work = Nodes /\ DOMAIN applied = Nodes /\ clean \subseteq Nodes
  BY <1>1 DEF DbInv, LogInv, NodeTypes
<1>3. \A m \in clean \ {n} : Position'[m] = Position[m] /\ Shown'[m] = Shown[m]
  BY <1>1, <1>2 DEF Position, Shown, Reached
<1>4. ASSUME n \in clean PROVE Position[n] <= Position'[n]
  <2>1. Position[n] = applied[n] + 1
    BY <1>1, <1>4 DEF Position, Reached, NoWork
  <2>2. applied'[n] = applied[n] + 1
    BY <1>1, <1>2
  <2>3. Position'[n] \in {applied[n] + 1, applied[n] + 1 + 1}
    BY <1>1, <1>4, <2>2 DEF Position, Reached
  <2> QED BY <1>2, <2>1, <2>3
<1> QED BY <1>1, <1>3, <1>4, NodeStepReplicas

\* Of the writes of an entry, only that of the row shows.
LEMMA WriteReplicas ==
  ASSUME DbInv, DbInv', NEW n \in Nodes, Write(n)
  PROVE  [R!Next]_(R!vars)
<1> DEFINE w == work[n]
           v == AfterWrite(w)
<1>1. /\ w # NoWork
      /\ work' = [work EXCEPT ![n] = v]
      /\ store' = [store EXCEPT ![n] = store'[n]]
      /\ hist' = hist /\ clean' = clean /\ applied' = applied
  <2>1. DOMAIN store = Nodes
    BY DEF DbInv, NodeTypes
  <2> QED BY <2>1 DEF Write, raftVars
<1>2. /\ GoodStore(store[n]) /\ TypedWork(w)
      /\ applied[n] \in Nat
      /\ DOMAIN work = Nodes /\ DOMAIN store = Nodes /\ clean \subseteq Nodes
  BY <1>1 DEF DbInv, LogInv, NodeTypes
<1>3. \A m \in clean \ {n} : Position'[m] = Position[m] /\ Shown'[m] = Shown[m]
  BY <1>1, <1>2 DEF Position, Shown, Reached
<1>4. w.stage \in {"seq", "unindex", "put", "index"}
  BY <1>2, WorkFacts
<1>5. w.stage = "index" => v.stage \notin {"seq", "unindex", "put"}
  BY <1>2, WriteIndex DEF NoWork, Work
<1> HIDE DEF v
<1>6. ASSUME n \in clean PROVE Position[n] <= Position'[n]
  <2>1. /\ Position[n] = IF w.stage \in {"seq", "unindex", "put"}
                         THEN applied[n] ELSE applied[n] + 1
        /\ Position'[n] = IF v.stage \in {"seq", "unindex", "put"}
                          THEN applied[n] ELSE applied[n] + 1
    BY <1>1, <1>2, <1>6 DEF Position, Reached
  <2> QED BY <1>2, <1>4, <1>5, <2>1
<1> QED BY <1>1, <1>3, <1>6, NodeStepReplicas

\* A node that crashes stops serving in this sense, and for good.
LEMMA CrashReplicas ==
  ASSUME DbInv, NEW n \in Nodes, Crash(n)
  PROVE  [R!Next]_(R!vars)
<1>1. /\ clean' = clean \ {n} /\ hist' = hist /\ store' = store /\ applied' = applied
      /\ work' = [work EXCEPT ![n] = NoWork]
      /\ DOMAIN work = Nodes /\ clean \subseteq Nodes
  BY DEF DbInv, NodeTypes, Crash, raftVars
<1>2. States' = States
  BY <1>1 DEF States
<1>3. /\ Position' = [m \in clean \ {n} |-> Position[m]]
      /\ Shown' = [m \in clean \ {n} |-> Shown[m]]
  BY <1>1 DEF Position, Shown, Reached
<1>4. DOMAIN Position = clean /\ DOMAIN Shown = clean
  BY DEF Position, Shown
<1>5. CASE n \in clean
  <2>1. R!Leave(n)
    BY <1>2, <1>3, <1>4, <1>5 DEF R!Leave, R!Serving, Position, Shown, States
  <2> QED BY <2>1 DEF R!Next
<1>6. CASE n \notin clean
  <2>1. clean \ {n} = clean
    BY <1>6
  <2>2. Position' = Position /\ Shown' = Shown
    BY <1>3, <2>1 DEF Position, Shown
  <2> QED BY <1>2, <2>2 DEF R!vars, Position, Shown, States
<1> QED BY <1>5, <1>6

LEMMA NextReplicas ==
  DbInv /\ DbInv' /\ [Next]_vars => [R!Next]_(R!vars)
<1> SUFFICES ASSUME DbInv, DbInv', [Next]_vars PROVE [R!Next]_(R!vars)
  OBVIOUS
<1>1. CASE Writers
  <2>1. \A t \in 1..MaxTicket : t \in Ids
    BY ReplicaAssumption DEF Ids
  <2>2. PICK e \in Entry : Propose(e)
    BY <1>1, <2>1 DEF Writers, ProposeCreateTicket, ProposeUpdateTicket,
         ProposeSoftDeleteTicket, ProposeCreateUser, ProposeUpdateUser,
         ProposeSoftDeleteUser, Entry, CreateTicket, Update, SoftDelete, CreateUser, Key
  <2> QED BY <2>2, ProposeReplicas
<1>2. ASSUME UNCHANGED <<hist, store, work, clean>>,
             \A n \in clean : applied'[n] = applied[n]
      PROVE  [R!Next]_(R!vars)
  <2>1. Position' = Position /\ Shown' = Shown /\ States' = States
    BY <1>2 DEF Position, Shown, States, Reached
  <2> QED BY <2>1 DEF R!vars, Position, Shown, States
<1>3. ASSUME NEW n \in Nodes, Restart(n) PROVE [R!Next]_(R!vars)
  <2>1. n \notin clean /\ clean \subseteq Nodes /\ DOMAIN applied = Nodes
    BY <1>3 DEF DbInv, CleanInv, NodeTypes, Restart
  <2> QED BY <1>2, <1>3, <2>1 DEF Restart, raftVars
<1>4. CASE Readers \/ UNCHANGED vars
  BY <1>2, <1>4 DEF Readers, QueryScan, QueryRead, QueryReturn, vars, raftVars, nodeVars
<1> QED BY <1>1, <1>3, <1>4, BeginApplyReplicas, WriteReplicas, CrashReplicas DEF Next

\* While a DB node never stopped, its readers see the rows of one committed state
\* after the other, at any write, although entries are applied one tree write at a
\* time and readers take no lock.
THEOREM CleanNodesAreReplicas == Spec => R!Spec
<1>1. Init => R!Init
  BY InitReplicas
<1> QED
  BY <1>1, NextReplicas, DbInvariant, PTL DEF Spec, R!Spec
=============================================================================
