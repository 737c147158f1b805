-------------------------- MODULE LockTableProofs --------------------------
(***************************************************************************)
(* Facts about the lock state machine that the other proofs cite: it is    *)
(* total on tables and entries, it touches only the ticket of the command, *)
(* and what it does to that ticket depends on that ticket alone.           *)
(***************************************************************************)
EXTENDS LockTable, TLAPS

\* An entry of the log is one of three shapes.
LEMMA EntryCases ==
  ASSUME NEW e \in Entry
  PROVE  \/ /\ e.op = "acquire"
            /\ e \in [op : {"acquire"}, ticket : Tickets, user : Users, at : Int, ttl : Int]
         \/ /\ e.op = "release"
            /\ e \in [op : {"release"}, ticket : Tickets, user : Users]
         \/ e.op = "blank" /\ e = Blank
BY DEF Entry, LockCommand, Blank

\* acquire_lock_at stores an integer expiry.
LEMMA ExpiresAtType ==
  ASSUME NEW at \in Int, NEW ttl \in Int
  PROVE  ExpiresAt(at, ttl) \in Int
BY DEF ExpiresAt

\* apply gives every command an answer.
LEMMA AcceptsType ==
  ASSUME NEW tab \in Table, NEW e \in Entry
  PROVE  Accepts(tab, e) \in BOOLEAN
BY EntryCases DEF Accepts, HeldByAnother, IsExpired

\* apply keeps the tree a table of locks.
LEMMA ApplyEntryType ==
  ASSUME NEW tab \in Table, NEW e \in Entry
  PROVE  ApplyEntry(tab, e) \in Table
<1>1. CASE e.op = "acquire"
  <2>1. e.ticket \in Tickets /\ e.user \in Users /\ e.at \in Int /\ e.ttl \in Int
    BY <1>1, EntryCases
  <2>2. [user |-> e.user, expires |-> ExpiresAt(e.at, e.ttl)] \in LockInfo
    BY <2>1, ExpiresAtType DEF LockInfo
  <2>3. AcquireLockAt(tab, e.ticket, e.user, e.at, e.ttl) \in Table
    BY <2>1, <2>2 DEF AcquireLockAt, Table
  <2> QED BY <1>1, <2>3 DEF ApplyEntry
<1>2. CASE e.op = "release"
  <2>1. StorageReleaseLock(tab, e.ticket) \in Table
    BY DEF StorageReleaseLock, Table
  <2> QED BY <1>2, <2>1 DEF ApplyEntry
<1>3. CASE e.op = "blank"
  BY <1>3 DEF ApplyEntry
<1> QED BY <1>1, <1>2, <1>3, EntryCases

\* A free table is a table.
LEMMA NoLocksType == NoLocks \in Table
BY DEF NoLocks, Table

\* A command changes no lock but that of its own ticket.
LEMMA ApplyEntryElsewhere ==
  ASSUME NEW tab \in Table, NEW e \in Entry, NEW t \in Tickets,
         e.op = "blank" \/ e.ticket # t
  PROVE  ApplyEntry(tab, e)[t] = tab[t]
BY EntryCases DEF ApplyEntry, AcquireLockAt, StorageReleaseLock, Table

\* Two tables that have the same lock for a ticket have the same one after the
\* same command: what apply does to a ticket depends on nothing else.
LEMMA ApplyEntryIsLocal ==
  ASSUME NEW a \in Table, NEW b \in Table, NEW e \in Entry, NEW t \in Tickets,
         a[t] = b[t]
  PROVE  ApplyEntry(a, e)[t] = ApplyEntry(b, e)[t]
<1>1. CASE e.op = "blank" \/ e.ticket # t
  BY <1>1, ApplyEntryElsewhere
<1>2. CASE e.op # "blank" /\ e.ticket = t
  <2>1. Accepts(a, e) = Accepts(b, e)
    BY <1>2, EntryCases DEF Accepts, HeldByAnother, IsExpired
  <2>2. CASE e.op = "acquire"
    BY <1>2, <2>1, <2>2 DEF ApplyEntry, AcquireLockAt, Table
  <2>3. CASE e.op = "release"
    BY <1>2, <2>1, <2>3 DEF ApplyEntry, StorageReleaseLock, Table
  <2> QED BY <1>2, <2>2, <2>3, EntryCases
<1> QED BY <1>1, <1>2
=============================================================================
