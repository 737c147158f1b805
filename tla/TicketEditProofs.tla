-------------------------- MODULE TicketEditProofs --------------------------
(***************************************************************************)
(* Proofs about ticket editing, for every number of custodian nodes, DB    *)
(* nodes, users, tickets, concurrent calls and lock commands: when a       *)
(* user's write can be lost, and when the lifecycle can be violated.       *)
(***************************************************************************)
EXTENDS TicketEdit, LockTableProofs

Db == [Tickets -> Ticket \cup {NoTicket}]

HeldBy(t, u, i) == tables[i][t] # NoLock /\ tables[i][t].user = u

\* A lock that was held in some state of the table is still held, or it ended the
\* way the protocol means locks to end.
LocksKeptOrForfeited ==
  \A i \in 1..Len(tables), t \in Tickets, u \in Users : HeldBy(t, u, i) =>
    \/ HeldBy(t, u, Len(tables))
    \/ \E k \in i..Len(cmds) : Forfeits(t, u, k)

\* A call saw its user's lock in a table that exists.
ViewsHeld ==
  \A r \in Rpcs : edit[r].pc # "idle" =>
    /\ edit[r].view \in 1..Len(tables)
    /\ HeldBy(edit[r].ticket, edit[r].user, edit[r].view)

\* A call that missed another user's write read an old state, or forfeited the
\* lock it had seen, or the other one wrote after it had forfeited its own.
MissedExplained ==
  \A r \in Rpcs : edit[r].pc = "fetched" =>
    \/ edit[r].missed \subseteq {edit[r].user}
    \/ ~ edit[r].fresh
    \/ Forfeited(edit[r])
    \/ edit[r].ticket \in forfeited

\* A DB node that has all writes of a ticket has the ticket's last state.
CurrentIfNothingMissed ==
  \A i \in 1..Len(dbs), t \in Tickets :
    Missed(t, i) = {} => dbs[i][t] = dbs[Len(dbs)][t]

\* What a call is about to write follows from the ticket's last state, if the call
\* missed no write.
NewFollowsLast ==
  \A r \in Rpcs : (edit[r].pc = "fetched" /\ edit[r].missed = {}) =>
    /\ dbs[Len(dbs)][edit[r].ticket] # NoTicket
    /\ CanTransitionTo(dbs[Len(dbs)][edit[r].ticket].status, edit[r].new.status)

EditInv ==
  /\ TypeOK
  /\ LocksKeptOrForfeited
  /\ ViewsHeld
  /\ MissedExplained
  /\ ConflictOnlyAfterLostLock

-----------------------------------------------------------------------------
\* from_u8 is total.
LEMMA FromU8Type == \A n : FromU8(n) \in TicketStatus
BY DEF FromU8, TicketStatus

\* The fields of a call in flight.
LEMMA EditTypes ==
  ASSUME TypeOK, NEW r \in Rpcs
  PROVE  /\ edit[r].pc \in {"idle", "checked", "fetched"}
         /\ edit[r].pc = "idle" => edit[r] = Idle
         /\ edit[r].pc = "checked" =>
              edit[r] \in [pc : {"checked"}, node : Nodes, user : Users, ticket : Tickets,
                           req : Requests, view : Nat]
         /\ edit[r].pc = "fetched" =>
              edit[r] \in [pc : {"fetched"}, node : Nodes, user : Users, ticket : Tickets,
                           view : Nat, new : Ticket, missed : SUBSET Users,
                           fresh : BOOLEAN]
BY DEF TypeOK, Edit, Idle

\* An update of a ticket is a ticket.
LEMMA ApplyUpdatesType ==
  ASSUME NEW ticket \in Ticket, NEW req \in Requests
  PROVE  ApplyUpdates(ticket, req) \in Ticket
<1>1. Requested(ticket, req) \in TicketStatus
  BY FromU8Type DEF Requested, Ticket
<1>2. /\ "resolution" \in DOMAIN req => req.resolution \in Resolution
      /\ "next_action" \in DOMAIN req => req.next_action \in NextAction
  BY EditAssumption DEF IsRequest
<1> QED BY <1>1, <1>2 DEF ApplyUpdates, Ticket

\* The initial state satisfies the invariant.
LEMMA InitEditInv == Init => EditInv
<1> SUFFICES ASSUME Init PROVE EditInv
  OBVIOUS
<1>1. TypeOK
  BY NoLocksType, EditAssumption DEF Init, TypeOK, Edit
<1>2. LocksKeptOrForfeited
  BY DEF Init, LocksKeptOrForfeited
<1> QED BY <1>1, <1>2 DEF Init, EditInv, ViewsHeld, MissedExplained, Idle,
                         ConflictOnlyAfterLostLock

\* The lengths of the two sequences of the lock store, and the tables in it.
LEMMA LockStoreTypes ==
  ASSUME TypeOK
  PROVE  /\ Len(cmds) \in Nat /\ Len(tables) \in Nat \ {0} /\ Len(tables) = Len(cmds) + 1
         /\ \A i \in 1..Len(tables) : tables[i] \in Table
         /\ tables[Len(tables)] \in Table
BY DEF TypeOK

\* What was forfeited stays so: the lock store only grows.
LEMMA ForfeitedStays ==
  ASSUME TypeOK, NEW t, NEW u, NEW v \in Nat \ {0}, NEW C \in Nat, NEW D \in Nat,
         C = Len(cmds), D = Len(cmds'), C <= D,
         \A i \in 1..C : cmds'[i] = cmds[i] /\ tables'[i] = tables[i],
         \E k \in v..C : Forfeits(t, u, k)
  PROVE  \E k \in v..D : Forfeits(t, u, k)'
<1>1. PICK k \in v..C : Forfeits(t, u, k)
  OBVIOUS
<1>2. k \in 1..C /\ k \in v..D
  OBVIOUS
<1>3. cmds'[k] = cmds[k] /\ tables'[k] = tables[k]
  BY <1>2
<1>4. Forfeits(t, u, k)'
  BY <1>1, <1>3 DEF Forfeits
<1> QED BY <1>2, <1>4

\* Steps that do not touch the calls and the history variables keep what is known
\* of the calls, as the lock store only grows.
LEMMA QuietEdits ==
  ASSUME EditInv, TypeOK', UNCHANGED <<edit, ghosts>>, Len(cmds) <= Len(cmds'),
         \A i \in 1..Len(cmds) : cmds'[i] = cmds[i],
         \A i \in 1..Len(tables) : tables'[i] = tables[i]
  PROVE  ViewsHeld' /\ MissedExplained' /\ ConflictOnlyAfterLostLock'
<1> USE DEF EditInv
<1> PICK C, D : C = Len(cmds) /\ D = Len(cmds')
  OBVIOUS
<1>1. /\ C \in Nat /\ D \in Nat /\ C <= D /\ Len(tables) = C + 1 /\ Len(tables') = D + 1
  BY DEF TypeOK
<1>2. ViewsHeld'
  <2> SUFFICES ASSUME NEW r \in Rpcs, edit[r].pc # "idle"
               PROVE  /\ edit[r].view \in 1..(D + 1)
                      /\ tables'[edit[r].view][edit[r].ticket] # NoLock
                      /\ tables'[edit[r].view][edit[r].ticket].user = edit[r].user
    BY <1>1 DEF ViewsHeld, HeldBy
  <2>1. edit[r].view \in 1..(C + 1) /\ HeldBy(edit[r].ticket, edit[r].user, edit[r].view)
    BY <1>1 DEF ViewsHeld
  <2> QED BY <1>1, <2>1 DEF HeldBy
<1>3. ASSUME NEW r \in Rpcs, edit[r].pc = "fetched", Forfeited(edit[r])
      PROVE  Forfeited(edit[r])'
  <2> PICK t, u, v : t = edit[r].ticket /\ u = edit[r].user /\ v = edit[r].view
    OBVIOUS
  <2>1. v \in Nat \ {0} /\ \E k \in v..C : Forfeits(t, u, k)
    BY <1>1, <1>3 DEF ViewsHeld, Forfeited
  <2>2. \E k \in v..D : Forfeits(t, u, k)'
    BY <1>1, <2>1, ForfeitedStays
  <2> QED BY <2>2 DEF Forfeited
<1>4. MissedExplained'
  BY <1>3 DEF MissedExplained, ghosts
<1>5. ConflictOnlyAfterLostLock'
  BY DEF ConflictOnlyAfterLostLock, ghosts
<1> QED BY <1>2, <1>4, <1>5

\* A write through the DB's leader keeps the types of the DB.
LEMMA DbWriteType ==
  ASSUME TypeOK, NEW n \in Nodes, NEW u \in Users, NEW t \in Tickets, NEW ticket \in Ticket,
         DbWrite(n, u, t, ticket)
  PROVE  /\ dbLeader' \in DbNodes /\ dbs' \in Seq(Db)
         /\ author' \in Seq(Author)
         /\ Len(dbs') = Len(author') + 1
         /\ dbSeen' \in [DbNodes -> 1..Len(dbs')]
         /\ Len(dbs) \in Nat \ {0} /\ Len(dbs') = Len(dbs) + 1
         /\ \A i \in 1..Len(dbs) : dbs'[i] = dbs[i]
         /\ dbs'[Len(dbs) + 1] = [dbs[Len(dbs)] EXCEPT ![t] = ticket]
         /\ \A i \in 1..Len(author) : author'[i] = author[i]
         /\ author'[Len(author) + 1] = [ticket |-> t, user |-> u]
<1>1. /\ Len(dbs) \in Nat \ {0} /\ dbs \in Seq(Db) /\ Len(dbs) = Len(author) + 1
      /\ author \in Seq(Author) /\ Len(author) \in Nat
      /\ dbs[Len(dbs)] \in Db
  BY DEF TypeOK, Db
<1>2. [dbs[Len(dbs)] EXCEPT ![t] = ticket] \in Db
  BY <1>1 DEF Db
<1>3. [ticket |-> t, user |-> u] \in Author
  BY DEF Author
<1>4. /\ dbs' = Append(dbs, [dbs[Len(dbs)] EXCEPT ![t] = ticket])
      /\ author' = Append(author, [ticket |-> t, user |-> u])
      /\ dbSeen' = [dbSeen EXCEPT ![dbLeader] = Len(dbs) + 1]
      /\ dbLeader' = dbLeader
  BY DEF DbWrite
<1>5. /\ dbs' \in Seq(Db) /\ author' \in Seq(Author)
      /\ Len(dbs') = Len(dbs) + 1 /\ Len(author') = Len(author) + 1
      /\ \A i \in 1..Len(dbs) : dbs'[i] = dbs[i]
      /\ dbs'[Len(dbs) + 1] = [dbs[Len(dbs)] EXCEPT ![t] = ticket]
      /\ \A i \in 1..Len(author) : author'[i] = author[i]
      /\ author'[Len(author) + 1] = [ticket |-> t, user |-> u]
  BY <1>1, <1>2, <1>3, <1>4
<1>6. dbSeen' \in [DbNodes -> 1..Len(dbs')] /\ dbLeader' \in DbNodes
  BY <1>1, <1>4, <1>5 DEF TypeOK
<1> QED BY <1>1, <1>5, <1>6

\* A command that is accepted and takes a lock from its holder forfeits it.
LEMMA LockEndsByTheRules ==
  ASSUME NEW tab \in Table, NEW cmd \in Entry, NEW t \in Tickets, NEW u \in Users,
         Accepts(tab, cmd), tab[t] # NoLock, tab[t].user = u,
         ~ (ApplyEntry(tab, cmd)[t] # NoLock /\ ApplyEntry(tab, cmd)[t].user = u)
  PROVE  \/ cmd = ReleaseLock(t, u)
         \/ cmd.op = "acquire" /\ cmd.ticket = t /\ cmd.user # u /\ IsExpired(tab[t], cmd.at)
<1>1. cmd.op # "blank" /\ cmd.ticket = t
  BY ApplyEntryElsewhere
<1>2. CASE cmd.op = "release"
  <2>1. cmd \in [op : {"release"}, ticket : Tickets, user : Users]
    BY <1>2, EntryCases
  <2>2. cmd.user = u
    BY <1>1, <1>2 DEF Accepts, HeldByAnother
  <2> QED BY <1>1, <2>1, <2>2 DEF ReleaseLock
<1>3. CASE cmd.op = "acquire"
  <2>1. cmd \in [op : {"acquire"}, ticket : Tickets, user : Users, at : Int, ttl : Int]
    BY <1>3, EntryCases
  <2>2. ApplyEntry(tab, cmd)[t] = [user |-> cmd.user, expires |-> ExpiresAt(cmd.at, cmd.ttl)]
    BY <1>1, <1>3 DEF ApplyEntry, AcquireLockAt, Table
  <2>3. [user |-> cmd.user, expires |-> ExpiresAt(cmd.at, cmd.ttl)] \in LockInfo
    BY <2>1, ExpiresAtType DEF LockInfo
  <2>4. cmd.user # u
    BY <2>2, <2>3, NoLockAssumption
  <2> QED BY <1>1, <1>3, <2>4 DEF Accepts, HeldByAnother
<1> QED BY <1>1, <1>2, <1>3, EntryCases

\* A lock command keeps the types, lets the lock store grow, and takes no lock away
\* against the rules.
LEMMA LockStep ==
  ASSUME EditInv, NEW cmd \in Entry, Lock(cmd)
  PROVE  EditInv'
<1> USE DEF EditInv
<1> PICK L, tab, new : L = Len(tables) /\ tab = tables[Len(tables)] /\ new = ApplyEntry(tab, cmd)
  OBVIOUS
<1>1. /\ tables \in Seq(Table) /\ L \in Nat \ {0} /\ tab \in Table
      /\ cmds \in Seq(Entry) /\ Len(cmds) = L - 1
  BY DEF TypeOK
<1>2. new \in Table
  BY <1>1, ApplyEntryType
<1>3. /\ tables' = Append(tables, new) /\ cmds' = Append(cmds, cmd) /\ Accepts(tab, cmd)
      /\ UNCHANGED <<clock, seen, dbVars, edit, ghosts>>
  BY DEF Lock
<1>4. /\ tables' \in Seq(Table) /\ Len(tables') = L + 1 /\ tables'[L + 1] = new
      /\ \A i \in 1..L : tables'[i] = tables[i]
      /\ cmds' \in Seq(Entry) /\ Len(cmds') = L /\ cmds'[L] = cmd
      /\ \A i \in 1..Len(cmds) : cmds'[i] = cmds[i]
  BY <1>1, <1>2, <1>3
<1>5. seen' \in [Nodes -> 1..Len(tables')]
  BY <1>1, <1>3, <1>4 DEF TypeOK
<1>6. TypeOK'
  BY <1>3, <1>4, <1>5 DEF TypeOK, dbVars, ghosts
<1>7. ViewsHeld' /\ MissedExplained' /\ ConflictOnlyAfterLostLock'
  <2>1. /\ Len(cmds) <= Len(cmds') /\ UNCHANGED <<edit, ghosts>>
        /\ \A i \in 1..Len(cmds) : cmds'[i] = cmds[i]
        /\ \A i \in 1..Len(tables) : tables'[i] = tables[i]
    BY <1>1, <1>3, <1>4
  <2> QED BY <1>6, <2>1, QuietEdits
<1>8. LocksKeptOrForfeited'
  <2> SUFFICES ASSUME NEW i \in 1..(L + 1), NEW t \in Tickets, NEW u \in Users,
                      tables'[i][t] # NoLock, tables'[i][t].user = u,
                      ~ (new[t] # NoLock /\ new[t].user = u)
               PROVE  \E k \in i..L : Forfeits(t, u, k)'
    BY <1>4 DEF LocksKeptOrForfeited, HeldBy
  <2>1. i \in 1..L
    BY <1>1, <1>4
  <2>2. HeldBy(t, u, i)
    BY <1>4, <2>1 DEF HeldBy
  <2>3. CASE HeldBy(t, u, L)
    <3>1. \/ cmd = ReleaseLock(t, u)
          \/ /\ cmd.op = "acquire" /\ cmd.ticket = t /\ cmd.user # u
             /\ IsExpired(tab[t], cmd.at)
      BY <1>1, <1>3, <2>3, LockEndsByTheRules DEF HeldBy
    <3>2. cmds'[L] = cmd /\ tables'[L] = tab /\ L \in i..L
      BY <1>1, <1>4, <2>1
    <3>3. Forfeits(t, u, L)'
      BY <3>1, <3>2 DEF Forfeits
    <3> QED BY <3>2, <3>3
  <2>4. CASE ~ HeldBy(t, u, L)
    <3>1. \E k \in i..(L - 1) : Forfeits(t, u, k)
      BY <1>1, <2>1, <2>2, <2>4 DEF LocksKeptOrForfeited
    <3>2. /\ L - 1 \in Nat /\ L - 1 = Len(cmds) /\ L = Len(cmds') /\ L - 1 <= L
          /\ i \in Nat \ {0}
          /\ \A j \in 1..(L - 1) : cmds'[j] = cmds[j] /\ tables'[j] = tables[j]
      BY <1>1, <1>4, <2>1
    <3> QED BY <1>1, <3>1, <3>2, ForfeitedStays
  <2> QED BY <2>3, <2>4
<1> QED BY <1>6, <1>7, <1>8

\* The lock store alone decides how locks ended.
LEMMA SameLockStore ==
  ASSUME EditInv, UNCHANGED <<cmds, tables>>
  PROVE  /\ LocksKeptOrForfeited'
         /\ \A t, u, i : Forfeits(t, u, i)' = Forfeits(t, u, i)
         /\ \A t, u, i : HeldBy(t, u, i)' = HeldBy(t, u, i)
<1>1. \A t, u, i : Forfeits(t, u, i)' = Forfeits(t, u, i)
  BY DEF Forfeits
<1>2. \A t, u, i : HeldBy(t, u, i)' = HeldBy(t, u, i)
  BY DEF HeldBy
<1> QED BY <1>1, <1>2 DEF EditInv, LocksKeptOrForfeited

\* update_ticket's check starts a call; nothing is known to be missed yet.
LEMMA CheckStep ==
  ASSUME EditInv, NEW r \in Rpcs, NEW u \in Users, NEW n \in Nodes, NEW t \in Tickets,
         NEW req \in Requests, CheckLock(r, u, n, t, req)
  PROVE  EditInv'
<1> USE DEF EditInv
<1> DEFINE e == [pc |-> "checked", node |-> n, user |-> u, ticket |-> t,
                 req |-> req, view |-> seen[n]]
<1>1. /\ edit' = [edit EXCEPT ![r] = e] /\ UNCHANGED <<lockVars, dbVars, ghosts>>
      /\ seen[n] \in 1..Len(tables) /\ Len(tables) \in Nat
  BY DEF CheckLock, TypeOK
<1>2. e \in Edit
  BY <1>1 DEF Edit
<1>3. TypeOK'
  BY <1>1, <1>2 DEF TypeOK, lockVars, dbVars, ghosts
<1>4. ViewsHeld'
  <2>1. HeldBy(t, u, seen[n])
    BY DEF CheckLock, HoldsLock, HeldBy
  <2> QED BY <1>1, <2>1, SameLockStore DEF ViewsHeld, TypeOK, lockVars
<1>5. MissedExplained'
  BY <1>1, SameLockStore DEF MissedExplained, TypeOK, lockVars, ghosts, Forfeited
<1>6. ConflictOnlyAfterLostLock' /\ LocksKeptOrForfeited'
  BY <1>1, SameLockStore DEF ConflictOnlyAfterLostLock, ghosts, lockVars
<1> QED BY <1>3, <1>4, <1>5, <1>6

\* Who wrote what.
LEMMA MissedType ==
  ASSUME TypeOK, NEW t, NEW i \in 1..Len(dbs)
  PROVE  Missed(t, i) \in SUBSET Users
<1>1. ASSUME NEW k \in i..Len(author) PROVE author[k].user \in Users
  <2>1. k \in 1..Len(author) /\ author \in Seq(Author)
    BY DEF TypeOK
  <2>2. author[k] \in Author
    BY <2>1
  <2> QED BY <2>2 DEF Author
<1> QED BY <1>1 DEF Missed

\* A read that returns the ticket's last state has missed nothing.
LEMMA FetchStep ==
  ASSUME EditInv, NEW r \in Rpcs, Fetch(r)
  PROVE  EditInv'
<1> USE DEF EditInv
<1> DEFINE e   == edit[r]
           d   == DbOf[e.node]
           old == dbs[dbSeen[d]][e.ticket]
           f   == [pc |-> "fetched", node |-> e.node, user |-> e.user, ticket |-> e.ticket,
                   view |-> e.view, new |-> ApplyUpdates(old, e.req),
                   missed |-> Missed(e.ticket, dbSeen[d]),
                   fresh |-> Missed(e.ticket, dbSeen[d]) = {}]
           c   == old # NoTicket /\ CanTransitionTo(old.status, Requested(old, e.req))
<1>1. /\ e.pc = "checked" /\ e.node \in Nodes /\ e.user \in Users /\ e.ticket \in Tickets
      /\ e.req \in Requests /\ e.view \in Nat /\ e.view \in 1..Len(tables)
      /\ HeldBy(e.ticket, e.user, e.view)
  BY EditTypes DEF Fetch, ViewsHeld
<1>2. d \in DbNodes /\ dbSeen[d] \in 1..Len(dbs)
  BY <1>1, EditAssumption DEF TypeOK
<1>3. old \in Ticket \cup {NoTicket}
  BY <1>1, <1>2 DEF TypeOK
<1>4. Missed(e.ticket, dbSeen[d]) \in SUBSET Users
  BY <1>2, MissedType
<1>5. edit' = [edit EXCEPT ![r] = IF c THEN f ELSE Idle]
      /\ UNCHANGED <<lockVars, dbVars, ghosts>>
  BY DEF Fetch
<1>6. CASE c
  <2>1. ApplyUpdates(old, e.req) \in Ticket
    BY <1>1, <1>3, <1>6, ApplyUpdatesType
  <2>2. f \in Edit
    BY <1>1, <1>4, <2>1 DEF Edit
  <2>3. edit' = [edit EXCEPT ![r] = f]
    BY <1>5, <1>6
  <2>4. /\ f.view \in 1..Len(tables) /\ HeldBy(f.ticket, f.user, f.view)
        /\ f.missed \subseteq {f.user} \/ ~ f.fresh
    BY <1>1
  <2> HIDE DEF f, e, c
  <2>5. TypeOK'
    BY <1>5, <2>2, <2>3 DEF TypeOK, lockVars, dbVars, ghosts
  <2>6. ASSUME NEW q \in Rpcs PROVE edit'[q] = IF q = r THEN f ELSE edit[q]
    BY <2>3 DEF TypeOK
  <2>7. ViewsHeld' /\ LocksKeptOrForfeited'
    BY <1>5, <2>4, <2>6, SameLockStore DEF ViewsHeld, lockVars
  <2>8. MissedExplained'
    <3> SUFFICES ASSUME NEW q \in Rpcs, edit'[q].pc = "fetched"
                 PROVE  \/ edit'[q].missed \subseteq {edit'[q].user}
                        \/ ~ edit'[q].fresh
                        \/ Forfeited(edit[q])'
                        \/ edit'[q].ticket \in forfeited'
      BY DEF MissedExplained
    <3>1. CASE q = r
      BY <2>4, <2>6, <3>1
    <3>2. CASE q # r
      BY <1>5, <2>6, <3>2, SameLockStore DEF MissedExplained, Forfeited, lockVars, ghosts
    <3> QED BY <3>1, <3>2
  <2>9. ConflictOnlyAfterLostLock'
    BY <1>5 DEF ConflictOnlyAfterLostLock, ghosts
  <2> QED BY <2>5, <2>7, <2>8, <2>9
<1>7. CASE ~ c
  <2> HIDE DEF c
  <2>1. edit' = [edit EXCEPT ![r] = Idle]
    BY <1>5, <1>7
  <2>2. ASSUME NEW q \in Rpcs PROVE edit'[q] = IF q = r THEN Idle ELSE edit[q]
    BY <2>1 DEF TypeOK
  <2>3. TypeOK'
    BY <1>5, <2>1 DEF TypeOK, Edit, lockVars, dbVars, ghosts
  <2>4. ViewsHeld' /\ LocksKeptOrForfeited'
    BY <1>5, <2>2, SameLockStore DEF ViewsHeld, Idle, lockVars
  <2>5. MissedExplained' /\ ConflictOnlyAfterLostLock'
    BY <1>5, <2>2, SameLockStore DEF MissedExplained, ConflictOnlyAfterLostLock, Idle,
                                     Forfeited, lockVars, ghosts
  <2> QED BY <2>3, <2>4, <2>5
<1> QED BY <1>6, <1>7

\* A write is missed by the calls that read before it.  When its user still has the
\* lock, no other such call has it.
LEMMA SaveStep ==
  ASSUME EditInv, NEW r \in Rpcs, Save(r)
  PROVE  EditInv'
<1> USE DEF EditInv
<1> PICK e : e = edit[r]
  OBVIOUS
<1>1. /\ e \in [pc : {"fetched"}, node : Nodes, user : Users, ticket : Tickets,
                view : Nat, new : Ticket, missed : SUBSET Users,
                fresh : BOOLEAN]
      /\ e.view \in 1..Len(tables)
      /\ Len(tables) \in Nat \ {0}
      /\ HeldBy(e.ticket, e.user, e.view)
  BY EditTypes DEF Save, ViewsHeld, TypeOK
<1>2. /\ DbWrite(e.node, e.user, e.ticket, e.new)
      /\ edit' = [q \in Rpcs |->
             IF q = r THEN Idle
             ELSE IF edit[q].pc = "fetched" /\ edit[q].ticket = e.ticket
                  THEN [edit[q] EXCEPT !.missed = @ \cup {e.user}]
                  ELSE edit[q]]
      /\ conflict' = IF e.missed \subseteq {e.user} THEN conflict ELSE conflict \cup {e.ticket}
      /\ forfeited' = IF Forfeited(e) THEN forfeited \cup {e.ticket} ELSE forfeited
      /\ stale' = IF e.fresh THEN stale ELSE stale \cup {e.ticket}
      /\ lost' = IF e.missed = {} THEN lost ELSE lost \cup {e.ticket}
      /\ UNCHANGED lockVars
  BY DEF Save
<1>3. edit' \in [Rpcs -> Edit]
  <2> SUFFICES ASSUME NEW q \in Rpcs PROVE edit'[q] \in Edit
    BY <1>2
  <2>1. CASE q # r /\ edit[q].pc = "fetched"
    <3>1. edit[q] \in [pc : {"fetched"}, node : Nodes, user : Users, ticket : Tickets,
                       view : Nat, new : Ticket, missed : SUBSET Users,
                       fresh : BOOLEAN]
      BY <2>1, EditTypes
    <3>2. [edit[q] EXCEPT !.missed = @ \cup {e.user}] \in Edit
      BY <1>1, <3>1 DEF Edit
    <3>3. edit[q] \in Edit
      BY DEF TypeOK
    <3> QED BY <1>2, <2>1, <3>2, <3>3
  <2>2. CASE q = r \/ edit[q].pc # "fetched"
    BY <1>2, <2>2 DEF TypeOK, Edit
  <2> QED BY <2>1, <2>2
<1>4. TypeOK'
  <2>1. /\ dbLeader' \in DbNodes /\ dbs' \in Seq(Db)
        /\ author' \in Seq(Author)
        /\ Len(dbs') = Len(author') + 1
        /\ dbSeen' \in [DbNodes -> 1..Len(dbs')]
    BY <1>1, <1>2, DbWriteType
  <2> QED BY <1>1, <1>2, <1>3, <2>1 DEF TypeOK, Db, lockVars
<1>5. ASSUME NEW q \in Rpcs, edit'[q].pc # "idle"
      PROVE  /\ q # r /\ edit[q].pc = edit'[q].pc
             /\ edit'[q].view = edit[q].view /\ edit'[q].ticket = edit[q].ticket
             /\ edit'[q].user = edit[q].user
             /\ edit[q].pc = "fetched" =>
                  /\ edit'[q].fresh = edit[q].fresh
                  /\ \/ edit'[q].missed = edit[q].missed
                     \/ /\ edit[q].ticket = e.ticket
                        /\ edit'[q].missed = edit[q].missed \cup {e.user}
  <2>1. q # r
    BY <1>2, <1>5 DEF Idle
  <2>2. CASE edit[q].pc = "fetched" /\ edit[q].ticket = e.ticket
    <3>1. edit[q] \in [pc : {"fetched"}, node : Nodes, user : Users, ticket : Tickets,
                       view : Nat, new : Ticket, missed : SUBSET Users,
                       fresh : BOOLEAN]
      BY <2>2, EditTypes
    <3>2. edit'[q] = [edit[q] EXCEPT !.missed = @ \cup {e.user}]
      BY <1>2, <2>1, <2>2
    <3> QED BY <2>1, <2>2, <3>1, <3>2
  <2>3. CASE ~ (edit[q].pc = "fetched" /\ edit[q].ticket = e.ticket)
    <3>1. edit'[q] = edit[q]
      BY <1>2, <2>1, <2>3
    <3> QED BY <2>1, <3>1
  <2> QED BY <2>2, <2>3
<1>6. ViewsHeld' /\ LocksKeptOrForfeited'
  <2>1. UNCHANGED <<cmds, tables>>
    BY <1>2 DEF lockVars
  <2>2. LocksKeptOrForfeited' /\ \A t, u, i : HeldBy(t, u, i)' = HeldBy(t, u, i)
    BY <2>1, SameLockStore
  <2>3. ASSUME NEW q \in Rpcs, edit'[q].pc # "idle"
        PROVE  /\ edit'[q].view \in 1..Len(tables)
               /\ HeldBy(edit'[q].ticket, edit'[q].user, edit'[q].view)
    BY <1>5, <2>3 DEF ViewsHeld
  <2> QED BY <2>1, <2>2, <2>3 DEF ViewsHeld
<1>7. ASSUME NEW q \in Rpcs, edit'[q].pc = "fetched",
             edit'[q].view = edit[q].view, edit'[q].ticket = edit[q].ticket,
             edit'[q].user = edit[q].user
      PROVE  Forfeited(edit[q])' <=> Forfeited(edit[q])
  BY <1>2, <1>7, SameLockStore DEF Forfeited, lockVars
<1>8. MissedExplained'
  <2> SUFFICES ASSUME NEW q \in Rpcs, edit'[q].pc = "fetched"
               PROVE  \/ edit'[q].missed \subseteq {edit'[q].user}
                      \/ ~ edit'[q].fresh
                      \/ Forfeited(edit[q])'
                      \/ edit'[q].ticket \in forfeited'
    BY DEF MissedExplained
  <2>1. /\ edit[q].pc = "fetched" /\ edit'[q].ticket = edit[q].ticket
        /\ edit'[q].user = edit[q].user /\ edit'[q].fresh = edit[q].fresh
        /\ Forfeited(edit[q])' <=> Forfeited(edit[q])
        /\ edit[q].view \in 1..Len(tables)
        /\ HeldBy(edit[q].ticket, edit[q].user, edit[q].view)
        /\ edit[q].user \in Users
        /\ \/ edit'[q].missed = edit[q].missed
           \/ /\ edit[q].ticket = e.ticket
              /\ edit'[q].missed = edit[q].missed \cup {e.user}
    BY <1>5, <1>7, EditTypes DEF ViewsHeld
  <2>2. CASE edit'[q].missed = edit[q].missed \/ e.user = edit[q].user
    BY <1>2, <2>1, <2>2 DEF MissedExplained
  <2>3. CASE edit[q].ticket = e.ticket /\ e.user # edit[q].user
    <3>1. CASE ~ Forfeited(e)
      <4>1. HeldBy(e.ticket, e.user, Len(tables))
        BY <1>1, <3>1 DEF LocksKeptOrForfeited, Forfeited
      <4>2. ~ HeldBy(edit[q].ticket, edit[q].user, Len(tables))
        BY <2>3, <4>1 DEF HeldBy
      <4>3. Forfeited(edit[q])
        BY <1>1, <2>1, <2>3, <4>2 DEF LocksKeptOrForfeited, Forfeited
      <4> QED BY <2>1, <4>3
    <3>2. CASE Forfeited(e)
      BY <1>2, <2>1, <2>3, <3>2
    <3> QED BY <3>1, <3>2
  <2> QED BY <2>1, <2>2, <2>3
<1>9. ConflictOnlyAfterLostLock'
  <2>1. CASE e.missed \subseteq {e.user}
    BY <1>2, <2>1 DEF ConflictOnlyAfterLostLock
  <2>2. CASE ~ (e.missed \subseteq {e.user})
    <3>1. ~ e.fresh \/ Forfeited(e) \/ e.ticket \in forfeited
      BY <1>1, <2>2 DEF MissedExplained
    <3> QED BY <1>2, <2>2, <3>1 DEF ConflictOnlyAfterLostLock
  <2> QED BY <2>1, <2>2
<1> QED BY <1>4, <1>6, <1>8, <1>9

\* Every step keeps the invariant.
LEMMA NextEditInv == EditInv /\ [Next]_vars => EditInv'
<1> SUFFICES ASSUME EditInv, [Next]_vars PROVE EditInv'
  OBVIOUS
<1> USE DEF EditInv
<1>q. ASSUME TypeOK', UNCHANGED <<cmds, tables, edit, ghosts>> PROVE EditInv'
  <2>1. Len(cmds) <= Len(cmds')
    BY <1>q DEF TypeOK
  <2> QED BY <1>q, <2>1, QuietEdits, SameLockStore
<1>1. ASSUME NEW n \in Nodes, Tick(n) \/ Follow(n) PROVE EditInv'
  <2>1. TypeOK'
    <3>1. CASE Tick(n)
      BY <3>1 DEF Tick, TypeOK, dbVars, ghosts
    <3>2. CASE Follow(n)
      <4>1. seen' \in [Nodes -> 1..Len(tables)]
        BY <3>2 DEF Follow, TypeOK
      <4> QED BY <3>2, <4>1 DEF Follow, TypeOK, dbVars, ghosts
    <3> QED BY <1>1, <3>1, <3>2
  <2> QED BY <1>1, <1>q, <2>1 DEF Tick, Follow
<1>2. ASSUME NEW u \in Users, NEW n \in Nodes, NEW t \in Tickets, Acquire(u, n, t)
      PROVE  EditInv'
  <2>1. AcquireLock(t, u, clock[n], LockTtl) \in Entry
    BY EditAssumption DEF AcquireLock, Entry, LockCommand, TypeOK
  <2> QED BY <1>2, <2>1, LockStep DEF Acquire
<1>3. ASSUME NEW u \in Users, NEW t \in Tickets, Release(u, t) PROVE EditInv'
  <2>1. ReleaseLock(t, u) \in Entry
    BY DEF ReleaseLock, Entry, LockCommand
  <2> QED BY <1>3, <2>1, LockStep DEF Release
<1>4. ASSUME NEW u \in Users, NEW n \in Nodes, NEW t \in Tickets, CreateTicket(n, u, t)
      PROVE  EditInv'
  <2>1. NewTicket \in Ticket
    BY DEF NewTicket, Ticket, TicketStatus, Resolution, NextAction
  <2>2. TypeOK'
    BY <1>4, <2>1, DbWriteType DEF CreateTicket, TypeOK, Db, lockVars, ghosts
  <2> QED BY <1>4, <1>q, <2>2 DEF CreateTicket, lockVars
<1>5. ASSUME NEW d \in DbNodes, DbElect(d) \/ DbFollow(d) PROVE EditInv'
  <2>1. TypeOK'
    <3>1. CASE DbElect(d)
      BY <3>1 DEF DbElect, TypeOK, lockVars, ghosts
    <3>2. CASE DbFollow(d)
      <4>1. dbSeen' \in [DbNodes -> 1..Len(dbs)]
        BY <3>2 DEF DbFollow, TypeOK
      <4> QED BY <3>2, <4>1 DEF DbFollow, TypeOK, lockVars, ghosts
    <3> QED BY <1>5, <3>1, <3>2
  <2> QED BY <1>5, <1>q, <2>1 DEF DbElect, DbFollow, lockVars
<1>6. ASSUME NEW r \in Rpcs, FailRpc(r) PROVE EditInv'
  <2>1. /\ edit' = [edit EXCEPT ![r] = Idle] /\ UNCHANGED <<lockVars, dbVars, ghosts>>
        /\ edit \in [Rpcs -> Edit]
    BY <1>6 DEF FailRpc, TypeOK
  <2>2. TypeOK'
    BY <2>1 DEF TypeOK, Edit, lockVars, dbVars, ghosts
  <2>3. \A q \in Rpcs : edit'[q] = IF q = r THEN Idle ELSE edit[q]
    BY <2>1
  <2>4. LocksKeptOrForfeited' /\ ViewsHeld'
    BY <2>1, <2>3, SameLockStore DEF ViewsHeld, Idle, lockVars
  <2>5. MissedExplained' /\ ConflictOnlyAfterLostLock'
    BY <2>1, <2>3, SameLockStore DEF MissedExplained, ConflictOnlyAfterLostLock, Idle,
                                     Forfeited, lockVars, ghosts
  <2> QED BY <2>2, <2>4, <2>5
<1>7. CASE UNCHANGED vars
  <2>1. TypeOK'
    BY <1>7 DEF vars, TypeOK, lockVars, dbVars, ghosts
  <2> QED BY <1>7, <1>q, <2>1 DEF vars, lockVars
<1> QED BY <1>1, <1>2, <1>3, <1>4, <1>5, <1>6, <1>7, CheckStep, FetchStep, SaveStep DEF Next

\* Type correctness of ticket editing.
THEOREM EditTypeCorrect == Spec => []TypeOK
<1>1. EditInv => TypeOK
  BY DEF EditInv
<1> QED BY <1>1, InitEditInv, NextEditInv, PTL DEF Spec

\* Whatever calls, lock commands, lagging nodes and changes of the DB's leader are
\* interleaved: a user's write is lost under another's only on a ticket that was
\* written by a call that had forfeited the lock it saw, or had read an old state.
THEOREM LostWritesNeedLostLocks == Spec => []ConflictOnlyAfterLostLock
<1>1. EditInv => ConflictOnlyAfterLostLock
  BY DEF EditInv
<1> QED BY <1>1, InitEditInv, NextEditInv, PTL DEF Spec

-----------------------------------------------------------------------------
LifeInv == EditInv /\ CurrentIfNothingMissed /\ NewFollowsLast /\ StatusMovesLegal

\* What is known of the states of the DB depends on nothing else.
LEMMA SameDbStates ==
  ASSUME LifeInv, UNCHANGED <<dbs, author, lost>>
  PROVE  CurrentIfNothingMissed' /\ StatusMovesLegal'
<1>1. \A t, i : Missed(t, i)' = Missed(t, i)
  BY DEF Missed
<1>2. CurrentIfNothingMissed'
  BY <1>1 DEF LifeInv, CurrentIfNothingMissed
<1>3. StatusMovesLegal'
  BY DEF LifeInv, StatusMovesLegal
<1> QED BY <1>2, <1>3

\* Steps without a DB write and without a read keep what is known of the tickets.
LEMMA QuietTickets ==
  ASSUME LifeInv, UNCHANGED <<dbs, author, lost>>,
         \A r \in Rpcs : edit'[r] = edit[r] \/ edit'[r].pc # "fetched"
  PROVE  CurrentIfNothingMissed' /\ NewFollowsLast' /\ StatusMovesLegal'
<1>1. CurrentIfNothingMissed' /\ StatusMovesLegal'
  BY SameDbStates
<1>2. NewFollowsLast'
  BY DEF LifeInv, NewFollowsLast
<1> QED BY <1>1, <1>2

\* A write: whoever has missed nothing has it.
LEMMA WriteCurrent ==
  ASSUME LifeInv, NEW n \in Nodes, NEW u \in Users, NEW t \in Tickets, NEW ticket \in Ticket,
         DbWrite(n, u, t, ticket)
  PROVE  /\ CurrentIfNothingMissed'
         /\ dbs'[Len(dbs')][t] = ticket
         /\ \A s \in Tickets \ {t} : dbs'[Len(dbs')][s] = dbs[Len(dbs)][s]
<1> PICK L : L = Len(dbs)
  OBVIOUS
<1>1. /\ L \in Nat \ {0} /\ Len(dbs') = L + 1 /\ Len(author) = L - 1 /\ Len(author') = L
      /\ \A i \in 1..L : dbs'[i] = dbs[i]
      /\ dbs'[L + 1] = [dbs[L] EXCEPT ![t] = ticket]
      /\ \A i \in 1..Len(author) : author'[i] = author[i]
      /\ author'[L] = [ticket |-> t, user |-> u]
      /\ dbs[L] \in Db
  <2>1. TypeOK /\ Len(dbs) = Len(author) + 1 /\ Len(author) \in Nat /\ dbs[Len(dbs)] \in Db
    BY DEF LifeInv, EditInv, TypeOK, Db
  <2>2. /\ Len(dbs') = Len(author') + 1
        /\ Len(dbs) \in Nat \ {0} /\ Len(dbs') = Len(dbs) + 1
        /\ \A i \in 1..Len(dbs) : dbs'[i] = dbs[i]
        /\ dbs'[Len(dbs) + 1] = [dbs[Len(dbs)] EXCEPT ![t] = ticket]
        /\ \A i \in 1..Len(author) : author'[i] = author[i]
        /\ author'[Len(author) + 1] = [ticket |-> t, user |-> u]
        /\ author' \in Seq(Author)
    BY <2>1, DbWriteType
  <2>3. Len(author') \in Nat /\ Len(author) + 1 = L
    BY <2>1, <2>2
  <2> QED BY <2>1, <2>2, <2>3
<1>2. dbs'[L + 1][t] = ticket /\ \A s \in Tickets \ {t} : dbs'[L + 1][s] = dbs[L][s]
  BY <1>1 DEF Db
<1>3. ASSUME NEW i \in 1..(L + 1), NEW s \in Tickets, Missed(s, i)' = {}
      PROVE  dbs'[i][s] = dbs'[L + 1][s]
  <2>1. CASE i = L + 1
    BY <2>1
  <2>2. CASE i \in 1..L
    <3>1. ASSUME NEW j \in i..L PROVE author'[j].ticket # s
      <4>1. j \in i..Len(author')
        BY <1>1
      <4> QED BY <1>3, <3>1, <4>1 DEF Missed
    <3>2. s # t
      <4>1. L \in i..L
        BY <1>1, <2>2
      <4> QED BY <1>1, <3>1, <4>1
    <3>3. Missed(s, i) = {}
      <4>1. ASSUME NEW j \in i..Len(author) PROVE author[j].ticket # s
        <5>1. j \in i..L /\ j \in 1..Len(author)
          BY <1>1, <2>2
        <5> QED BY <1>1, <3>1, <5>1
      <4> QED BY <4>1 DEF Missed
    <3>4. dbs[i][s] = dbs[L][s]
      BY <2>2, <3>3 DEF LifeInv, CurrentIfNothingMissed
    <3> QED BY <1>1, <1>2, <2>2, <3>2, <3>4
  <2> QED BY <1>1, <2>1, <2>2
<1> QED BY <1>1, <1>2, <1>3 DEF CurrentIfNothingMissed

\* A write is a legal move when it is one from the ticket's last state.
LEMMA WriteLegal ==
  ASSUME LifeInv, NEW n \in Nodes, NEW u \in Users, NEW t \in Tickets, NEW ticket \in Ticket,
         DbWrite(n, u, t, ticket), lost \subseteq lost',
         \/ t \in lost'
         \/ dbs[Len(dbs)][t] = NoTicket
         \/ CanTransitionTo(dbs[Len(dbs)][t].status, ticket.status)
  PROVE  StatusMovesLegal'
<1> PICK L : L = Len(dbs)
  OBVIOUS
<1>1. /\ L \in Nat \ {0} /\ Len(dbs') = L + 1
      /\ \A i \in 1..L : dbs'[i] = dbs[i]
      /\ dbs'[L + 1][t] = ticket /\ \A s \in Tickets \ {t} : dbs'[L + 1][s] = dbs[L][s]
  <2>1. TypeOK
    BY DEF LifeInv, EditInv
  <2>2. /\ Len(dbs) \in Nat \ {0} /\ Len(dbs') = Len(dbs) + 1
        /\ \A i \in 1..Len(dbs) : dbs'[i] = dbs[i]
    BY <2>1, DbWriteType
  <2>3. /\ dbs'[Len(dbs')][t] = ticket
        /\ \A s \in Tickets \ {t} : dbs'[Len(dbs')][s] = dbs[Len(dbs)][s]
    BY WriteCurrent
  <2> QED BY <2>2, <2>3
<1> SUFFICES ASSUME NEW i \in 1..L, NEW s \in Tickets \ lost', dbs'[i][s] # NoTicket
             PROVE  CanTransitionTo(dbs'[i][s].status, dbs'[i + 1][s].status)
  BY <1>1 DEF StatusMovesLegal
<1>2. CASE i = L
  <2>1. CASE s = t
    BY <1>1, <1>2, <2>1
  <2>2. CASE s # t
    BY <1>1, <1>2, <2>2 DEF CanTransitionTo
  <2> QED BY <2>1, <2>2
<1>3. CASE i # L
  <2>1. i \in 1..(L - 1) /\ i + 1 \in 1..L /\ s \in Tickets \ lost
    BY <1>1, <1>3
  <2> QED BY <1>1, <2>1 DEF LifeInv, StatusMovesLegal
<1> QED BY <1>2, <1>3

\* Every step keeps the invariant on tickets.
LEMMA NextLifeInv == LifeInv /\ [Next]_vars => LifeInv'
<1> SUFFICES ASSUME LifeInv, [Next]_vars
             PROVE  CurrentIfNothingMissed' /\ NewFollowsLast' /\ StatusMovesLegal'
  BY NextEditInv DEF LifeInv
<1>t. EditInv /\ TypeOK /\ edit \in [Rpcs -> Edit]
  BY DEF LifeInv, EditInv, TypeOK
<1>q. ASSUME UNCHANGED <<dbs, author, edit, ghosts>>
      PROVE  CurrentIfNothingMissed' /\ NewFollowsLast' /\ StatusMovesLegal'
  BY <1>q, QuietTickets DEF ghosts
<1>1. ASSUME NEW n \in Nodes, Tick(n) \/ Follow(n)
      PROVE  CurrentIfNothingMissed' /\ NewFollowsLast' /\ StatusMovesLegal'
  BY <1>1, <1>q DEF Tick, Follow, dbVars
<1>2. ASSUME NEW cmd, Lock(cmd)
      PROVE  CurrentIfNothingMissed' /\ NewFollowsLast' /\ StatusMovesLegal'
  BY <1>2, <1>q DEF Lock, dbVars
<1>3. ASSUME NEW d \in DbNodes, DbElect(d) \/ DbFollow(d)
      PROVE  CurrentIfNothingMissed' /\ NewFollowsLast' /\ StatusMovesLegal'
  BY <1>3, <1>q DEF DbElect, DbFollow
<1>4. ASSUME NEW r \in Rpcs, NEW u, NEW n, NEW t, NEW req,
             CheckLock(r, u, n, t, req) \/ FailRpc(r)
      PROVE  CurrentIfNothingMissed' /\ NewFollowsLast' /\ StatusMovesLegal'
  <2>1. \A q \in Rpcs : edit'[q] = edit[q] \/ edit'[q].pc # "fetched"
    BY <1>4, <1>t DEF CheckLock, FailRpc, Idle
  <2> QED BY <1>4, <2>1, QuietTickets DEF CheckLock, FailRpc, dbVars, ghosts
<1>5. ASSUME NEW n \in Nodes, NEW u \in Users, NEW t \in Tickets, CreateTicket(n, u, t)
      PROVE  CurrentIfNothingMissed' /\ NewFollowsLast' /\ StatusMovesLegal'
  <2>1. /\ NewTicket \in Ticket /\ DbWrite(n, u, t, NewTicket) /\ lost' = lost /\ edit' = edit
        /\ dbs[Len(dbs)][t] = NoTicket
    BY <1>5 DEF CreateTicket, NewTicket, Ticket, TicketStatus, Resolution, NextAction, ghosts
  <2>2. CurrentIfNothingMissed' /\ StatusMovesLegal'
        /\ \A s \in Tickets \ {t} : dbs'[Len(dbs')][s] = dbs[Len(dbs)][s]
    BY <2>1, WriteCurrent, WriteLegal
  <2>3. NewFollowsLast'
    <3> SUFFICES ASSUME NEW q \in Rpcs, edit[q].pc = "fetched", edit[q].missed = {}
                 PROVE  /\ dbs'[Len(dbs')][edit[q].ticket] # NoTicket
                        /\ CanTransitionTo(dbs'[Len(dbs')][edit[q].ticket].status,
                                           edit[q].new.status)
      BY <2>1 DEF NewFollowsLast
    <3>1. /\ dbs[Len(dbs)][edit[q].ticket] # NoTicket
          /\ CanTransitionTo(dbs[Len(dbs)][edit[q].ticket].status, edit[q].new.status)
      BY DEF LifeInv, NewFollowsLast
    <3>2. edit[q].ticket \in Tickets \ {t}
      BY <1>t, <2>1, <3>1, EditTypes
    <3> QED BY <2>2, <3>1, <3>2
  <2> QED BY <2>2, <2>3
<1>6. ASSUME NEW r \in Rpcs, Fetch(r)
      PROVE  CurrentIfNothingMissed' /\ NewFollowsLast' /\ StatusMovesLegal'
  <2> DEFINE e   == edit[r]
             d   == DbOf[e.node]
             old == dbs[dbSeen[d]][e.ticket]
  <2>1. e.pc = "checked" /\ e.node \in Nodes /\ e.ticket \in Tickets
    BY <1>6, <1>t, EditTypes DEF Fetch
  <2>2. d \in DbNodes /\ dbSeen[d] \in 1..Len(dbs)
    BY <1>t, <2>1, EditAssumption DEF TypeOK
  <2>3. UNCHANGED <<dbs, author, lost>>
    BY <1>6 DEF Fetch, dbVars, ghosts
  <2>4. CurrentIfNothingMissed' /\ StatusMovesLegal'
    BY <2>3, SameDbStates
  <2>5. ASSUME NEW q \in Rpcs, q # r PROVE edit'[q] = edit[q]
    BY <1>6, <1>t, <2>5 DEF Fetch
  <2>6. ASSUME edit'[r].pc = "fetched"
        PROVE  /\ old # NoTicket /\ CanTransitionTo(old.status, edit'[r].new.status)
               /\ edit'[r].ticket = e.ticket
               /\ edit'[r].missed = Missed(e.ticket, dbSeen[d])
    BY <1>6, <1>t, <2>6 DEF Fetch, Idle, ApplyUpdates
  <2>7. NewFollowsLast'
    <3> SUFFICES ASSUME NEW q \in Rpcs, edit'[q].pc = "fetched", edit'[q].missed = {}
                 PROVE  /\ dbs[Len(dbs)][edit'[q].ticket] # NoTicket
                        /\ CanTransitionTo(dbs[Len(dbs)][edit'[q].ticket].status,
                                           edit'[q].new.status)
      BY <2>3 DEF NewFollowsLast
    <3>1. CASE q # r
      BY <2>5, <3>1 DEF LifeInv, NewFollowsLast
    <3>2. CASE q = r
      <4>1. Missed(e.ticket, dbSeen[d]) = {} /\ edit'[r].ticket = e.ticket
        BY <2>6, <3>2
      <4>2. old = dbs[Len(dbs)][e.ticket]
        BY <2>1, <2>2, <4>1 DEF LifeInv, CurrentIfNothingMissed
      <4> QED BY <2>6, <3>2, <4>1, <4>2
    <3> QED BY <3>1, <3>2
  <2> QED BY <2>4, <2>7
<1>7. ASSUME NEW r \in Rpcs, Save(r)
      PROVE  CurrentIfNothingMissed' /\ NewFollowsLast' /\ StatusMovesLegal'
  <2> PICK e : e = edit[r]
    OBVIOUS
  <2>1. /\ e.pc = "fetched" /\ e.node \in Nodes /\ e.user \in Users /\ e.ticket \in Tickets
        /\ e.new \in Ticket
    BY <1>7, <1>t, EditTypes DEF Save
  <2>2. /\ DbWrite(e.node, e.user, e.ticket, e.new)
        /\ edit' = [q \in Rpcs |->
               IF q = r THEN Idle
               ELSE IF edit[q].pc = "fetched" /\ edit[q].ticket = e.ticket
                    THEN [edit[q] EXCEPT !.missed = @ \cup {e.user}]
                    ELSE edit[q]]
        /\ lost' = IF e.missed = {} THEN lost ELSE lost \cup {e.ticket}
    BY <1>7 DEF Save
  <2>3. /\ CurrentIfNothingMissed'
        /\ \A s \in Tickets \ {e.ticket} : dbs'[Len(dbs')][s] = dbs[Len(dbs)][s]
    BY <2>1, <2>2, WriteCurrent
  <2>4. \/ e.ticket \in lost'
        \/ CanTransitionTo(dbs[Len(dbs)][e.ticket].status, e.new.status)
    BY <2>1, <2>2 DEF LifeInv, NewFollowsLast
  <2>5. StatusMovesLegal'
    BY <2>1, <2>2, <2>4, WriteLegal
  <2>6. NewFollowsLast'
    <3> SUFFICES ASSUME NEW q \in Rpcs, edit'[q].pc = "fetched", edit'[q].missed = {}
                 PROVE  /\ dbs'[Len(dbs')][edit'[q].ticket] # NoTicket
                        /\ CanTransitionTo(dbs'[Len(dbs')][edit'[q].ticket].status,
                                           edit'[q].new.status)
      BY DEF NewFollowsLast
    <3>1. q # r
      BY <2>2 DEF Idle
    <3>2. ~ (edit[q].pc = "fetched" /\ edit[q].ticket = e.ticket)
      <4> SUFFICES ASSUME edit[q].pc = "fetched", edit[q].ticket = e.ticket PROVE FALSE
        OBVIOUS
      <4>1. edit'[q] = [edit[q] EXCEPT !.missed = @ \cup {e.user}]
        BY <2>2, <3>1
      <4>2. edit[q] \in [pc : {"fetched"}, node : Nodes, user : Users, ticket : Tickets,
                         view : Nat, new : Ticket, missed : SUBSET Users,
                         fresh : BOOLEAN]
        BY <1>t, EditTypes
      <4>3. e.user \in edit'[q].missed
        BY <4>1, <4>2
      <4> QED BY <4>3
    <3>3. edit'[q] = edit[q]
      BY <2>2, <3>1, <3>2
    <3>4. edit[q].ticket \in Tickets \ {e.ticket}
      BY <1>t, <3>2, <3>3, EditTypes
    <3>5. /\ dbs[Len(dbs)][edit[q].ticket] # NoTicket
          /\ CanTransitionTo(dbs[Len(dbs)][edit[q].ticket].status, edit[q].new.status)
      BY <3>3 DEF LifeInv, NewFollowsLast
    <3> QED BY <2>3, <3>3, <3>4, <3>5
  <2> QED BY <2>3, <2>5, <2>6
<1>8. CASE UNCHANGED vars
  BY <1>8, <1>q DEF vars, dbVars
<1> QED BY <1>1, <1>2, <1>3, <1>4, <1>5, <1>6, <1>7, <1>8 DEF Next, Acquire, Release

\* From each committed state of the DB to the next a ticket makes an allowed move of
\* its lifecycle, unless one of its writes was overwritten unread: the allow-lists
\* that update_ticket checks on what it read hold of what is stored.
THEOREM LifecycleKept == Spec => []StatusMovesLegal
<1>1. Init => LifeInv
  <2> SUFFICES ASSUME Init PROVE CurrentIfNothingMissed /\ NewFollowsLast /\ StatusMovesLegal
    BY InitEditInv DEF LifeInv
  <2>1. Len(dbs) = 1 /\ \A r \in Rpcs : edit[r].pc = "idle"
    BY DEF Init, Idle
  <2> QED BY <2>1 DEF CurrentIfNothingMissed, NewFollowsLast, StatusMovesLegal
<1>2. LifeInv => StatusMovesLegal
  BY DEF LifeInv
<1> QED BY <1>1, <1>2, NextLifeInv, PTL DEF Spec

-----------------------------------------------------------------------------
(* The two stores that update_ticket works on promise what Replicas says,  *)
(* which is what Custodian.tla and DbReplica.tla are shown to keep.        *)

LockStore == INSTANCE Replicas WITH
       Initial <- NoLocks,
       states  <- tables,
       at      <- seen,
       shown   <- [n \in Nodes |-> tables[seen[n]]]

TicketStore == INSTANCE Replicas WITH
       Nodes   <- DbNodes,
       Initial <- [t \in Tickets |-> NoTicket],
       states  <- dbs,
       at      <- dbSeen,
       shown   <- [d \in DbNodes |-> dbs[dbSeen[d]]]

SeenTables == [n \in Nodes |-> tables[seen[n]]]

SeenTickets == [d \in DbNodes |-> dbs[dbSeen[d]]]

\* A lock command is a commit, a custodian node that applies one follows, and no other
\* step of ticket editing touches the lock store.
LEMMA LockStoreStep ==
  EditInv /\ [Next]_vars => [LockStore!Next]_(LockStore!vars)
<1> SUFFICES ASSUME EditInv, [Next]_vars
             PROVE  [LockStore!Next]_(LockStore!vars)
  OBVIOUS
<1>t. /\ Len(tables) \in Nat \ {0} /\ tables \in Seq(Table)
      /\ seen \in [Nodes -> 1..Len(tables)]
  BY LockStoreTypes DEF EditInv, TypeOK
<1>1. ASSUME NEW cmd \in Entry, Lock(cmd) PROVE [LockStore!Next]_(LockStore!vars)
  <2>1. ApplyEntry(tables[Len(tables)], cmd) \in Table
    BY <1>t, ApplyEntryType
  <2>2. /\ Len(tables') = Len(tables) + 1 /\ seen' = seen
        /\ \A i \in 1..Len(tables) : tables'[i] = tables[i]
    BY <1>t, <1>1, <2>1 DEF Lock
  <2>3. SeenTables' = SeenTables
    BY <1>t, <2>2 DEF SeenTables
  <2> QED BY <2>2, <2>3 DEF LockStore!Next, LockStore!Commit, LockStore!Extend, SeenTables
<1>2. ASSUME NEW n \in Nodes, Follow(n) PROVE [LockStore!Next]_(LockStore!vars)
  <2> DEFINE i == seen[n] + 1
  <2>1. /\ seen' = [seen EXCEPT ![n] = i] /\ tables' = tables
        /\ i \in (seen[n] + 1)..Len(tables)
    BY <1>t, <1>2 DEF Follow
  <2> HIDE DEF i
  <2>2. DOMAIN seen \cup {n} = Nodes
    BY <1>t
  <2>3. /\ seen' = [m \in DOMAIN seen \cup {n} |-> IF m = n THEN i ELSE seen[m]]
        /\ SeenTables' = [m \in DOMAIN seen \cup {n} |->
                            IF m = n THEN tables[i] ELSE SeenTables[m]]
    BY <1>t, <2>1, <2>2 DEF SeenTables
  <2>4. /\ n \in DOMAIN seen
        /\ \E j \in (seen[n] + 1)..Len(tables) :
             /\ seen' = [m \in DOMAIN seen \cup {n} |-> IF m = n THEN j ELSE seen[m]]
             /\ SeenTables' = [m \in DOMAIN seen \cup {n} |->
                                 IF m = n THEN tables[j] ELSE SeenTables[m]]
    BY <1>t, <2>1, <2>3
  <2>5. LockStore!Follow(n)
    BY <2>1, <2>4 DEF LockStore!Follow, LockStore!Show, LockStore!Serving, SeenTables
  <2> QED BY <2>5 DEF LockStore!Next
<1>3. CASE UNCHANGED <<tables, seen>>
  BY <1>3 DEF LockStore!vars
<1>4. \/ \E cmd \in Entry : Lock(cmd)
      \/ \E n \in Nodes : Follow(n)
      \/ UNCHANGED <<tables, seen>>
  <2>1. ASSUME NEW u \in Users, NEW n \in Nodes, NEW t \in Tickets
        PROVE  AcquireLock(t, u, clock[n], LockTtl) \in Entry
    BY EditAssumption DEF AcquireLock, Entry, LockCommand, EditInv, TypeOK
  <2>2. ASSUME NEW u \in Users, NEW t \in Tickets PROVE ReleaseLock(t, u) \in Entry
    BY DEF ReleaseLock, Entry, LockCommand
  <2> QED BY <2>1, <2>2
          DEF Next, Tick, Acquire, Release, CreateTicket, DbElect, DbFollow, CheckLock, Fetch,
              Save, FailRpc, vars, lockVars
<1> QED BY <1>1, <1>2, <1>3, <1>4

\* A write to the DB is a commit that the leader shows when it answers, a DB node that
\* applies one follows, and no other step touches the tickets.
LEMMA TicketStoreStep ==
  EditInv /\ EditInv' /\ [Next]_vars => [TicketStore!Next]_(TicketStore!vars)
<1> SUFFICES ASSUME EditInv, EditInv', [Next]_vars
             PROVE  [TicketStore!Next]_(TicketStore!vars)
  OBVIOUS
<1>t. /\ Len(dbs) \in Nat \ {0} /\ dbs \in Seq(Db) /\ dbLeader \in DbNodes
      /\ dbSeen \in [DbNodes -> 1..Len(dbs)] /\ edit \in [Rpcs -> Edit]
  BY DEF EditInv, TypeOK, Db
<1>1. ASSUME NEW n \in Nodes, NEW u \in Users, NEW t \in Tickets, NEW ticket \in Ticket,
             DbWrite(n, u, t, ticket)
      PROVE  [TicketStore!Next]_(TicketStore!vars)
  <2> PICK d \in DbNodes : d = dbLeader
    BY <1>t
  <2>1. /\ Len(dbs') = Len(dbs) + 1 /\ \A k \in 1..Len(dbs) : dbs'[k] = dbs[k]
        /\ dbSeen' = [dbSeen EXCEPT ![d] = Len(dbs')]
    BY <1>1, DbWriteType DEF DbWrite, EditInv
  <2>2. SeenTickets' = [SeenTickets EXCEPT ![d] = dbs'[Len(dbs')]]
    BY <1>t, <2>1 DEF SeenTickets
  <2>3. TicketStore!CommitAt(d)
    BY <1>t, <2>1, <2>2
       DEF TicketStore!CommitAt, TicketStore!Extend, TicketStore!Serving, SeenTickets
  <2> QED BY <2>3 DEF TicketStore!Next
<1>2. ASSUME NEW d \in DbNodes, DbFollow(d) PROVE [TicketStore!Next]_(TicketStore!vars)
  <2> DEFINE i == dbSeen[d] + 1
  <2>1. /\ dbSeen' = [dbSeen EXCEPT ![d] = i] /\ dbs' = dbs
        /\ i \in (dbSeen[d] + 1)..Len(dbs)
    BY <1>t, <1>2 DEF DbFollow
  <2> HIDE DEF i
  <2>2. DOMAIN dbSeen \cup {d} = DbNodes
    BY <1>t
  <2>3. /\ dbSeen' = [m \in DOMAIN dbSeen \cup {d} |-> IF m = d THEN i ELSE dbSeen[m]]
        /\ SeenTickets' = [m \in DOMAIN dbSeen \cup {d} |->
                             IF m = d THEN dbs[i] ELSE SeenTickets[m]]
    BY <1>t, <2>1, <2>2 DEF SeenTickets
  <2>4. /\ d \in DOMAIN dbSeen
        /\ \E j \in (dbSeen[d] + 1)..Len(dbs) :
             /\ dbSeen' = [m \in DOMAIN dbSeen \cup {d} |-> IF m = d THEN j ELSE dbSeen[m]]
             /\ SeenTickets' = [m \in DOMAIN dbSeen \cup {d} |->
                                  IF m = d THEN dbs[j] ELSE SeenTickets[m]]
    BY <1>t, <2>1, <2>3
  <2>5. TicketStore!Follow(d)
    BY <2>1, <2>4 DEF TicketStore!Follow, TicketStore!Show, TicketStore!Serving, SeenTickets
  <2> QED BY <2>5 DEF TicketStore!Next
<1>3. CASE UNCHANGED <<dbs, dbSeen>>
  BY <1>3 DEF TicketStore!vars
<1>4. ASSUME NEW r \in Rpcs, Save(r) PROVE [TicketStore!Next]_(TicketStore!vars)
  <2>1. /\ edit[r].node \in Nodes /\ edit[r].user \in Users /\ edit[r].ticket \in Tickets
        /\ edit[r].new \in Ticket
    BY <1>4, EditTypes DEF Save, EditInv
  <2> QED BY <1>1, <1>4, <2>1 DEF Save
<1>5. ASSUME NEW u \in Users, NEW n \in Nodes, NEW t \in Tickets, CreateTicket(n, u, t)
      PROVE  [TicketStore!Next]_(TicketStore!vars)
  <2>1. NewTicket \in Ticket
    BY DEF NewTicket, Ticket, TicketStatus, Resolution, NextAction
  <2> QED BY <1>1, <1>5, <2>1 DEF CreateTicket
<1>6. \/ \E r \in Rpcs : Save(r)
      \/ \E u \in Users, n \in Nodes, t \in Tickets : CreateTicket(n, u, t)
      \/ \E d \in DbNodes : DbFollow(d)
      \/ UNCHANGED <<dbs, dbSeen>>
  BY DEF Next, Tick, Follow, Acquire, Release, Lock, DbElect, CheckLock, Fetch, FailRpc,
         vars, dbVars
<1> QED BY <1>2, <1>3, <1>4, <1>5, <1>6

\* The stores of locks and of tickets that concurrent update_ticket calls work on are
\* replicated stores whose nodes lag, but never show anything that was not committed.
THEOREM StoresAreReplicas == Spec => LockStore!Spec /\ TicketStore!Spec
<1>1. Init => LockStore!Init /\ TicketStore!Init
  <2> SUFFICES ASSUME Init PROVE LockStore!Init /\ TicketStore!Init
    OBVIOUS
  <2>1. /\ SeenTables = [n \in Nodes |-> NoLocks]
        /\ SeenTickets = [d \in DbNodes |-> [t \in Tickets |-> NoTicket]]
    BY DEF Init, SeenTables, SeenTickets
  <2> QED BY <2>1 DEF Init, LockStore!Init, TicketStore!Init, SeenTables, SeenTickets
<1> QED
  BY <1>1, InitEditInv, NextEditInv, LockStoreStep, TicketStoreStep, PTL
     DEF Spec, LockStore!Spec, TicketStore!Spec
=============================================================================
