----------------------------- MODULE TicketEdit -----------------------------
(***************************************************************************)
(* Editing a ticket: the custodian's update_ticket checks the lock in the  *)
(* local store of the node that serves the RPC, then reads the ticket from *)
(* a DB node, then writes the whole ticket back.  Between those steps      *)
(* locks are acquired, released and run out, custodian and DB nodes lag    *)
(* behind, the DB changes its leader, and other RPCs take their own steps. *)
(*                                                                         *)
(* The two replicated stores appear as the sequences of their committed    *)
(* states; a node is in one of them and follows later (Custodian.tla is    *)
(* the detailed model of the first).                                       *)
(***************************************************************************)
EXTENDS LockTable, TicketLifecycle, Sequences

CONSTANTS
  Nodes,     \* custodian nodes
  DbNodes,   \* nodes of the DB cluster
  DbOf,      \* DbOf[n]: the DB node that custodian node n is connected to
  Rpcs,      \* update_ticket calls that may be in flight together
  Requests,  \* the updates users ask for: records with the fields they set
  NoTicket,  \* the DB has no such ticket
  LockTtl,   \* LOCK_TTL_SECS
  MaxTime,   \* bound on the clocks
  MaxLocks,  \* bound on the number of lock commands
  MaxWrites  \* bound on the number of DB writes

\* A request sets some of the fields; codes come from the wire as integers.
IsRequest(q) ==
  /\ DOMAIN q \subseteq {"status", "resolution", "next_action"}
  /\ "status" \in DOMAIN q => q.status \in Int
  /\ "resolution" \in DOMAIN q => q.resolution \in Resolution \ {"absent"}
  /\ "next_action" \in DOMAIN q => q.next_action \in NextAction

ASSUME EditAssumption ==
  /\ DbOf \in [Nodes -> DbNodes]
  /\ \A q \in Requests : IsRequest(q)
  /\ NoTicket \notin Ticket
  /\ LockTtl \in Int
  /\ MaxTime \in Nat
  /\ MaxLocks \in Nat
  /\ MaxWrites \in Nat

VARIABLES
  clock,     \* clock[n]: the wall clock of custodian node n
  cmds,      \* the lock commands that were accepted, in the order of the log
  tables,    \* the states of the lock table: cmds[i] led from tables[i] to the next
  seen,      \* seen[n]: which of them custodian node n is in
  dbLeader,  \* the DB node that leads
  dbs,       \* the states of the ticket tree, in the order of the DB's log
  author,    \* history: author[i] made the write that led from dbs[i] to dbs[i + 1]
  dbSeen,    \* dbSeen[d]: which of them DB node d is in
  edit,      \* edit[r]: where the update_ticket call r stands
  conflict,  \* history: tickets on which a user's write was overwritten by another
             \* user who had not read it
  forfeited, \* history: tickets written by a user who had given the lock back, or had
             \* lost it with its lease over, since the lock state that was checked
  stale,     \* history: tickets written by a call that had read an old state
  lost       \* history: tickets on which any write was overwritten unread

lockVars == <<clock, cmds, tables, seen>>
dbVars   == <<dbLeader, dbs, author, dbSeen>>
ghosts   == <<conflict, forfeited, stale, lost>>
vars == <<lockVars, dbVars, edit, ghosts>>

Idle == [pc |-> "idle"]

Edit == {Idle}
  \cup [pc : {"checked"}, node : Nodes, user : Users, ticket : Tickets,
        req : Requests, view : Nat]
  \cup [pc : {"fetched"}, node : Nodes, user : Users, ticket : Tickets, view : Nat,
        new : Ticket, missed : SUBSET Users, fresh : BOOLEAN]

Author == [ticket : Tickets, user : Users]

TypeOK ==
  /\ clock \in [Nodes -> Nat]
  /\ cmds \in Seq(Entry)
  /\ tables \in Seq(Table)
  /\ Len(tables) = Len(cmds) + 1
  /\ seen \in [Nodes -> 1..Len(tables)]
  /\ dbLeader \in DbNodes
  /\ dbs \in Seq([Tickets -> Ticket \cup {NoTicket}])
  /\ author \in Seq(Author)
  /\ Len(dbs) = Len(author) + 1
  /\ dbSeen \in [DbNodes -> 1..Len(dbs)]
  /\ edit \in [Rpcs -> Edit]
  /\ conflict \in SUBSET Tickets
  /\ forfeited \in SUBSET Tickets
  /\ stale \in SUBSET Tickets
  /\ lost \in SUBSET Tickets

Init ==
  /\ clock = [n \in Nodes |-> 0]
  /\ cmds = << >>
  /\ tables = <<NoLocks>>
  /\ seen = [n \in Nodes |-> 1]
  /\ dbLeader \in DbNodes
  /\ dbs = <<[t \in Tickets |-> NoTicket]>>
  /\ author = << >>
  /\ dbSeen = [d \in DbNodes |-> 1]
  /\ edit = [r \in Rpcs |-> Idle]
  /\ conflict = {}
  /\ forfeited = {}
  /\ stale = {}
  /\ lost = {}

-----------------------------------------------------------------------------
(* The lock table and its replicas. *)

Tick(n) ==
  /\ clock[n] < MaxTime
  /\ clock' = [clock EXCEPT ![n] = @ + 1]
  /\ UNCHANGED <<cmds, tables, seen, dbVars, edit, ghosts>>

\* A lock command that is accepted is committed.
Lock(cmd) ==
  /\ Len(cmds) < MaxLocks
  /\ Accepts(tables[Len(tables)], cmd)
  /\ cmds' = Append(cmds, cmd)
  /\ tables' = Append(tables, ApplyEntry(tables[Len(tables)], cmd))
  /\ UNCHANGED <<clock, seen, dbVars, edit, ghosts>>

Acquire(u, n, t) == Lock(AcquireLock(t, u, clock[n], LockTtl))

Release(u, t) == Lock(ReleaseLock(t, u))

\* Variant: a node applies past the end of the log.
FollowPastEnd(n) ==
  /\ seen[n] <= Len(tables)
  /\ seen' = [seen EXCEPT ![n] = @ + 1]
  /\ UNCHANGED <<clock, cmds, tables, dbVars, edit, ghosts>>

\* A custodian node applies the next lock command.
Follow(n) ==
  /\ seen[n] < Len(tables)
  /\ seen' = [seen EXCEPT ![n] = @ + 1]
  /\ UNCHANGED <<clock, cmds, tables, dbVars, edit, ghosts>>

-----------------------------------------------------------------------------
(* The DB and its replicas. *)

\* Another DB node is elected; it has every committed entry in its log, and may
\* still have to apply them.
DbElect(d) ==
  /\ dbLeader # d
  /\ dbLeader' = d
  /\ UNCHANGED <<lockVars, dbs, author, dbSeen, edit, ghosts>>

\* A DB node applies the next write.
DbFollow(d) ==
  /\ dbSeen[d] < Len(dbs)
  /\ dbSeen' = [dbSeen EXCEPT ![d] = @ + 1]
  /\ UNCHANGED <<lockVars, dbLeader, dbs, author, edit, ghosts>>

\* client_write at the DB node custodian n is connected to: an error unless that
\* node leads; it returns when the write, and all before it, are applied there.
DbWrite(n, u, t, ticket) ==
  /\ Len(author) < MaxWrites
  /\ DbOf[n] = dbLeader
  /\ dbs' = Append(dbs, [dbs[Len(dbs)] EXCEPT ![t] = ticket])
  /\ author' = Append(author, [ticket |-> t, user |-> u])
  /\ dbSeen' = [dbSeen EXCEPT ![dbLeader] = Len(dbs) + 1]
  /\ UNCHANGED dbLeader

\* create_ticket: the DB stores what Ticket::new made.
CreateTicket(n, u, t) ==
  /\ dbs[Len(dbs)][t] = NoTicket
  /\ DbWrite(n, u, t, NewTicket)
  /\ UNCHANGED <<lockVars, edit, ghosts>>

-----------------------------------------------------------------------------
(* update_ticket *)

\* Variant: any lock will do.
SomebodyHoldsLock(locks, t, u, now) == locks[t] # NoLock /\ ~ IsExpired(locks[t], now)

\* An expired lock is treated as not held.
HoldsLock(locks, t, u, now) ==
  locks[t] # NoLock /\ ~ IsExpired(locks[t], now) /\ locks[t].user = u

\* The lock check, in the store of the node that serves the call and by its clock.
\* When it fails the call ends with nothing changed.
CheckLock(r, u, n, t, req) ==
  /\ edit[r].pc = "idle"
  /\ HoldsLock(tables[seen[n]], t, u, clock[n])
  /\ edit' = [edit EXCEPT ![r] = [pc |-> "checked", node |-> n, user |-> u, ticket |-> t,
                                  req |-> req, view |-> seen[n]]]
  /\ UNCHANGED <<lockVars, dbVars, ghosts>>

\* The status the request asks for, or the one the ticket has.
Requested(ticket, req) ==
  IF "status" \in DOMAIN req THEN FromU8(AsByte(req.status)) ELSE ticket.status

\* "Only update provided fields."
ApplyUpdates(ticket, req) ==
  [status      |-> Requested(ticket, req),
   resolution  |-> IF "resolution" \in DOMAIN req THEN req.resolution ELSE ticket.resolution,
   next_action |-> IF "next_action" \in DOMAIN req THEN req.next_action
                   ELSE ticket.next_action]

\* The users whose writes of ticket t are not in state i of the DB.
Missed(t, i) == {author[k].user : k \in {j \in i..Len(author) : author[j].ticket = t}}

\* Variant: the lifecycle is not asked.
FetchUnchecked(r) ==
  /\ edit[r].pc = "checked"
  /\ LET e   == edit[r]
         d   == DbOf[e.node]
         old == dbs[dbSeen[d]][e.ticket]
     IN edit' = [edit EXCEPT ![r] =
          IF old # NoTicket
          THEN [pc |-> "fetched", node |-> e.node, user |-> e.user, ticket |-> e.ticket,
                view |-> e.view, new |-> ApplyUpdates(old, e.req),
                missed |-> Missed(e.ticket, dbSeen[d]),
                fresh |-> Missed(e.ticket, dbSeen[d]) = {}]
          ELSE Idle]
  /\ UNCHANGED <<lockVars, dbVars, ghosts>>

\* The ticket is read in the local store of the DB node and changed in memory; a
\* missing ticket and a status move that the lifecycle forbids end the call.
Fetch(r) ==
  /\ edit[r].pc = "checked"
  /\ LET e   == edit[r]
         d   == DbOf[e.node]
         old == dbs[dbSeen[d]][e.ticket]
     IN edit' = [edit EXCEPT ![r] =
          IF old # NoTicket /\ CanTransitionTo(old.status, Requested(old, e.req))
          THEN [pc |-> "fetched", node |-> e.node, user |-> e.user, ticket |-> e.ticket,
                view |-> e.view, new |-> ApplyUpdates(old, e.req),
                missed |-> Missed(e.ticket, dbSeen[d]),
                fresh |-> Missed(e.ticket, dbSeen[d]) = {}]
          ELSE Idle]
  /\ UNCHANGED <<lockVars, dbVars, ghosts>>

\* The lock command i ends u's right to ticket t the way the protocol means it to:
\* u gives the lock back, or another user takes it over expired.
Forfeits(t, u, i) ==
  \/ cmds[i] = ReleaseLock(t, u)
  \/ /\ cmds[i].op = "acquire"
     /\ cmds[i].ticket = t
     /\ cmds[i].user # u
     /\ IsExpired(tables[i][t], cmds[i].at)

Forfeited(e) == \E i \in e.view..Len(cmds) : Forfeits(e.ticket, e.user, i)

\* The whole ticket is written back; the lock is not looked at again.
Save(r) ==
  /\ edit[r].pc = "fetched"
  /\ LET e == edit[r]
     IN /\ DbWrite(e.node, e.user, e.ticket, e.new)
        /\ edit' = [q \in Rpcs |->
             IF q = r THEN Idle
             ELSE IF edit[q].pc = "fetched" /\ edit[q].ticket = e.ticket
                  THEN [edit[q] EXCEPT !.missed = @ \cup {e.user}]
                  ELSE edit[q]]
        /\ conflict' = IF e.missed \subseteq {e.user} THEN conflict
                       ELSE conflict \cup {e.ticket}
        /\ forfeited' = IF Forfeited(e) THEN forfeited \cup {e.ticket} ELSE forfeited
        /\ stale' = IF e.fresh THEN stale ELSE stale \cup {e.ticket}
        /\ lost' = IF e.missed = {} THEN lost ELSE lost \cup {e.ticket}
  /\ UNCHANGED lockVars

\* The DB or the custodian fails before the write.
FailRpc(r) ==
  /\ edit[r].pc # "idle"
  /\ edit' = [edit EXCEPT ![r] = Idle]
  /\ UNCHANGED <<lockVars, dbVars, ghosts>>

Next ==
  \/ \E n \in Nodes : Tick(n) \/ Follow(n)
  \/ \E u \in Users, n \in Nodes, t \in Tickets : Acquire(u, n, t) \/ CreateTicket(n, u, t)
  \/ \E u \in Users, t \in Tickets : Release(u, t)
  \/ \E d \in DbNodes : DbElect(d) \/ DbFollow(d)
  \/ \E r \in Rpcs, u \in Users, n \in Nodes, t \in Tickets, req \in Requests :
       CheckLock(r, u, n, t, req)
  \/ \E r \in Rpcs : Fetch(r) \/ Save(r) \/ FailRpc(r)

Spec == Init /\ [][Next]_vars

-----------------------------------------------------------------------------
\* The lock protocol is enough: one user's write is lost under another's only on a
\* ticket written by a call whose user, since the lock state that was checked, had
\* given the lock back or outlived its lease (which a lagging node may not have
\* seen), or that had read a DB node that lagged.
ConflictOnlyAfterLostLock == conflict \subseteq forfeited \cup stale

\* The lifecycle is kept by what is stored, not only by what each call saw: from
\* one state of the DB to the next a ticket makes an allowed status move, unless
\* a write of it was overwritten unread.
StatusMovesLegal ==
  \A i \in 1..(Len(dbs) - 1), t \in Tickets \ lost :
    dbs[i][t] # NoTicket => CanTransitionTo(dbs[i][t].status, dbs[i + 1][t].status)
=============================================================================
