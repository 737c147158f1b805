# InfoVulcan: a TLA+ verification project

InfoVulcan is a ticketing system made of Rust services: a custodian that guards and edits
tickets, a replicated DB, and admin, auth, gateway, chaos and honeypot services around
them.  This directory holds TLA+ models of them, the TLC configurations that check
them on small instances, and theorems about them that TLAPS checks for every value of the
constants.  `PROJECT.json` is the index: components, runs, mutants, the map from
definitions to source lines, findings, hazards and theorems.

Run a check with `tlc -config <run>.cfg <module>`, a proof with `tlapm <module>.tla`.

## 1. The system

| part | state | operations | talks to |
|---|---|---|---|
| custodian lock state machine (`custodian/src/raft.rs`, `storage.rs`) | sled tree `locks`: ticket → holder, expiry | `AcquireLock`, `ReleaseLock` | applied by Raft on every node |
| custodian replicated store (`custodian/src/raft.rs`) | trees `raft_log`, `raft_metadata`; `last_applied_log` and membership in memory | append, apply, build a snapshot, purge; `install_snapshot`, which nothing reaches | openraft, sled |
| custodian server (`custodian/src/server.rs`) | none of its own | `acquire_lock`, `release_lock`, `create_ticket`, `update_ticket`, reads | Raft of its own node, one DB node |
| db storage (`db/src/storage.rs`) | tickets, users, secondary indexes, id sequences, plain collections | create, update, soft-delete, query, put, delete, batch | applied by Raft on every DB node |
| db store and server (`db/src/raft.rs`, `server.rs`) | as the custodian's | writes through Raft, reads from the local store | openraft, sled |
| Raft transport (`*/src/network.rs`, `raft_service.rs`, `raft-rpc`) | connections | votes, log ids and entries to wire messages and back; start of the cluster | peers |
| admin, auth | a key file and a JWT secret on disk (accounts are records in the DB) | users and credentials; login and session checks; audit records | DB |
| gateway `lbrp` | client connections, endpoints in effect | HTTP to gRPC; reload of `services.toml` | all services |
| chaos | active scenarios, expiry tasks | inject, stop, expire, list | – |
| honeypot | – | traps, report of a hit | admin |
| web frontend (`web/src`) | token, loaded ticket, search results, form | login, lookup, search, create, update | gateway |
| shared | – | ticket lifecycle, users, encryption, key file, registry | all |

What is hard in it, and what the models are about:

* **Locks are replicated but their guard is not.**  A lock command is ordered by Raft; the
  lock *check* of `update_ticket` reads the local tree of one node, then two network calls
  to the DB follow, and the lock is not looked at again.
* **The store persists its tables but not how far it applied the log.**
  `CustodianStateMachine::new` starts from `last_applied_log: None` over a tree that kept
  its content.
* **Snapshots are built, and never kept.**  openraft purges the log up to a snapshot that
  was built, but `get_current_snapshot` returns `None`, always: there is nothing to send to a
  node that lacks purged entries, and nothing to start from after a restart.  openraft takes
  that for a storage error and ends the Raft of the node; the process and its reads go on.
* **Time.**  Leases are judged by the time stamps that nodes put into commands, and nothing
  keeps the nodes' clocks together.
* **Reads of the DB are local**, a leader may still have committed writes to apply, and an
  entry is applied as a series of separate tree writes that readers see one by one.
* **Replay.**  The DB, too, forgets how far it applied the log, and its creations are not
  idempotent.
* **Accounts are two records.**  A profile and its credentials are put one after the other
  and changed by read-modify-write, without any transaction.
* **Log ids change on the wire.**  The messages carry the term and the index of a log id but
  not the node that led the term; the receiver takes the sender for it.  openraft compares
  log ids with their node, to judge candidates and to match logs.
* **What must be on disk is not always flushed.**  The custodian's vote is put without a
  flush; a purge removes entries durably before it records that it did.
* **Answers out of order.**  The web page puts every answer into whatever it shows by then;
  its user, other users and the answers before it go on meanwhile.
* **Configuration that changes while everything runs.**  The gateway follows a file that may
  be half-written, with clients whose redirection can fail, and services that share a
  storage path race for one key file.

`PROJECT.json` lists each hazard at its line with the properties that would catch it.

## 2. Modules

```
LockTable ──────┬── LockService ── LockServiceProofs (used by CustodianProofs)
                │        ▲ refinement
                ├── Custodian ── MCCustodian
                │        └── CustodianProofs
                └── TicketEdit ── MCTicketEdit
TicketLifecycle ─────┘   └── TicketEditProofs
LockTableProofs is used by the proof modules above.
Replicas is what Custodian, DbReplica (in DbReplicaProofs) and TicketEdit (in
TicketEditProofs) are shown to implement.

DbStorage ── DbReplica ─┬─ MCDbReplica
                        └─ DbReplicaProofs
Accounts ── MCAccounts

RaftWire ─┬─ CustodianRaft ─┐
          └─ DbRaft ────────┴─ RaftCluster ─┬─ MCRaftCluster
                                            └─ RaftClusterProofs

TicketWire ── RestApi ─────────────────────┬─ Console ─┬─ MCConsole
WebDomain, TicketLifecycle, Encryption ────┘           └─ ConsoleProofs

Discovery, KeyStore, Encryption ── Gateway ── MCGateway

Chaos ────────┬─ Operations ── MCOperations
IntrusionLog ─┘

Accounts, Operations, Gateway ── ServiceProofs
```

ServiceProofs extends three specifications that share no variable; that is why the first two
prefix the names that every specification has (`AccountsInit`, `OperationsNext`, ...).

**LockTable** – pure operators: the commands of the log, the table of locks, and
`CustodianStateMachine::apply` as `Accepts` (the answer) and `ApplyEntry` (the effect).
Expiry is judged at the command's own time stamp; a release of somebody else's lock is
refused even when that lock has expired; a lifetime of 0 or less means "never".

**LockService** – what a caller may rely on: one table, commands that take effect one at a
time between request and answer, answers that tell what happened, and errors that tell
nothing.  `NoDoubleGrant` is its main property.

**Replicas** – what a replicated store promises to those who read one node of it: writes make
a sequence of committed states, a serving node shows one of them and goes on to later ones
only, and a node may leave and join.  It is the other abstract specification: `LockService`
is about callers of writes, `Replicas` about readers (`check_lock`, `update_ticket`'s check,
`get_ticket`).  `Custodian` implements it with the nodes whose whole table stems from the log
(`Exact`), `DbReplica` with the nodes that never stopped, and the two stores that
`TicketEdit` works on implement it with all their nodes.

**Custodian** – the replicated service.  openraft is external and appears by its contract:
one committed log, committed by a quorum; a leader has every committed entry; a node
applies its log in order *from the last applied entry its store reports*; when the storage has
not got what openraft asks it for, the Raft of that node ends, while its process goes on.
Everything the repository's own store does is there:

| code | action |
|---|---|
| `acquire_lock`, `release_lock` up to `client_write` | `RequestAcquire`, `RequestRelease` (`Stamp`) |
| `client_write` on a follower / on the leader | `NotLeader` / `Commit` |
| `append_to_log` (its flush flushes the whole database) | `AppendOn`, `Replicate` |
| `apply_to_state_machine`, and the answer to the caller | `Apply` |
| `get_snapshot_builder`, then `build_snapshot`, whose data nobody keeps | `BuildSnapshot` |
| `purge_logs_upto` | `Purge` |
| `get_current_snapshot` returns `None` to a leader that is to send one | `MissingSnapshot` |
| `try_get_log_entries` has not got what is to be applied | `MissingEntries` |
| process stops; sled recovers some state since the last flush | `Crash` |
| `CustodianStore::new` | `Restart` |

`durable[n]` is the set of tables a crash may leave: sled flushes in the background, so any
table since the last explicit flush is possible.  `hist` and `exact` are history variables:
the table after every prefix of the log, and the tickets whose lock on a node stems from
the log alone (all of them at first; after a restart those that were free on disk).
`fatal` has the nodes whose Raft ended.  Such a node neither writes, applies, votes nor leads
(`Runs`), and whoever waits for its answer gets the error (`EndRaft`); it serves reads of the
table it has until somebody restarts it, and a restart over a purged log ends again, since the
store reports that nothing was applied and the first entries are gone.  `snapshot` is only the
index that openraft remembers of the last one built.  `MissingSnapshot` needs a node that
sends (`Sends`): the leader, or, while nobody leads, a node with every entry and a majority
behind it, as an elected node replicates before its no-op is committed.  The follower need not
run: openraft asks for the snapshot before it connects.

**TicketLifecycle** – status codes and the allow-lists.  A ticket is reduced to the three
fields that `update_ticket` looks at; the resolutions other than `None` are one value and so are
the next actions other than `None`, as no rule tells them apart.

**TicketEdit** – `update_ticket` in its three steps, `CheckLock`, `Fetch` and `Save`, of
several concurrent calls.  The two replicated stores are the sequences of their committed
states (`tables` with the commands `cmds` between them, `dbs` with their authors); a node
is in one of those states and follows.  Each custodian node is connected to one DB node
(`DbOf`, from `DB_LEADER_ADDR`); writes need that node to lead, reads do not.  History
variables record what a write overwrote unread (`conflict`, `lost`), whether its user had
forfeited the lock since the table that was checked (`forfeited`), and whether it had read
an old state (`stale`).

**DbStorage** – the trees of one DB node as `[rows, idx, seq]`: rows of tickets (keyed by
id) and users (keyed by uuid), the entries `<<tree, value, key>>` of all secondary indexes,
and the id counter.  A log entry is carried out as a series of writes, each to one tree and
flushed: `Begin` gives the first, `WriteStore` does one, `AfterWrite` gives the next.  The
order is the code's: the counter for a new ticket, the removal of the old index entries tree
by tree, the row, the new index entries tree by tree; a deleted row has no index entries.
Tickets and users share the definitions, since the code of the two differs only in the key
and in the trees.  `Candidates`, `Visible` and `Matches` are the parts of `query_tickets`;
`Answer` and `IndexOf` are the reference definitions, by rows alone.

**DbReplica** – the DB cluster over `DbStorage`:

| code | action |
|---|---|
| `create_ticket`, `update_ticket`, `soft_delete_ticket` and the same of users, up to `client_write` | `Propose...` |
| `apply_to_state_machine` takes an entry; it fails, or its writes begin | `BeginApply` |
| one insert or remove, and its flush | `Write` |
| process stops, `DbStore::new` | `Crash`, `Restart` |
| `query_tickets`: the scan, the reads, the answer | `QueryScan`, `QueryRead`, `QueryReturn` |

`hist` has the rows and the counter after every prefix of the log, `clean` the nodes that
never stopped.  An error from apply halts a node for good, as openraft stops its core on a
storage error; its reads go on.  The log is not purged here: what a purge does to a cluster
without snapshots is in `RaftCluster` and `Custodian`, and it leaves the trees alone.

**Accounts** – the admin and auth services over the DB's plain records.  The DB is the
sequence of its committed states (`dbs`), each service's DB node is in one of them
(`adminSeen`, `authSeen`).  A call of the admin service is a record of what it is about to
put:

| code | action |
|---|---|
| `create_user` up to the first put | `CreateUser` |
| `update_user`, `delete_user`: the read and the changes | `UpdateUser`, `DeleteUser` (`Modify`) |
| the put of the profile; the put of the credentials (`update_password` included) | `PutProfile`, `PutAuth` |
| a get or put that ends in an error and was not committed | `CallFails` |
| `authenticate`: credentials and password; profile and token; an error | `Verify`, `Issue`, `LoginFails` |

A put has two outcomes besides: answered, or committed although the caller gets an error
(`ok`), after which the admin service's own node may lag.  `ValidateSession` is what
`validate_session` answers; it changes nothing.  History variables: `want` has the
profiles as if each call had changed its fields in one step; `overlapped` the users on whom
two calls overlapped or a call read an old profile; `failed` the users whose creation ended
in an error after its first put.  MFA fields are left out: `update_password` keeps them and
no service sets them.

**RaftWire** – openraft's log ids and votes, their order, and the conversions of `raft-rpc`:
what of a log id travels, and what the receiver makes of it.

**CustodianRaft, DbRaft** – what the two replicated services give openraft: the log store
(`save_vote`, `append_to_log`, `delete_conflict_logs_since`, the two steps of
`purge_logs_upto`, `try_get_log_entries`, `get_log_state`, what is there after a restart),
both sides of each RPC, and the choice of the node that initializes the cluster.  They are
siblings because the code is: the differences (the DB flushes its vote, names the log id of
an answer from other fields) are where the two are checked against each other.  `votes` and
`purges` are the values that a crash may leave.

**RaftCluster** – a cluster of either service: openraft 0.9's elections, replication,
commitment and purge (external, written as the engine behaves towards its
storage) over those stores and conversions.  An RPC is handled in one step; its answer may
be lost; a candidate that is refused learns the higher vote only from the node it is of.
`decided` has what a leader committed.  `causes` names what happened that Raft does not
expect of its host: a vote judged by a changed log id (`misjudged`), an entry of one's own
taken for the leader's because the leader's log id changed (`mistaken`), equal entries
dropped, a vote or a `last_purged` taken back by a crash, a restart with all of the log purged
(`emptied`).  A leader that is to send a snapshot, and a restarted node that is to apply purged
entries, end as in `Custodian`; here that is a `Stop`, as a Raft that has ended is for its peers
a node that is gone.  Nobody installs a snapshot.  The service is chosen in `Init`.

**Encryption** – who can open what: a sealed value names the key that it is sealed for.

**TicketWire, WebDomain, RestApi** – the next action of a ticket as the custodian keeps it,
as the custodian's messages, the REST API and the web form have it, and the conversions
between them; the page's own copy of the lifecycle (`web/src/domain.rs`); the answers of the
ticket routes, errors included.

**Console** – the web page in one browser tab, the gateway's ticket routes and the
custodian's ticket RPCs.  Each handler of the page sends its request (`Send`) and returns;
`Serve...` are the gateway and the custodian, `Arrive...` what the page does with the answer,
`Discard` an answer that is an error, is lost or comes to a page that is gone.  Other clients
change tickets and take locks, and the gateway may be sent to another custodian node, which
has another key pair.  History variables: `about` has the ticket that each field of the form
is about, `hasty` that the user went on while an answer was on its way, `touched` and
`created` what happened to the form since it was loaded.

**Discovery** – how addresses are resolved from `services.toml`, overrides and defaults, and
what one reload does to the clients.

**KeyStore** – the start of auth and admin up to their key pair and secret, file operation
by file operation; `fs::write` first truncates and then fills.  `raced` records that a
service found no key file while another one was making it.

**Gateway** – the gateway's start, its reload loop and its routes for logins, users and
health, between operators who edit the file and the PEM files and the services of
`KeyStore`.  A request keeps the addresses that its clients had when it began.  `stuck` has
the services whose last redirection failed.

**Chaos** – scenarios and their expiry tasks; a task is spawned before its scenario is in the
table.  `early` has those whose task woke up in between, `dropped` those whose caller hung up in
between (`Hangup`): tonic then drops the handler, and the task stays.

**IntrusionLog** – the honeypot's reports and the admin service's audit records, with outages
of admin and of its DB.  A put that ends in an error leaves the record `"unknown"`: it is
committed later (`PutAfterError`), or never.

**Operations** – the two together, which share nothing; it states the fairness.

**MCCustodian, MCTicketEdit, MCDbReplica, MCAccounts, MCRaftCluster, MCConsole, MCGateway,
MCOperations** give the constants their small values.

Definitions whose comment starts with "Variant:" are wrong on purpose: each is an
operator as a plausible bug would have it, and `PROJECT.json` says which property
notices when it takes the place of the right one.  No specification uses them.

## 3. What the runs check

Passing runs:

* `custodian_steady` (2 nodes, 2 users, 1 ticket, clocks 0..2, 5 entries, two calls at
  once; `SteadySpec`, so no crashes, and no snapshots): `ImplementsLockService`,
  `NoDoubleGrant`.  Enough for an acquisition by each user, an expiry,
  a takeover, a release and an election among them, with either node stamping.
* `custodian_faults` (3 nodes, 1 user, 1 ticket, 2 entries, one crash, snapshots every 2
  entries): `ExactTicketsFollowLog`, `ImplementsReplicas`, `EveryCallReturns`,
  `HealthyNodesCatchUp` through crash, lost writes, restart, replay, purge, and Rafts that end
  with a storage error.  Two entries fill a snapshot, and an election adds its own entry beyond
  the bound when no leader is left, so that a node can lack entries which the others have purged,
  and the others can end one by one.  `EveryCallReturns` is about a cluster that keeps a
  majority of running Rafts; `HealthyNodesCatchUp` says that a node which does not catch up
  stops to report itself healthy, and does not say that every node gets there: it cannot.
  A second user would add acquisitions that are refused, and a second ticket one that is locked
  beside one that is free; refused acquisitions are in `custodian_steady`, and in
  `custodian_double` with a restart, and the theorems about the two safety properties are for
  any users and tickets.
* `edit` (2 custodian nodes, each with its DB node, 2 users, 2 calls, 2 lock commands, 3
  writes): `ConflictOnlyAfterLostLock`, `StatusMovesLegal`.  One creation and two saves are
  the least in which a write can be lost; two lock commands are an acquisition and its end.
  One request closes the ticket and sets a resolution; the other has a status that fits no
  byte, which then means Open: a move that is legal until the first request is stored.
* `db` (1 node, tickets 1..2, 1 user, 4 + 1 index trees, 3 entries, 1 crash, 1 query with
  six filters, one for each way to find candidates): `NodesFollowLog`, `HaltsExplained`,
  `QueriesComplete`, `TicketsStayDeleted`.  Nodes share nothing but the committed log, so
  what one node does is independent of the others and one node suffices; three entries are a
  creation, a change and a deletion or a second creation, in every order, and the crash may
  fall between any two writes of them.
* `accounts` (2 uuids, 2 names, 2 calls of the admin service, 1 login, 4 puts):
  `CredentialsMatchProfiles`, `LoginsResolve`, `EditsLostOnlyByOverlap`, `AccountsComplete`.
  Four puts are a whole creation with two changes, or two creations of one name; the one
  request of `update_user` is a promotion, with or without a password, and `delete_user` is
  what it can collide with.
* `raft` (both services; `RAFT_PEERS` with three well-formed nodes and one entry that does
  not parse; terms 1 and 2, one candidacy after the first, 2 entries, 1 crash, 1 purge):
  `LossesExplained` says that an entry that was committed is missing at a later leader, or that
  nodes apply different entries at one index, only after one of the named causes;
  `LogsContiguous` that, without them, the log of a running node goes from the entry after
  `last_purged` to the last one; `DbVotesNeverRecede` that the flush the DB does and the
  custodian does not is what keeps a vote.  One candidacy is enough for a leader of a second
  term, 2 entries for logs of different length and leader, and the crash can fall before,
  between and after the two steps of the purge.  After the purge a leader can lack a snapshot
  to send, and after the crash a node the entries to apply.
* `console` (2 custodian keys, 2 calls in flight, 2 tickets, 4 requests, 1 change typed, 1
  change from outside): `MisfiledOnlyInHaste`, `SavesStoreWhatWasShown`, `RefusalsExplained`,
  `UntouchedSavesKeepTicket`, `TicketsKeepTheirKey`.  Four requests are a login, two that
  load tickets and a save that may cross them.  `MaxSeconds` is chrono's range, and the
  times typed lie in it and beyond it.
* `gateway` (2 edits, 3 requests, 3 key pairs, 1 stop; registries that leave a service
  where it is, move it to a dead address or to one that is no URI; a first file that may be
  unreadable; a blank or a set override): `RoutesAreCurrent`, `RoutesConverge`,
  `AccountsReadable`, `TokensStayValid`, `KeyFileKept`.  Three requests are a creation, a
  login and a use of what they left; two services make at most two key pairs at once, and a
  third after a stop.
* `operations` (2 scenarios, 2 concurrent injections, 2 accesses, 1 outage, 2 seconds):
  `ScenariosOwnTheirTasks`, `ScenariosEnd`, `StoredAccessesRemain`.  Accesses in the same
  second or the next, to the same trap or another, are all the ways their keys can compare.
  `ScenariosOwnTheirTasks` exempts the task of a call that was dropped before the insertion:
  there never is an entry for it, and it removes nothing.

Runs that show a disagreement between the code and what its documents or comments say
(section 6): `custodian_double` (1 node; 3 users and 6 entries are what the counterexample
takes), `custodian_rejoin` (as `custodian_faults`, without the crash), `raft_lost`.

Deadlock is not checked: clocks, log and crashes are bounded, so every run ends in states
where the bounds leave nothing to do.  Bounds are the constants named `Max...`; each cuts
off a counter in the guard of the action that advances it.  Symmetry is used for users,
nodes, calls, uuids, names and keys in runs without liveness; the specifications treat these
alike (`edit` permutes a custodian node together with its DB node, `DbOf` being between
them; Raft nodes are ordered by their ids and are not permuted).

**Fairness.**  `custodian_faults` and `custodian_rejoin`: weak fairness of replication, apply
and restart on each node, of the two storage errors, of the two outcomes of `client_write`, and
of an election while nobody leads.  That is what openraft's own tasks and the process supervisor
do by themselves; clocks, requests, crashes, compaction and the replacement of a working leader
owe nothing.  The error for want of a snapshot is fair only for followers that run, as openraft
may or may not have come to send to one that is gone; a Raft that has ended is not restarted,
since its process goes on and only `health` tells.  `health` answers `false` for a candidate;
`Healthy` takes every node for one while nobody leads, although a follower that has not yet
noticed is healthy to the code.  That lasts for one election timeout, and
`HealthyNodesCatchUp` speaks only of what holds for good.

`gateway`: weak fairness of the reload, which the code runs in a loop with an interval.
`operations`: weak fairness of each expiry task, which tokio runs once its timer is due; calls
owe nothing.

## 4. What is proved

All theorems hold for any sets of nodes, users and tickets, any lifetimes (0 and negative
ones included), any clocks and logs of any length; the assumptions are the named `ASSUME`s
of the modules, which only say that the constants have their types and that the null values
are not ordinary ones.

* `LockServiceProofs!ServiceNeverDoubleGrants`: `Spec => []NoDoubleGrant` for the abstract
  service.  `NoDoubleGrant` only speaks of answers, so it is not inductive.  The invariant
  `IInv` adds: what callers were told is what happened in the log (`ToldIsWhatHappened`);
  every granted acquisition is still in the table or its lease has ended
  (`GrantsHeldOrEnded`); and hence two conflicting grants have an end between them
  (`GrantsExclusive`).
* `CustodianProofs!TypeCorrect` and `StoresFollowLog`: `Spec => []ExactTicketsFollowLog`
  with all faults.  The strengthening says that `hist` is the log's own history
  (`HistFollowsLog`) and that all indexes stay inside the log (`IndexesInLog`).  The heart of the step for
  `Apply` is the lemma `ApplyEntryIsLocal`: what a command does to a ticket depends on that
  ticket's lock alone, so a node may be wrong about one ticket and right about another.
* `CustodianProofs!NoAnswerIsLost`: `Spec => []WaitersCanBeAnswered`, with all faults: a
  caller who waits does so at a node whose Raft runs and that has the entry, unpurged and yet
  to be applied.  It is what `EveryCallReturns` rests on, and needs that a purge, which goes up
  to a snapshot, only removes what was applied (`SnapshotsApplied`), and that whatever ends a
  Raft or a process releases those who wait there.
* `CustodianProofs!SteadyImplementsLockService`: `SteadySpec => ImplementsLockService`.
  The mapping takes the committed log as the order of effects, `hist` as the table and the
  verdicts, and a waiting call as one that had its effect.  `SteadyInv` gives the two facts
  it needs: a running node's table is the prescribed one, so its answer is the abstract
  one, and no two callers wait for the same entry.  A Raft that ends gives its callers an
  error, which the abstract service allows at any time.  `SteadyNeverDoubleGrants` then follows
  from the abstract theorem.
* `CustodianProofs!NodesAreReplicas`: `Spec => ImplementsReplicas`, with all faults.  By
  `StoresFollowLog`, a running node whose whole table stems from the log has the table that
  the log prescribes at its applied index (`ExactStore`).  `StoreStepReplicas` then takes any
  step that touches one node: it goes on (`Apply`), leaves (`Crash`), joins (`Restart` over a
  free table), or shows nothing new.  A Raft that ends shows nothing new either: its readers
  keep the state they have.
* `TicketEditProofs!LostWritesNeedLostLocks`: `Spec => []ConflictOnlyAfterLostLock`.  The
  invariant carries, for every state the lock table ever had, that a lock in it is still
  held or was forfeited in between (`LocksKeptOrForfeited`), and that each call saw its own
  user's lock (`ViewsHeld`).  When a call writes without having forfeited, the lock is its
  user's now, so every other user's call on the ticket has forfeited; that is what
  `MissedExplained` records for the calls that will overwrite it.
* `TicketEditProofs!LifecycleKept`: `Spec => []StatusMovesLegal`, with the invariants that a
  DB state from which no write is missing has the ticket's last state
  (`CurrentIfNothingMissed`) and that a call which missed nothing is about to make a legal
  move from it (`NewFollowsLast`).
* `TicketEditProofs!StoresAreReplicas`: the lock store and the ticket store of `TicketEdit`
  keep the promise of `Replicas`.  It ties the abstraction that ticket editing is checked
  over to the detailed models: what it takes for granted of lagging nodes is what they keep.
* `DbReplicaProofs`: `DbTypeCorrect`, `NodesFollowTheLog`, `DeletedTicketsStay`,
  `HaltsAreExplained`, `QueriesAreComplete` and `CleanNodesAreReplicas`, for any index trees,
  fields and filters.  `DbInv` says of each node what its trees look like in the middle of an
  entry.  `Fresh`: the counter is at or above every id
  that has a row, and a creation under way has the id after it, so that a creation never
  meets an old row; this holds on all nodes, after crashes and replays too, and is what
  `DeletedTicketsStay` needs.  `Settled` and `Following`: on a node that never stopped, rows,
  counter and indexes are the log's between two entries, and during one they are those of
  the entry before with the writes done so far; each stage of `WriteStore` moves from one
  such description to the next.  For queries, `QueryInv` adds what a query asks for in terms
  of the log (`Asks`) and how far it has come (`Progress`): an asked ticket that nobody
  wrote is in the rows and in the index tree that is scanned (`AskedIsFound`), so it is
  found, still to be read, or cut off by the limit.  That only tickets are candidates needs
  that the trees of tickets and users are different ones (`StorageAssumption`).
  `CleanNodesAreReplicas` refines `Replicas`: the rows of a node are those of the state before
  the entry it is applying until the row is put, and of the state after it from then on
  (`Reached`), so of all the writes of an entry that of the row alone is a step of the
  abstract store; readers that look between two writes see nothing uncommitted.
* `ServiceProofs`, on accounts: the four properties of `Accounts`, from `AccountsInv`.  It adds: profiles
  are never removed or renamed from one committed state to a later one (`Growing`), which
  carries a login from the state it read credentials in to the later one it reads the profile
  in; a creation has its uuid for itself, any other call is about a stored profile of the
  call's name (`CallsPlaced`), which is why the order of the two puts matters; and a pending
  change of a user without overlap starts from the stored profile (`EditsCurrent`).
* `RaftClusterProofs`: `TypeCorrect`, `DbVotesDurable`, `LeadersHaveCommitted`
  (`Spec => []LossesExplained`) and `LogsWithoutGaps` (`Spec => []LogsContiguous`), for any
  peers, terms, logs, crashes and purges of either service.  The safety of the log is proved
  of an abstract state (`Abs`): votes, grants, matches, and *full* logs, which are the nodes'
  logs with the purged entries put back; those are decided, so `decided` has them (`Whole`).
  `LogInv` is Raft's invariant of it: a leader was elected (`WritersElected`) and has all it
  ever wrote (`WritersHold`); logs that agree at an index agree below it (`LogsMatch`); an
  entry of a leader is with all who are known to match it and with every later leader and
  supported candidate, or a quorum will never take it (`EntriesSecure`); and the same of
  decided entries (`AnchorsHeld`, `AnchorsChosen`).  Each of those is needed: that a later
  leader has a decided entry rests on the votes of the quorum that the two have in common,
  and what a voter checked is the candidate's last log id.  The lemmas `...KeepsLogInv` show
  that the abstract steps keep `LogInv`, the lemmas `...Effect` what the host's operations do
  to a store, and the lemmas `...Intact` that while `causes` is empty each action of the
  cluster is one of the abstract steps.  `causes` is the exact list of what this argument
  cannot do without; the proof found one that the runs had not (`mistaken`).
  `LossesExplained` has a second half, `CommitsAgree`: no two entries are decided for one
  index, and a running node has the decided entries up to its committed index, so that the
  state machines are fed one sequence.  It follows from the same invariant
  (`CommitsAgreeWhileIntact`) and is what `Custodian` and `DbReplica` assume of openraft.
* `ServiceProofs`, on chaos and honeypot: `OperationsTypeCorrect`, `ScenariosKeepTheirTasks` and
  `AccessesRemainStored`.  `ChaosInv` adds that the k-th task has the k-th id
  (`TasksNumbered`), hence ids and tasks correspond, and that calls about to insert and
  entries of the table have different tasks (`InsertionsPlaced`, `EntriesPlaced`): then an
  insertion replaces nothing and a task removes its own entry.  `LogInv` adds that each
  record lies under the key of the access it is of, one that was put, in time or late, and that
  the key of a stored access is taken (`RecordsFit`).
* `ServiceProofs`, on the gateway: `GatewayTypeCorrect`, `ClientsFollowTheLoop`,
  `AccountsStayReadable`, `TokensRemainValid` and `KeyFileIsKept`, from `GatewayInv`.
  `KeysAgree` says what two services do to one key file as long as neither of them looked
  for it while the other made it: one service at most is making the pair; nobody has a key,
  and no account is sealed, before the file is whole; from then on it is everybody's.
  Whatever stops in between leaves a torn file, and a torn file is never replaced.
  `SecretKept` says the same of `jwt.secret`: once auth runs or a token is signed, the secret
  that the next start would find is that one.  `ClientsPlaced` follows the clients through
  the start, one after the other, and through every reload; `RequestPlaced` says that a
  request has the services of its route, and that the middleware refused only a foreign
  token.

* `ConsoleProofs`: `ConsoleTypeCorrect`, `MisfilingIsExplained`, `SavesAreAsShown`,
  `RefusalsAreExplained`, `UntouchedSavesAreHarmless` and `KeysAreKept`, for any number of
  tickets and requests in flight, any titles, times, keys and changes from outside.  The
  lemmas about the conversions come first: codes and statuses name each other
  (`CodeOfStatus`, `StatusOfCode`), what the page lets through the custodian's lifecycle
  allows (`SameLifecycle`), every stored ticket can be shown (`TicketIsShown`), the form that
  is loaded from a ticket shows it (`LoadedFormShows`), and a save of a form gives a ticket
  that shows it (`SaveShown`).  `ConsoleInv` then says what the page, a request and an answer
  have to do with each other.  `FormPlaced`: the form is about the ticket that is loaded, and
  shows it until the user changes it, or `hasty` or `created` says why not.  `OneAtATime`: a
  user who waits for answers has one request at most, so that an answer which arrives
  unhurried meets the page it was asked from.  `FlightPlaced`: a save under way still has its
  ticket and its form on the page; a creation's answer has an id that no form can be about
  yet.  A request carries what was true when it left (`GoodSave`), an answer what is true of
  the stored ticket (`GoodAnswer`); both stay so because tickets are never removed.

Only model-checked: the liveness properties (the prover has no fairness reasoning) and, of
course, the runs that end in a violation.

## 5. Not modelled, and why

* openraft itself is external: `Custodian` and `DbReplica` assume its contract, and
  `RaftCluster` describes it as far as its hosts matter.  Membership changes are left out:
  the code never asks for one after the start.
* `delete`, `batch_put` and `list` of its plain
  collections, which no service uses.  A scan of one index tree is one step; sled lets
  single writes to the same tree in between, which moves only the tickets being written.
* `install_snapshot` and the RPCs of `raft_service.rs` that lead to it: with
  `get_current_snapshot` as it is, no node ever sends a snapshot.  They would matter with the
  first snapshot that is kept: data and applied index are captured at different times, and the
  tree is not cleared.
* A table's readers at a node whose Raft has ended are those of `Replicas`: they see an old
  state for ever, and nothing in the models says how old it may get.
* The holder that `acquire_lock` reports to a refused caller (advisory).
* Cryptography, password hashing and TOTP; encryption with passwords, which no service uses.
  The models know who can open what.
* Rate limits, CORS, compression, metrics, process configuration: no state whose correctness
  TLA+ could decide, or pure input and output.  In the web frontend, the dashboard, the theme
  and the form that creates users (it sends and forgets).

What reading the code for the models showed, and no run is about:

* The edit lock can be lost between `update_ticket`'s check and its write (`src/README.md:24`
  says that locks prevent edit conflicts); `ConflictOnlyAfterLostLock` says that besides an
  old read there is no other way.
* `Ticket::validate` is called by no service (`src/README.md:47`), so fields set by separate
  requests are never judged together.
* A restarted DB node replays creations and stores tickets again under new ids
  (`db/src/storage.rs:287` calls apply deterministic); a query during an update may miss a
  ticket that matches before and after (`ARCHITECTURE.md:96`), and `QueriesComplete` says
  that one nobody writes meanwhile is never missed.
* `install_snapshot` says "Clear storage" and does not (`custodian/src/raft.rs:569`,
  `db/src/raft.rs:509`); nothing calls it yet.
* A node that has purged part of its log cannot be restarted into the cluster: it reports that
  it applied nothing, and its first entries are gone.  It serves the table it recovered.
* The REST API has no route for locks (`lbrp/src/clients.rs:64`), so a save from the console
  is refused unless the lock was taken elsewhere, where `REQUIREMENTS_STATUS.md:200` expects
  "updated".  After a creation the editor of the next action keeps what it showed
  (`REQUIREMENTS_STATUS.md:99`), which is the exception in `MisfiledOnlyInHaste`.
* Each custodian node makes its own key pair, where
  `.github/dependencies/_concepts/security.md:287` speaks of a system-wide one:
  `TicketsKeepTheirKey` says what follows for the tickets.
* The gateway answers every error of `get_ticket` with 404, and drops the nanoseconds of
  times.  It never reloads if the first read of the registry failed (`lbrp/src/main.rs:105`),
  does not retry a failed redirection (`lbrp/src/discovery.rs:128`), and without a registry
  takes a blank override for an address.
* A key file that was cut short keeps its service from starting until somebody removes it; an
  empty `jwt.secret` is taken for a secret; the promise of `shared/src/key_store.rs:3` that
  keys survive restarts does not hold for services that start together.
* `record_intrusion` answers `recorded: true` also when the record could not be stored.

## 6. Findings

Each has a run whose counterexample shows it.

1. `custodian_double`: a restarted node replays the log over the table it kept.  An
   acquisition that was refused the first time (the ticket was held) can be accepted in the
   replay, because by now the table shows a later state; the node ends with another table
   than its peers, against the comment that apply is deterministic, and two users are told
   that they hold the same ticket.
2. `custodian_rejoin`: without any crash, a leader that has purged ends with a storage error
   because one follower lacks the entries and there is no snapshot; the next leader purges in
   its turn and ends likewise; no majority is left, and the last node never has the whole log.
   `custodian/tests/three_node_cluster.rs:9-10` says that catch-up of a node which was down
   "goes through `InstallSnapshot`", `REQUIREMENTS_STATUS.md:240-241` expects a "snapshot-based
   rejoin", and `ARCHITECTURE.md:2031` that snapshots are "Used for fast node recovery and log
   compaction".  The test passes because its leader alone has purged: a node that still has the
   entries takes over.
3. `raft_lost`: a leader commits an entry on a quorum; a node of a higher id that lacks the
   entry stands for election.  Its last log id, written by the old leader, is
   taken for its own on the wire and so looks newer than the same leader's later entry; it
   is elected, and overwrites what was committed.  This needs neither a crash nor a lost
   flush.  `LossesExplained` lists the other ways.

## 7. Plan

1. When `get_current_snapshot` returns a snapshot: what is sent, `install_snapshot` step by step
   with a crash in the middle, in `Custodian`, `RaftCluster` and `DbReplica`.
2. One composition of `TicketEdit` with `Custodian` and `DbReplica`, in place of the common
   abstraction `Replicas`: readers of nodes that crashed and replay are outside of it.
