------------------------------ MODULE Accounts ------------------------------
(***************************************************************************)
(* User accounts: the admin service writes a profile under the user's uuid *)
(* and credentials under the user name as two plain records of the DB; the *)
(* auth service reads them back, credentials first, when somebody logs in. *)
(* Every put is a write through the DB's Raft log, every get a read of the *)
(* one DB node that the service is connected to.                           *)
(*                                                                         *)
(* The replicated DB is the sequence of its committed states; a DB node is *)
(* in one of them and follows.  Only the admin service writes these        *)
(* records, so its own DB node lags only after a put that was committed    *)
(* although it ended in an error.                                          *)
(*                                                                         *)
(* A profile is reduced to its name, its role (which stands for all the    *)
(* fields that an update sets or leaves alone) and its active flag, the    *)
(* credentials to the user they belong to: no property tells passwords     *)
(* apart, and no service enrols an MFA secret.                             *)
(***************************************************************************)
EXTENDS Integers, Sequences

CONSTANTS
  Uuids,      \* the ids that Uuid::new_v4 may return
  Names,      \* user names
  Roles,      \* roles
  NoChange,   \* an optional field that a request leaves out
  Requests,   \* the changes that callers of update_user ask for
  Calls,      \* the concurrent calls of the admin service
  Logins,     \* the concurrent calls of authenticate
  MaxWrites   \* bound on the number of puts

Profile == [name : Names, role : Roles, active : BOOLEAN]

Change == [role : Roles \cup {NoChange}, active : BOOLEAN \cup {NoChange}]

ASSUME AccountsAssumption ==
  /\ Requests \subseteq Change
  /\ NoChange \notin Roles \cup BOOLEAN
  /\ MaxWrites \in Nat

VARIABLES
  dbs,        \* the committed states of the collections "users" and "auth"
  adminSeen,  \* the state that the admin service's DB node is in
  authSeen,   \* the state that the auth service's DB node is in
  used,       \* the uuids handed out so far
  call,       \* call[c]: the call of create_user, update_user or delete_user
  login,      \* login[a]: the call of authenticate
  tokens,     \* the subjects of the session tokens issued so far
  want,       \* history: the profiles, had each call changed its fields in one step
  overlapped, \* history: the users with calls that overlapped, or that read an old state
  failed      \* history: the users whose creation ended in an error after the first put

dbVars   == <<dbs, adminSeen, authSeen>>
authVars == <<login, tokens>>
ghosts   == <<want, overlapped, failed>>
accountsVars == <<dbVars, used, call, authVars, ghosts>>

Deactivate == [role |-> NoChange, active |-> FALSE]

Idle == [pc |-> "idle"]

Started(kind, pc, u, profile, change) ==
  [kind |-> kind, pc |-> pc, user |-> u, profile |-> profile, change |-> change]

Call ==
  [kind : {"create", "update"}, pc : {"profile", "auth"}, user : Uuids,
   profile : Profile, change : Change]

Records(K, V) == UNION {[D -> V] : D \in SUBSET K}

Db == [users : Records(Uuids, Profile), auths : Records(Names, Uuids)]

AccountsTypeOK ==
  /\ dbs \in Seq(Db) \ {<< >>}
  /\ adminSeen \in 1..Len(dbs)
  /\ authSeen \in 1..Len(dbs)
  /\ used \subseteq Uuids
  /\ call \in [Calls -> Call \cup {Idle}]
  /\ login \in [Logins -> [pc : {"verified"}, user : Uuids] \cup {Idle}]
  /\ tokens \subseteq Uuids

Nothing == [x \in {} |-> NoChange]

AccountsInit ==
  /\ dbs = <<[users |-> Nothing, auths |-> Nothing]>>
  /\ adminSeen = 1
  /\ authSeen = 1
  /\ used = {}
  /\ call = [c \in Calls |-> Idle]
  /\ login = [a \in Logins |-> Idle]
  /\ tokens = {}
  /\ want = Nothing
  /\ overlapped = {}
  /\ failed = {}

-----------------------------------------------------------------------------
(* The DB. *)

Last == dbs[Len(dbs)]

AdminView == dbs[adminSeen]

AuthView == dbs[authSeen]

\* A put of one record into a collection.
With(records, k, v) == [x \in DOMAIN records \cup {k} |-> IF x = k THEN v ELSE records[x]]

\* client_write commits the put: the answer is given once the node has applied it.
Commit(db) ==
  /\ Len(dbs) <= MaxWrites
  /\ dbs' = Append(dbs, db)
  /\ UNCHANGED <<authSeen, used, authVars>>

\* Variant: the node counts one put too many.
AdminFollowPastEnd ==
  /\ adminSeen <= Len(dbs)
  /\ adminSeen' = adminSeen + 1
  /\ UNCHANGED <<dbs, authSeen, used, call, authVars, ghosts>>

\* The DB nodes of the two services apply the next put.
AdminFollow ==
  /\ adminSeen < Len(dbs)
  /\ adminSeen' = adminSeen + 1
  /\ UNCHANGED <<dbs, authSeen, used, call, authVars, ghosts>>

AuthFollow ==
  /\ authSeen < Len(dbs)
  /\ authSeen' = authSeen + 1
  /\ UNCHANGED <<dbs, adminSeen, used, call, authVars, ghosts>>

-----------------------------------------------------------------------------
(* The admin service. *)

\* Variant: the credentials are stored before the profile.
CreateUserAuthFirst(c, u, name, role) ==
  /\ call[c] = Idle
  /\ u \notin used
  /\ used' = used \cup {u}
  /\ call' = [call EXCEPT ![c] =
       Started("create", "auth", u, [name |-> name, role |-> role, active |-> TRUE],
               [role |-> NoChange, active |-> NoChange])]
  /\ UNCHANGED <<dbVars, authVars, ghosts>>

\* create_user up to its first put.  Nobody looks whether the name is taken.
CreateUser(c, u, name, role) ==
  /\ call[c] = Idle
  /\ u \notin used
  /\ used' = used \cup {u}
  /\ call' = [call EXCEPT ![c] =
       Started("create", "profile", u, [name |-> name, role |-> role, active |-> TRUE],
               [role |-> NoChange, active |-> NoChange])]
  /\ UNCHANGED <<dbVars, authVars, ghosts>>

\* The fields that the request provides are applied, the others are kept.
Edited(p, change) ==
  [p EXCEPT !.role = IF change.role = NoChange THEN @ ELSE change.role,
            !.active = IF change.active = NoChange THEN @ ELSE change.active]

\* Variant: the profile is written back as an active one.
ModifyReactivating(c, u, change, password) ==
  /\ call[c] = Idle
  /\ u \in DOMAIN AdminView.users
  /\ call' = [call EXCEPT ![c] =
       Started("update", IF password THEN "auth" ELSE "profile", u,
               Edited([AdminView.users[u] EXCEPT !.active = TRUE], change), change)]
  /\ overlapped' = IF AdminView.users[u] = Last.users[u]
                   THEN overlapped ELSE overlapped \cup {u}
  /\ UNCHANGED <<dbVars, used, authVars, want, failed>>

\* The profile is read; with a new password the credentials are put first.
Modify(c, u, change, password) ==
  /\ call[c] = Idle
  /\ u \in DOMAIN AdminView.users
  /\ call' = [call EXCEPT ![c] =
       Started("update", IF password THEN "auth" ELSE "profile", u,
               Edited(AdminView.users[u], change), change)]
  /\ overlapped' = IF AdminView.users[u] = Last.users[u]
                   THEN overlapped ELSE overlapped \cup {u}
  /\ UNCHANGED <<dbVars, used, authVars, want, failed>>

UpdateUser(c, u, change, password) == Modify(c, u, change, password)

DeleteUser(c, u) == Modify(c, u, Deactivate, FALSE)

\* Variant: the answer to the first put ends every call.
AfterProfileDone(f, ok) == Idle

\* create_user goes on to the credentials, any other call is done.
AfterProfile(f, ok) ==
  IF ok /\ f.kind = "create" THEN [f EXCEPT !.pc = "auth"] ELSE Idle

\* The first put of create_user, the last one of update_user and delete_user.
\* `ok` is the answer: a put may be committed and end in an error all the same.
PutProfile(c, ok) ==
  LET f == call[c]
      u == f.user
  IN /\ f.pc = "profile"
     /\ Commit([Last EXCEPT !.users = With(@, u, f.profile)])
     /\ adminSeen' = IF ok THEN Len(dbs) + 1 ELSE adminSeen
     /\ call' = [call EXCEPT ![c] = AfterProfile(f, ok)]
     /\ want' = With(want, u, IF f.kind = "create" THEN f.profile
                              ELSE Edited(want[u], f.change))
     /\ overlapped' =
          IF \E d \in Calls \ {c} :
               call[d] # Idle /\ call[d].kind = "update" /\ call[d].user = u
          THEN overlapped \cup {u} ELSE overlapped
     /\ failed' = IF f.kind = "create" /\ ~ ok THEN failed \cup {u} ELSE failed

\* Credentials under the name of the profile: the last put of create_user, and
\* update_password, which reads the record before only to keep its MFA fields.
PutAuth(c, ok) ==
  LET f == call[c]
  IN /\ f.pc = "auth"
     /\ Commit([Last EXCEPT !.auths = With(@, f.profile.name, f.user)])
     /\ adminSeen' = IF ok THEN Len(dbs) + 1 ELSE adminSeen
     /\ call' = [call EXCEPT ![c] =
          IF ok /\ f.kind = "update" THEN [f EXCEPT !.pc = "profile"] ELSE Idle]
     /\ UNCHANGED ghosts

\* A get or a put ends in an error and nothing is committed.
CallFails(c) ==
  /\ call[c] # Idle
  /\ call' = [call EXCEPT ![c] = Idle]
  /\ failed' = IF call[c].kind = "create" /\ call[c].pc = "auth"
               THEN failed \cup {call[c].user} ELSE failed
  /\ UNCHANGED <<dbVars, used, authVars, want, overlapped>>

-----------------------------------------------------------------------------
(* The auth service. *)

\* Variant: the credentials are read from the DB's leader.
VerifyAtLeader(a, name) ==
  /\ login[a] = Idle
  /\ name \in DOMAIN Last.auths
  /\ login' = [login EXCEPT ![a] = [pc |-> "verified", user |-> Last.auths[name]]]
  /\ UNCHANGED <<dbVars, used, call, tokens, ghosts>>

\* authenticate reads the credentials and the password is right.
Verify(a, name) ==
  /\ login[a] = Idle
  /\ name \in DOMAIN AuthView.auths
  /\ login' = [login EXCEPT ![a] = [pc |-> "verified", user |-> AuthView.auths[name]]]
  /\ UNCHANGED <<dbVars, used, call, tokens, ghosts>>

\* It reads the profile and issues a token, or reports that the profile is missing.
Issue(a) ==
  /\ login[a] # Idle
  /\ login' = [login EXCEPT ![a] = Idle]
  /\ tokens' = IF login[a].user \in DOMAIN AuthView.users
               THEN tokens \cup {login[a].user} ELSE tokens
  /\ UNCHANGED <<dbVars, used, call, ghosts>>

LoginFails(a) ==
  /\ login[a] # Idle
  /\ login' = [login EXCEPT ![a] = Idle]
  /\ UNCHANGED <<dbVars, used, call, tokens, ghosts>>

\* validate_session reads the profile of the user whom the token names.
ValidateSession(u) == u \in DOMAIN AuthView.users

-----------------------------------------------------------------------------
AdminStep(c) ==
  \/ \E u \in Uuids, name \in Names, role \in Roles : CreateUser(c, u, name, role)
  \/ \E u \in Uuids, change \in Requests, password \in BOOLEAN :
       UpdateUser(c, u, change, password)
  \/ \E u \in Uuids : DeleteUser(c, u)
  \/ \E ok \in BOOLEAN : PutProfile(c, ok) \/ PutAuth(c, ok)
  \/ CallFails(c)

AuthStep(a) == (\E name \in Names : Verify(a, name)) \/ Issue(a) \/ LoginFails(a)

AccountsNext ==
  \/ AdminFollow
  \/ AuthFollow
  \/ \E c \in Calls : AdminStep(c)
  \/ \E a \in Logins : AuthStep(a)

AccountsSpec == AccountsInit /\ [][AccountsNext]_accountsVars

-----------------------------------------------------------------------------
\* On every DB node, at every time: credentials belong to a user whose profile is
\* there and has the name they are stored under, though profile and credentials
\* are put one after the other and calls for one name interleave.
CredentialsMatchProfiles ==
  \A i \in 1..Len(dbs) : \A x \in DOMAIN dbs[i].auths :
    LET u == dbs[i].auths[x]
    IN u \in DOMAIN dbs[i].users /\ dbs[i].users[u].name = x

\* authenticate's "User profile missing for valid auth" and validate_session's
\* "User not found" do not occur: the profile is on the auth service's node when
\* it is read, after the credentials or with a token issued earlier.
LoginsResolve ==
  /\ \A a \in Logins : login[a] # Idle => login[a].user \in DOMAIN AuthView.users
  /\ \A u \in tokens : ValidateSession(u)

\* What update_user and delete_user set stays until a later call sets it anew,
\* although they read the whole profile and write it back, unless two calls on the
\* user overlap or one of them read the DB before an earlier put had arrived there.
EditsLostOnlyByOverlap ==
  \A u \in DOMAIN Last.users : Last.users[u] = want[u] \/ u \in overlapped

\* A profile whose name has no credentials is one that create_user is about to
\* complete, or whose creation was reported as an error.
AccountsComplete ==
  \A u \in DOMAIN Last.users :
    \/ Last.users[u].name \in DOMAIN Last.auths
    \/ u \in failed
    \/ \E c \in Calls : call[c] # Idle /\ call[c].kind = "create" /\ call[c].user = u
=============================================================================
