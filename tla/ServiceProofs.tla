-------------------------- MODULE ServiceProofs ---------------------------
(***************************************************************************)
(* Proofs about the services around the core: Accounts, for any users,     *)
(* names, calls and number of puts; Operations, for any callers, tokens,   *)
(* scenario types and accesses; and Gateway, for any registries,           *)
(* overrides, secrets and bounds.  The three share no variable.            *)
(***************************************************************************)
EXTENDS Accounts, Operations, Gateway, FiniteSetTheorems, TLAPS

(* Accounts.                                                               *)

\* A profile stays once it is stored, and keeps its name.
Growing ==
  \A i \in 1..Len(dbs) : \A j \in i..Len(dbs) : \A u \in DOMAIN dbs[i].users :
    u \in DOMAIN dbs[j].users /\ dbs[j].users[u].name = dbs[i].users[u].name

\* A call that creates a user has the uuid for itself; every other call is about a
\* profile that is stored, and has its name.
Creating(f) == f.kind = "create" /\ f.pc = "profile"

CallsPlaced ==
  \A c \in Calls : call[c] # Idle =>
    /\ call[c].user \in used
    /\ Creating(call[c]) =>
         /\ call[c].user \notin DOMAIN Last.users
         /\ \A d \in Calls \ {c} : call[d] # Idle => call[d].user # call[c].user
    /\ ~ Creating(call[c]) =>
         /\ call[c].user \in DOMAIN Last.users
         /\ Last.users[call[c].user].name = call[c].profile.name

\* Without an overlap a call that is about to write a profile back starts from the
\* profile that is stored.
EditsCurrent ==
  /\ DOMAIN want = DOMAIN Last.users
  /\ EditsLostOnlyByOverlap
  /\ \A c \in Calls : (call[c] # Idle /\ call[c].kind = "update") =>
       \/ call[c].user \in overlapped
       \/ call[c].profile = Edited(Last.users[call[c].user], call[c].change)

UsersUsed == DOMAIN Last.users \subseteq used

AccountsInv ==
  /\ AccountsTypeOK
  /\ Growing
  /\ CredentialsMatchProfiles
  /\ UsersUsed
  /\ CallsPlaced
  /\ EditsCurrent
  /\ LoginsResolve
  /\ AccountsComplete

-----------------------------------------------------------------------------
\* An edited profile is a profile of the same name.
LEMMA EditedProfile ==
  ASSUME NEW p \in Profile, NEW change \in Change
  PROVE  Edited(p, change) \in Profile /\ Edited(p, change).name = p.name
<1>1. CASE change.role = NoChange /\ change.active = NoChange
  BY <1>1 DEF Edited, Profile
<1>2. CASE change.role = NoChange /\ change.active # NoChange
  BY <1>2 DEF Edited, Profile, Change
<1>3. CASE change.role # NoChange /\ change.active = NoChange
  BY <1>3 DEF Edited, Profile, Change
<1>4. CASE change.role # NoChange /\ change.active # NoChange
  BY <1>4 DEF Edited, Profile, Change
<1> QED BY <1>1, <1>2, <1>3, <1>4

\* A put of a value keeps the type of a collection.
LEMMA WithTypes ==
  ASSUME NEW K, NEW V, NEW r \in Records(K, V), NEW k \in K, NEW v \in V
  PROVE  With(r, k, v) \in Records(K, V)
<1>1. PICK D \in SUBSET K : r \in [D -> V]
  BY DEF Records
<1>2. With(r, k, v) \in [D \cup {k} -> V]
  BY <1>1 DEF With
<1> QED BY <1>1, <1>2 DEF Records

\* The last state is a record of the two collections.
LEMMA LastRecord ==
  ASSUME AccountsInv
  PROVE  Last \in Db /\ Last = [users |-> Last.users, auths |-> Last.auths]
<1>1. Last \in Db
  <2>1. dbs \in Seq(Db) /\ dbs # << >>
    BY DEF AccountsInv, AccountsTypeOK
  <2>2. Len(dbs) \in 1..Len(dbs)
    BY <2>1
  <2> QED BY <2>1, <2>2 DEF Last
<1> QED BY <1>1 DEF Db

\* The empty DB satisfies the invariant.
LEMMA InitInv == AccountsInit => AccountsInv
<1> SUFFICES ASSUME AccountsInit PROVE AccountsInv
  OBVIOUS
<1>1. /\ DOMAIN Nothing = {}
      /\ Len(dbs) = 1 /\ dbs # << >>
      /\ dbs[1] = [users |-> Nothing, auths |-> Nothing]
  BY DEF AccountsInit, Nothing
<1>2. DOMAIN dbs[1].users = {} /\ DOMAIN dbs[1].auths = {}
  BY <1>1
<1>3. AccountsTypeOK
  <2>1. Nothing \in [{} -> Profile] /\ Nothing \in [{} -> Uuids]
    BY DEF Nothing
  <2>2. Nothing \in Records(Uuids, Profile) /\ Nothing \in Records(Names, Uuids)
    BY <2>1 DEF Records
  <2>3. dbs \in Seq(Db)
    BY <2>2 DEF AccountsInit, Db
  <2> QED BY <1>1, <2>3 DEF AccountsInit, AccountsTypeOK
<1>4. Growing /\ CredentialsMatchProfiles /\ UsersUsed /\ AccountsComplete
  BY <1>1, <1>2 DEF Growing, CredentialsMatchProfiles, UsersUsed, AccountsComplete, Last
<1>5. CallsPlaced /\ EditsCurrent /\ LoginsResolve
  BY <1>1, <1>2 DEF AccountsInit, CallsPlaced, EditsCurrent, EditsLostOnlyByOverlap,
     LoginsResolve, ValidateSession,
                    Last, AuthView
<1> QED BY <1>3, <1>4, <1>5 DEF AccountsInv

\* A put appends a state in which profiles are kept and credentials match: so they
\* do in all states.
LEMMA PutKeepsHistory ==
  ASSUME AccountsTypeOK, Growing, CredentialsMatchProfiles,
         NEW n \in Db, dbs' = Append(dbs, n),
         \A u \in DOMAIN Last.users :
           u \in DOMAIN n.users /\ n.users[u].name = Last.users[u].name,
         \A x \in DOMAIN n.auths :
           n.auths[x] \in DOMAIN n.users /\ n.users[n.auths[x]].name = x
  PROVE  /\ Len(dbs') = Len(dbs) + 1 /\ Len(dbs) \in Nat \ {0}
         /\ dbs' \in Seq(Db) \ {<< >>}
         /\ \A i \in 1..Len(dbs) : dbs'[i] = dbs[i]
         /\ Last' = n
         /\ Growing'
         /\ CredentialsMatchProfiles'
<1> DEFINE L == Len(dbs)
<1>1. L \in Nat /\ L >= 1 /\ dbs \in Seq(Db)
  BY DEF AccountsTypeOK
<1>2. /\ Len(dbs') = L + 1 /\ dbs' \in Seq(Db) \ {<< >>}
      /\ \A i \in 1..L : dbs'[i] = dbs[i]
      /\ dbs'[L + 1] = n
  BY <1>1
<1>3. Last' = n
  BY <1>2 DEF Last
<1>5. Growing'
  <2> SUFFICES ASSUME NEW i \in 1..(L + 1), NEW j \in i..(L + 1), NEW u \in DOMAIN dbs'[i].users
               PROVE  u \in DOMAIN dbs'[j].users /\ dbs'[j].users[u].name = dbs'[i].users[u].name
    BY <1>2 DEF Growing
  <2>1. CASE j <= L
    BY <1>1, <1>2, <2>1 DEF Growing
  <2>2. CASE i = L + 1
    BY <1>1, <1>2, <2>2
  <2>3. CASE i <= L /\ j = L + 1
    <3>1. u \in DOMAIN dbs[L].users /\ dbs[L].users[u].name = dbs[i].users[u].name
      BY <1>1, <1>2, <2>3 DEF Growing
    <3> QED BY <1>1, <1>2, <2>3, <3>1 DEF Last
  <2> QED BY <1>1, <2>1, <2>2, <2>3
<1>6. CredentialsMatchProfiles'
  BY <1>1, <1>2 DEF CredentialsMatchProfiles
<1> QED BY <1>1, <1>2, <1>3, <1>5, <1>6

-----------------------------------------------------------------------------
\* Steps that commit nothing leave what is said of the DB alone.
LEMMA QuietStep ==
  ASSUME AccountsInv, dbs' = dbs
  PROVE  /\ Last' = Last /\ Len(dbs') = Len(dbs)
         /\ Growing' /\ CredentialsMatchProfiles'
         /\ Len(dbs) \in Nat \ {0} /\ dbs \in Seq(Db)
BY DEF AccountsInv, AccountsTypeOK, Growing, CredentialsMatchProfiles, Last

\* A node that follows sees profiles that earlier states have, too.
LEMMA FollowKeeps ==
  ASSUME AccountsInv, AdminFollow \/ AuthFollow
  PROVE  AccountsInv'
<1>1. dbs' = dbs
  BY DEF AdminFollow, AuthFollow
<1>2. AccountsTypeOK'
  <2>1. Len(dbs) \in Nat /\ adminSeen \in 1..Len(dbs) /\ authSeen \in 1..Len(dbs)
    BY DEF AccountsInv, AccountsTypeOK
  <2>2. adminSeen' \in 1..Len(dbs) /\ authSeen' \in 1..Len(dbs)
    BY <2>1 DEF AdminFollow, AuthFollow
  <2> QED BY <1>1, <2>2 DEF AccountsInv, AccountsTypeOK, AdminFollow, AuthFollow, authVars
<1>3. UsersUsed' /\ CallsPlaced' /\ EditsCurrent' /\ AccountsComplete'
  BY <1>1, QuietStep DEF AccountsInv, UsersUsed, CallsPlaced, EditsCurrent,
     EditsLostOnlyByOverlap, AccountsComplete, AdminFollow, AuthFollow, authVars, ghosts, Last
<1>4. LoginsResolve'
  <2>1. authSeen \in 1..Len(dbs) /\ authSeen' \in authSeen..Len(dbs) /\ Len(dbs) \in Nat
    BY DEF AccountsInv, AccountsTypeOK, AdminFollow, AuthFollow
  <2>2. \A u \in DOMAIN dbs[authSeen].users : u \in DOMAIN dbs'[authSeen'].users
    BY <1>1, <2>1 DEF AccountsInv, Growing
  <2>3. login' = login /\ tokens' = tokens
    BY DEF AdminFollow, AuthFollow, authVars
  <2> QED BY <2>2, <2>3 DEF AccountsInv, LoginsResolve, ValidateSession, AuthView
<1> QED BY <1>1, <1>2, <1>3, <1>4, QuietStep DEF AccountsInv

\* The auth service only adds logins whose credentials, and tokens whose profile,
\* it has just read.
LEMMA AuthKeeps ==
  ASSUME AccountsInv, NEW a \in Logins, AuthStep(a)
  PROVE  AccountsInv'
<1>1. /\ dbs' = dbs /\ adminSeen' = adminSeen /\ authSeen' = authSeen /\ used' = used
      /\ call' = call /\ want' = want /\ overlapped' = overlapped /\ failed' = failed
  BY DEF AuthStep, Verify, Issue, LoginFails, dbVars, ghosts
<1>2. authSeen \in 1..Len(dbs) /\ AuthView' = AuthView /\ AuthView \in Db
  BY <1>1 DEF AccountsInv, AccountsTypeOK, AuthView
<1>3. \A x \in DOMAIN AuthView.auths :
        AuthView.auths[x] \in DOMAIN AuthView.users /\ AuthView.auths[x] \in Uuids
  <2>1. \A x \in DOMAIN AuthView.auths : AuthView.auths[x] \in DOMAIN AuthView.users
    BY <1>2 DEF AccountsInv, CredentialsMatchProfiles, AuthView
  <2>2. DOMAIN AuthView.users \subseteq Uuids
    BY <1>2 DEF Db, Records
  <2> QED BY <2>1, <2>2
<1>4. /\ login' \in [Logins -> [pc : {"verified"}, user : Uuids] \cup {Idle}]
      /\ tokens' \subseteq Uuids
      /\ LoginsResolve'
  <2> DEFINE L == [pc : {"verified"}, user : Uuids] \cup {Idle}
  <2>1. /\ login \in [Logins -> L] /\ tokens \subseteq Uuids
        /\ \A b \in Logins : login[b] # Idle =>
              login[b].user \in DOMAIN AuthView.users /\ login[b].user \in Uuids
        /\ tokens \subseteq DOMAIN AuthView.users
    BY DEF AccountsInv, AccountsTypeOK, LoginsResolve, ValidateSession
  <2>2. CASE \E name \in Names : Verify(a, name)
    <3> PICK name \in Names : Verify(a, name)
      BY <2>2
    <3> DEFINE new == [pc |-> "verified", user |-> AuthView.auths[name]]
    <3>1. /\ login' = [login EXCEPT ![a] = new] /\ tokens' = tokens
          /\ new.user \in DOMAIN AuthView.users /\ new \in L
      BY <1>3 DEF Verify
    <3> QED BY <1>2, <2>1, <3>1 DEF LoginsResolve, ValidateSession
  <2>3. CASE Issue(a)
    BY <1>2, <2>1, <2>3 DEF LoginsResolve, ValidateSession, Issue
  <2>4. CASE LoginFails(a)
    BY <1>2, <2>1, <2>4 DEF LoginsResolve, ValidateSession, LoginFails
  <2> QED BY <2>2, <2>3, <2>4 DEF AuthStep
<1>5. AccountsTypeOK'
  BY <1>1, <1>4 DEF AccountsInv, AccountsTypeOK
<1>6. UsersUsed' /\ CallsPlaced' /\ EditsCurrent' /\ AccountsComplete'
  BY <1>1, QuietStep DEF AccountsInv, UsersUsed, CallsPlaced, EditsCurrent,
     EditsLostOnlyByOverlap, AccountsComplete, Last
<1> QED BY <1>1, <1>4, <1>5, <1>6, QuietStep DEF AccountsInv

\* A creation starts with a uuid that no profile and no call has.
LEMMA CreateKeeps ==
  ASSUME AccountsInv, NEW c \in Calls, NEW u \in Uuids, NEW name \in Names,
         NEW role \in Roles, CreateUser(c, u, name, role)
  PROVE  AccountsInv'
<1> DEFINE profile == [name |-> name, role |-> role, active |-> TRUE]
           none == [role |-> NoChange, active |-> NoChange]
           f == Started("create", "profile", u, profile, none)
<1>1. /\ dbs' = dbs /\ adminSeen' = adminSeen /\ authSeen' = authSeen
      /\ login' = login /\ tokens' = tokens
      /\ want' = want /\ overlapped' = overlapped /\ failed' = failed
      /\ used' = used \cup {u} /\ u \notin used
      /\ call' = [call EXCEPT ![c] = f] /\ call[c] = Idle
  BY DEF CreateUser, dbVars, authVars, ghosts
<1>2. /\ f \in Call /\ f.user = u /\ f.kind = "create" /\ Creating(f)
  BY DEF Started, Call, Profile, Change, Creating
<1> HIDE DEF f
<1>3. AccountsTypeOK'
  BY <1>1, <1>2 DEF AccountsInv, AccountsTypeOK
<1>4. /\ call \in [Calls -> Call \cup {Idle}]
      /\ call'[c] = f /\ \A d \in Calls \ {c} : call'[d] = call[d]
  BY <1>1 DEF AccountsInv, AccountsTypeOK
<1>5. UsersUsed'
  BY <1>1, QuietStep DEF AccountsInv, UsersUsed
<1>6. CallsPlaced'
  BY <1>1, <1>2, <1>4, QuietStep DEF AccountsInv, UsersUsed, CallsPlaced
<1>7. EditsCurrent'
  BY <1>1, <1>2, <1>4, QuietStep DEF AccountsInv, EditsCurrent, EditsLostOnlyByOverlap
<1>8. AccountsComplete'
  BY <1>1, <1>2, <1>4, QuietStep DEF AccountsInv, AccountsComplete
<1>9. LoginsResolve'
  BY <1>1 DEF AccountsInv, LoginsResolve, ValidateSession, AuthView
<1> QED BY <1>1, <1>3, <1>5, <1>6, <1>7, <1>8, <1>9, QuietStep DEF AccountsInv

\* A change starts from a profile that the admin service's node has, hence from one
\* that is still stored, under the same name.
LEMMA ModifyKeeps ==
  ASSUME AccountsInv, NEW c \in Calls, NEW u \in Uuids, NEW change \in Change,
         NEW password \in BOOLEAN, Modify(c, u, change, password)
  PROVE  AccountsInv'
<1> DEFINE old == AdminView.users[u]
           pc == IF password THEN "auth" ELSE "profile"
           f == Started("update", pc, u, Edited(old, change), change)
<1>1. /\ dbs' = dbs /\ adminSeen' = adminSeen /\ authSeen' = authSeen
      /\ login' = login /\ tokens' = tokens /\ used' = used
      /\ want' = want /\ failed' = failed
      /\ call' = [call EXCEPT ![c] = f] /\ call[c] = Idle
      /\ u \in DOMAIN AdminView.users
      /\ overlapped' = IF old = Last.users[u] THEN overlapped ELSE overlapped \cup {u}
  BY DEF Modify, dbVars, authVars
<1>2. /\ adminSeen \in 1..Len(dbs) /\ Len(dbs) \in Nat /\ AdminView \in Db
  BY DEF AccountsInv, AccountsTypeOK, AdminView
<1>3. old \in Profile
  BY <1>1, <1>2 DEF Db, Records
<1>4. u \in DOMAIN Last.users /\ Last.users[u].name = old.name
  BY <1>1, <1>2 DEF AccountsInv, Growing, Last, AdminView
<1>5. /\ f \in Call /\ f.user = u /\ f.kind = "update" /\ ~ Creating(f)
      /\ f.profile = Edited(old, change) /\ f.change = change
      /\ f.profile.name = old.name
  BY <1>3, EditedProfile DEF Started, Call, Creating
<1> HIDE DEF f, old
<1>6. AccountsTypeOK'
  BY <1>1, <1>5 DEF AccountsInv, AccountsTypeOK
<1>7. /\ call \in [Calls -> Call \cup {Idle}]
      /\ call'[c] = f /\ \A d \in Calls \ {c} : call'[d] = call[d]
  BY <1>1 DEF AccountsInv, AccountsTypeOK
<1>8. UsersUsed'
  BY <1>1, QuietStep DEF AccountsInv, UsersUsed
<1>9. CallsPlaced'
  BY <1>1, <1>4, <1>5, <1>7, QuietStep DEF AccountsInv, UsersUsed, CallsPlaced
<1>10. EditsCurrent'
  BY <1>1, <1>5, <1>7, QuietStep DEF AccountsInv, EditsCurrent, EditsLostOnlyByOverlap
<1>11. AccountsComplete'
  BY <1>1, <1>7, QuietStep DEF AccountsInv, AccountsComplete
<1>12. LoginsResolve'
  BY <1>1 DEF AccountsInv, LoginsResolve, ValidateSession, AuthView
<1> QED BY <1>1, <1>6, <1>8, <1>9, <1>10, <1>11, <1>12, QuietStep DEF AccountsInv

\* A creation that fails before its first put leaves no profile; after it the user is
\* recorded as failed.
LEMMA FailKeeps ==
  ASSUME AccountsInv, NEW c \in Calls, CallFails(c)
  PROVE  AccountsInv'
<1>1. /\ dbs' = dbs /\ adminSeen' = adminSeen /\ authSeen' = authSeen
      /\ login' = login /\ tokens' = tokens /\ used' = used
      /\ want' = want /\ overlapped' = overlapped
      /\ call[c] # Idle /\ call' = [call EXCEPT ![c] = Idle]
      /\ failed' = IF call[c].kind = "create" /\ call[c].pc = "auth"
                   THEN failed \cup {call[c].user} ELSE failed
  BY DEF CallFails, dbVars, authVars
<1>2. /\ call \in [Calls -> Call \cup {Idle}]
      /\ call'[c] = Idle /\ \A d \in Calls \ {c} : call'[d] = call[d]
  BY <1>1 DEF AccountsInv, AccountsTypeOK
<1>3. AccountsTypeOK'
  BY <1>1, <1>2 DEF AccountsInv, AccountsTypeOK
<1>4. UsersUsed' /\ CallsPlaced' /\ EditsCurrent'
  BY <1>1, <1>2, QuietStep DEF AccountsInv, UsersUsed, CallsPlaced, EditsCurrent,
     EditsLostOnlyByOverlap
<1>5. AccountsComplete'
  <2> SUFFICES ASSUME NEW u \in DOMAIN Last.users,
                      ~ (Last.users[u].name \in DOMAIN Last.auths), u \notin failed'
               PROVE  \E d \in Calls : /\ call'[d] # Idle /\ call'[d].kind = "create"
                                       /\ call'[d].user = u
    BY <1>1, QuietStep DEF AccountsComplete
  <2>1. u \notin failed
    BY <1>1
  <2>2. PICK d \in Calls : call[d] # Idle /\ call[d].kind = "create" /\ call[d].user = u
    BY <2>1 DEF AccountsInv, AccountsComplete
  <2>3. d # c
    <3> SUFFICES ASSUME d = c PROVE FALSE
      OBVIOUS
    <3>1. call[c].pc = "profile"
      BY <1>1, <1>2, <2>2 DEF Call
    <3> QED BY <1>1, <2>2, <3>1 DEF AccountsInv, CallsPlaced, Creating
  <2> QED BY <1>2, <2>2, <2>3
<1>6. LoginsResolve'
  BY <1>1 DEF AccountsInv, LoginsResolve, ValidateSession, AuthView
<1> QED BY <1>1, <1>3, <1>4, <1>5, <1>6, QuietStep DEF AccountsInv

\* What does not depend on the last state alone is kept by any put that keeps the
\* history.
LEMMA PutKeepsViews ==
  ASSUME AccountsInv, Len(dbs') = Len(dbs) + 1, \A i \in 1..Len(dbs) : dbs'[i] = dbs[i],
         authSeen' = authSeen, login' = login, tokens' = tokens
  PROVE  LoginsResolve' /\ authSeen' \in 1..Len(dbs')
<1>1. Len(dbs) \in Nat /\ authSeen \in 1..Len(dbs)
  BY DEF AccountsInv, AccountsTypeOK
<1>2. AuthView' = AuthView
  BY <1>1 DEF AuthView
<1> QED BY <1>1, <1>2 DEF AccountsInv, LoginsResolve, ValidateSession

\* A profile is put: by a creation, which nobody else knows of, or over the stored one
\* of the same name.
LEMMA PutProfileKeeps ==
  ASSUME AccountsInv, NEW c \in Calls, NEW ok \in BOOLEAN, PutProfile(c, ok)
  PROVE  AccountsInv'
<1> DEFINE f == call[c]
           u == f.user
           n == [users |-> With(Last.users, u, f.profile), auths |-> Last.auths]
           others == \E d \in Calls \ {c} :
                       call[d] # Idle /\ call[d].kind = "update" /\ call[d].user = u
           after == AfterProfile(f, ok)
<1>1. /\ f # Idle /\ f \in Call /\ f.pc = "profile"
      /\ call \in [Calls -> Call \cup {Idle}]
  BY DEF AccountsInv, AccountsTypeOK, PutProfile, Idle
<1>2. /\ Last \in Db /\ Last = [users |-> Last.users, auths |-> Last.auths]
  BY LastRecord
<1>3. n \in Db
  BY <1>1, <1>2, WithTypes DEF Db, Call
<1>4. /\ dbs' = Append(dbs, n)
      /\ authSeen' = authSeen /\ used' = used /\ login' = login /\ tokens' = tokens
      /\ adminSeen' = IF ok THEN Len(dbs) + 1 ELSE adminSeen
      /\ call' = [call EXCEPT ![c] = after]
      /\ want' = With(want, u, IF f.kind = "create" THEN f.profile
                               ELSE Edited(want[u], f.change))
      /\ overlapped' = IF others THEN overlapped \cup {u} ELSE overlapped
      /\ failed' = IF f.kind = "create" /\ ~ ok THEN failed \cup {u} ELSE failed
  BY <1>2 DEF PutProfile, Commit, authVars
<1>5. /\ DOMAIN n.users = DOMAIN Last.users \cup {u} /\ n.users[u] = f.profile
      /\ \A x \in DOMAIN Last.users : x # u => n.users[x] = Last.users[x]
      /\ n.auths = Last.auths
  BY DEF With
<1>6. /\ f.kind = "create" => u \notin DOMAIN Last.users
      /\ f.kind = "update" => u \in DOMAIN Last.users
      /\ u \in DOMAIN Last.users => Last.users[u].name = f.profile.name
      /\ u \in used
      /\ f.kind \in {"create", "update"}
  BY <1>1 DEF AccountsInv, CallsPlaced, Creating, Call
<1>7. \A x \in DOMAIN Last.users :
        x \in DOMAIN n.users /\ n.users[x].name = Last.users[x].name
  BY <1>5, <1>6
<1>8. \A x \in DOMAIN n.auths :
        n.auths[x] \in DOMAIN n.users /\ n.users[n.auths[x]].name = x
  BY <1>5, <1>7 DEF AccountsInv, CredentialsMatchProfiles, AccountsTypeOK, Last
<1> HIDE DEF n
<1>9. /\ Len(dbs') = Len(dbs) + 1 /\ Len(dbs) \in Nat \ {0}
      /\ dbs' \in Seq(Db) \ {<< >>}
      /\ \A i \in 1..Len(dbs) : dbs'[i] = dbs[i]
      /\ Last' = n /\ Growing' /\ CredentialsMatchProfiles'
  BY <1>3, <1>4, <1>7, <1>8, PutKeepsHistory DEF AccountsInv
<1>10. /\ after = Idle \/ (after \in Call /\ after # Idle /\ ok /\ f.kind = "create"
                           /\ after.kind = "create" /\ after.pc = "auth"
                           /\ after.user = u /\ after.profile = f.profile)
       /\ (ok /\ f.kind = "create") => after # Idle
  BY <1>1 DEF AfterProfile, Call, Idle
<1>11. call'[c] = after /\ \A d \in Calls \ {c} : call'[d] = call[d]
  BY <1>1, <1>4
<1> HIDE DEF after
<1>12. AccountsTypeOK'
  <2>1. adminSeen' \in 1..Len(dbs')
    BY <1>4, <1>9 DEF AccountsInv, AccountsTypeOK
  <2>2. call' \in [Calls -> Call \cup {Idle}]
    BY <1>1, <1>4, <1>10
  <2> QED BY <1>4, <1>9, <2>1, <2>2, PutKeepsViews DEF AccountsInv, AccountsTypeOK
<1>13. UsersUsed'
  BY <1>4, <1>5, <1>6, <1>9 DEF AccountsInv, UsersUsed
<1>14. CallsPlaced'
  <2> SUFFICES ASSUME NEW d \in Calls, call'[d] # Idle
               PROVE  /\ call'[d].user \in used
                      /\ Creating(call'[d]) =>
                           /\ call'[d].user \notin DOMAIN n.users
                           /\ \A e \in Calls \ {d} :
                                call'[e] # Idle => call'[e].user # call'[d].user
                      /\ ~ Creating(call'[d]) =>
                           /\ call'[d].user \in DOMAIN n.users
                           /\ n.users[call'[d].user].name = call'[d].profile.name
    BY <1>4, <1>9 DEF CallsPlaced
  <2>1. CASE d = c
    BY <1>5, <1>6, <1>10, <1>11, <2>1 DEF Creating
  <2>2. CASE d # c /\ Creating(call[d])
    <3>1. call[d].user \notin DOMAIN Last.users /\ call[d].user # u
      BY <1>1, <1>11, <2>2 DEF AccountsInv, CallsPlaced
    <3> QED BY <1>5, <1>10, <1>11, <2>2, <3>1 DEF AccountsInv, CallsPlaced
  <2>3. CASE d # c /\ ~ Creating(call[d])
    BY <1>5, <1>7, <1>11, <2>3 DEF AccountsInv, CallsPlaced
  <2> QED BY <2>1, <2>2, <2>3
<1>15. EditsCurrent'
  <2>1. /\ DOMAIN want' = DOMAIN want \cup {u}
        /\ want'[u] = IF f.kind = "create" THEN f.profile ELSE Edited(want[u], f.change)
        /\ \A x \in DOMAIN want : x # u => want'[x] = want[x]
        /\ DOMAIN want = DOMAIN Last.users
    BY <1>4 DEF AccountsInv, EditsCurrent, With
  <2>2. \A x \in DOMAIN n.users : n.users[x] = want'[x] \/ x \in overlapped'
    <3> SUFFICES ASSUME NEW x \in DOMAIN n.users, x \notin overlapped'
                 PROVE  n.users[x] = want'[x]
      OBVIOUS
    <3>1. x \notin overlapped
      BY <1>4
    <3>2. CASE x # u
      BY <1>5, <2>1, <3>1, <3>2 DEF AccountsInv, EditsCurrent, EditsLostOnlyByOverlap
    <3>3. CASE x = u /\ f.kind = "create"
      BY <1>5, <2>1, <3>3
    <3>4. CASE x = u /\ f.kind = "update"
      <4>1. f.profile = Edited(Last.users[u], f.change)
        BY <1>1, <3>1, <3>4 DEF AccountsInv, EditsCurrent
      <4>2. Last.users[u] = want[u]
        BY <1>6, <3>1, <3>4 DEF AccountsInv, EditsCurrent, EditsLostOnlyByOverlap
      <4> QED BY <1>5, <2>1, <3>4, <4>1, <4>2
    <3> QED BY <1>6, <3>2, <3>3, <3>4
  <2>3. ASSUME NEW d \in Calls, call'[d] # Idle, call'[d].kind = "update"
        PROVE  \/ call'[d].user \in overlapped'
               \/ call'[d].profile = Edited(n.users[call'[d].user], call'[d].change)
    <3>1. d # c /\ call'[d] = call[d]
      BY <1>10, <1>11, <2>3
    <3>2. CASE call[d].user = u
      BY <1>4, <2>3, <3>1, <3>2
    <3>3. CASE call[d].user # u
      <4>1. call[d].user \in DOMAIN Last.users
        BY <2>3, <3>1 DEF AccountsInv, CallsPlaced, Creating
      <4> QED BY <1>4, <1>5, <2>3, <3>1, <3>3, <4>1 DEF AccountsInv, EditsCurrent
    <3> QED BY <3>2, <3>3
  <2> QED BY <1>5, <1>9, <2>1, <2>2, <2>3 DEF EditsCurrent, EditsLostOnlyByOverlap
<1>16. AccountsComplete'
  <2> SUFFICES ASSUME NEW x \in DOMAIN n.users, n.users[x].name \notin DOMAIN n.auths,
                      x \notin failed'
               PROVE  \E d \in Calls : /\ call'[d] # Idle /\ call'[d].kind = "create"
                                       /\ call'[d].user = x
    BY <1>9 DEF AccountsComplete
  <2>1. CASE x \notin DOMAIN Last.users
    <3>1. x = u /\ f.kind = "create" /\ ok
      BY <1>4, <1>5, <1>6, <2>1
    <3> QED BY <1>10, <1>11, <3>1
  <2>2. CASE x \in DOMAIN Last.users
    <3>1. Last.users[x].name \notin DOMAIN Last.auths /\ x \notin failed
      BY <1>4, <1>5, <1>7, <2>2
    <3>2. PICK d \in Calls : call[d] # Idle /\ call[d].kind = "create" /\ call[d].user = x
      BY <2>2, <3>1 DEF AccountsInv, AccountsComplete
    <3>3. d # c
      BY <1>6, <2>2, <3>2
    <3> QED BY <1>11, <3>2, <3>3
  <2> QED BY <2>1, <2>2
<1>17. LoginsResolve'
  BY <1>4, <1>9, PutKeepsViews
<1> QED BY <1>9, <1>12, <1>13, <1>14, <1>15, <1>16, <1>17 DEF AccountsInv

\* Credentials are put for a user whose profile is stored under their name.
LEMMA PutAuthKeeps ==
  ASSUME AccountsInv, NEW c \in Calls, NEW ok \in BOOLEAN, PutAuth(c, ok)
  PROVE  AccountsInv'
<1> DEFINE f == call[c]
           u == f.user
           name == f.profile.name
           n == [users |-> Last.users, auths |-> With(Last.auths, name, u)]
           after == IF ok /\ f.kind = "update" THEN [f EXCEPT !.pc = "profile"] ELSE Idle
<1>1. /\ f # Idle /\ f \in Call /\ f.pc = "auth"
      /\ call \in [Calls -> Call \cup {Idle}]
      /\ u \in Uuids /\ name \in Names
  BY DEF AccountsInv, AccountsTypeOK, PutAuth, Idle, Call, Profile
<1>2. /\ Last \in Db /\ Last = [users |-> Last.users, auths |-> Last.auths]
  BY LastRecord
<1>3. n \in Db
  BY <1>1, <1>2, WithTypes DEF Db
<1>4. /\ dbs' = Append(dbs, n)
      /\ authSeen' = authSeen /\ used' = used /\ login' = login /\ tokens' = tokens
      /\ adminSeen' = IF ok THEN Len(dbs) + 1 ELSE adminSeen
      /\ call' = [call EXCEPT ![c] = after]
      /\ want' = want /\ overlapped' = overlapped /\ failed' = failed
  BY <1>2 DEF PutAuth, Commit, authVars, ghosts
<1>5. /\ n.users = Last.users
      /\ DOMAIN n.auths = DOMAIN Last.auths \cup {name} /\ n.auths[name] = u
      /\ \A x \in DOMAIN Last.auths : x # name => n.auths[x] = Last.auths[x]
  BY DEF With
<1>6. u \in DOMAIN Last.users /\ Last.users[u].name = name /\ ~ Creating(f)
  BY <1>1 DEF AccountsInv, CallsPlaced, Creating
<1>7. \A x \in DOMAIN n.auths :
        n.auths[x] \in DOMAIN n.users /\ n.users[n.auths[x]].name = x
  BY <1>5, <1>6 DEF AccountsInv, CredentialsMatchProfiles, AccountsTypeOK, Last
<1> HIDE DEF n
<1>8. /\ Len(dbs') = Len(dbs) + 1 /\ Len(dbs) \in Nat \ {0}
      /\ dbs' \in Seq(Db) \ {<< >>}
      /\ \A i \in 1..Len(dbs) : dbs'[i] = dbs[i]
      /\ Last' = n /\ Growing' /\ CredentialsMatchProfiles'
  BY <1>3, <1>4, <1>5, <1>7, PutKeepsHistory DEF AccountsInv
<1>9. \/ after = Idle
      \/ /\ after \in Call /\ after # Idle /\ f.kind = "update"
         /\ after.kind = "update" /\ ~ Creating(after) /\ after.user = u
         /\ after.profile = f.profile /\ after.change = f.change
  BY <1>1 DEF Call, Idle, Creating
<1>10. call'[c] = after /\ \A d \in Calls \ {c} : call'[d] = call[d]
  BY <1>1, <1>4
<1> HIDE DEF after
<1>11. AccountsTypeOK'
  <2>1. adminSeen' \in 1..Len(dbs')
    BY <1>4, <1>8 DEF AccountsInv, AccountsTypeOK
  <2>2. call' \in [Calls -> Call \cup {Idle}]
    BY <1>1, <1>4, <1>9
  <2> QED BY <1>4, <1>8, <2>1, <2>2, PutKeepsViews DEF AccountsInv, AccountsTypeOK
<1>12. UsersUsed'
  BY <1>4, <1>5, <1>8 DEF AccountsInv, UsersUsed
<1>13. CallsPlaced'
  <2> SUFFICES ASSUME NEW d \in Calls, call'[d] # Idle
               PROVE  /\ call'[d].user \in used
                      /\ Creating(call'[d]) =>
                           /\ call'[d].user \notin DOMAIN Last.users
                           /\ \A e \in Calls \ {d} :
                                call'[e] # Idle => call'[e].user # call'[d].user
                      /\ ~ Creating(call'[d]) =>
                           /\ call'[d].user \in DOMAIN Last.users
                           /\ Last.users[call'[d].user].name = call'[d].profile.name
    BY <1>4, <1>5, <1>8 DEF CallsPlaced
  <2>1. CASE d = c
    BY <1>1, <1>6, <1>9, <1>10, <2>1 DEF AccountsInv, CallsPlaced
  <2>2. CASE d # c
    BY <1>1, <1>9, <1>10, <2>2 DEF AccountsInv, CallsPlaced
  <2> QED BY <2>1, <2>2
<1>14. EditsCurrent'
  <2>1. ASSUME NEW d \in Calls, call'[d] # Idle, call'[d].kind = "update"
        PROVE  \/ call'[d].user \in overlapped
               \/ call'[d].profile = Edited(Last.users[call'[d].user], call'[d].change)
    BY <1>1, <1>9, <1>10, <2>1 DEF AccountsInv, EditsCurrent
  <2> QED BY <1>4, <1>5, <1>8, <2>1 DEF AccountsInv, EditsCurrent, EditsLostOnlyByOverlap
<1>15. AccountsComplete'
  <2> SUFFICES ASSUME NEW x \in DOMAIN Last.users, Last.users[x].name \notin DOMAIN n.auths,
                      x \notin failed
               PROVE  \E d \in Calls : /\ call'[d] # Idle /\ call'[d].kind = "create"
                                       /\ call'[d].user = x
    BY <1>4, <1>5, <1>8 DEF AccountsComplete
  <2>1. PICK d \in Calls : call[d] # Idle /\ call[d].kind = "create" /\ call[d].user = x
    BY <1>5 DEF AccountsInv, AccountsComplete
  <2>2. d # c
    BY <1>5, <1>6, <2>1
  <2> QED BY <1>10, <2>1, <2>2
<1>16. LoginsResolve'
  BY <1>4, <1>8, PutKeepsViews
<1> QED BY <1>8, <1>11, <1>12, <1>13, <1>14, <1>15, <1>16 DEF AccountsInv

-----------------------------------------------------------------------------
\* The invariant holds in every state of every behaviour.
THEOREM AccountsInvariant == AccountsSpec => []AccountsInv
<1>1. AccountsInv /\ [AccountsNext]_accountsVars => AccountsInv'
  <2> SUFFICES ASSUME AccountsInv, [AccountsNext]_accountsVars PROVE AccountsInv'
    OBVIOUS
  <2>1. CASE AdminFollow \/ AuthFollow
    BY <2>1, FollowKeeps
  <2>2. CASE \E a \in Logins : AuthStep(a)
    BY <2>2, AuthKeeps
  <2>3. ASSUME NEW c \in Calls, AdminStep(c)
        PROVE  AccountsInv'
    <3>1. CASE \E u \in Uuids, name \in Names, role \in Roles : CreateUser(c, u, name, role)
      BY <3>1, CreateKeeps
    <3>2. CASE \E u \in Uuids, change \in Requests, password \in BOOLEAN :
                 UpdateUser(c, u, change, password)
      BY <3>2, ModifyKeeps, AccountsAssumption DEF UpdateUser
    <3>3. CASE \E u \in Uuids : DeleteUser(c, u)
      <4>1. Deactivate \in Change /\ FALSE \in BOOLEAN
        BY DEF Deactivate, Change
      <4> QED BY <3>3, <4>1, ModifyKeeps DEF DeleteUser
    <3>4. CASE \E ok \in BOOLEAN : PutProfile(c, ok)
      BY <3>4, PutProfileKeeps
    <3>5. CASE \E ok \in BOOLEAN : PutAuth(c, ok)
      BY <3>5, PutAuthKeeps
    <3>6. CASE CallFails(c)
      BY <3>6, FailKeeps
    <3> QED BY <2>3, <3>1, <3>2, <3>3, <3>4, <3>5, <3>6 DEF AdminStep
  <2>4. CASE UNCHANGED accountsVars
    BY <2>4 DEF AccountsInv, AccountsTypeOK, Growing, CredentialsMatchProfiles, UsersUsed,
       CallsPlaced, EditsCurrent, EditsLostOnlyByOverlap, LoginsResolve, ValidateSession,
       AccountsComplete, Last, AuthView,
       accountsVars, dbVars, authVars, ghosts
  <2> QED BY <2>1, <2>2, <2>3, <2>4 DEF AccountsNext
<1> QED BY <1>1, InitInv, PTL DEF AccountsSpec

\* Types: the DB's states, the nodes' positions and the calls.
THEOREM AccountsTypeCorrect == AccountsSpec => []AccountsTypeOK
<1>1. AccountsInv => AccountsTypeOK
  BY DEF AccountsInv
<1> QED BY <1>1, AccountsInvariant, PTL

\* Credentials never point to a missing profile or to one of another name, on any
\* DB node, however calls of create_user and update_user interleave or fail.
THEOREM CredentialsMatch == AccountsSpec => []CredentialsMatchProfiles
<1>1. AccountsInv => CredentialsMatchProfiles
  BY DEF AccountsInv
<1> QED BY <1>1, AccountsInvariant, PTL

\* authenticate and validate_session always find the profile they look for.
THEOREM LoginsAlwaysResolve == AccountsSpec => []LoginsResolve
<1>1. AccountsInv => LoginsResolve
  BY DEF AccountsInv
<1> QED BY <1>1, AccountsInvariant, PTL

\* update_user and delete_user act field by field, as if in one step, on users whose
\* calls do not overlap.
THEOREM EditsKept == AccountsSpec => []EditsLostOnlyByOverlap
<1>1. AccountsInv => EditsLostOnlyByOverlap
  BY DEF AccountsInv, EditsCurrent
<1> QED BY <1>1, AccountsInvariant, PTL

\* A name without credentials has a creation under way or one that was reported as
\* failed.
THEOREM AccountsAreComplete == AccountsSpec => []AccountsComplete
<1>1. AccountsInv => AccountsComplete
  BY DEF AccountsInv
<1> QED BY <1>1, AccountsInvariant, PTL

-----------------------------------------------------------------------------
(* Chaos and honeypot.                                                     *)

Task == [id : Ids, state : {"asleep", "expired", "aborted"}, short : BOOLEAN]

\* The k-th task has the k-th id, so tasks and ids correspond.
TasksNumbered ==
  /\ next_id \in 0..MaxScenarios
  /\ task \in [1..next_id -> Task]
  /\ \A k \in 1..next_id : task[k].id[2] = k - 1

\* A call between the spawn and the insertion has a task for itself.
InsertionsPlaced ==
  /\ inject \in [Injectors -> [id : Ids \cup {<<"none", 0>>}, task : Nat]]
  /\ \A i \in Injectors : inject[i] # NotBusy =>
       /\ inject[i].task \in 1..next_id
       /\ inject[i].id = task[inject[i].task].id
       /\ task[inject[i].task].state = "asleep" \/ inject[i].id \in early
       /\ \A j \in Injectors \ {i} : inject[j].task # inject[i].task

\* An entry of the table has a task that no call is about to insert.
EntriesPlaced ==
  \A e \in active :
    /\ e \in [id : Ids, task : 1..next_id]
    /\ \A i \in Injectors : inject[i].task # e.task

ChaosInv ==
  /\ TasksNumbered
  /\ InsertionsPlaced
  /\ EntriesPlaced
  /\ ScenariosOwnTheirTasks

-----------------------------------------------------------------------------
\* Two tasks with the same id are the same.
LEMMA IdsAreUnique ==
  ASSUME TasksNumbered, NEW k \in 1..next_id, NEW l \in 1..next_id,
         task[k].id = task[l].id
  PROVE  k = l
<1>1. task[k].id[2] = k - 1 /\ task[l].id[2] = l - 1
  BY DEF TasksNumbered
<1> QED BY <1>1

\* A call that is not busy has no task, and a busy one has.
LEMMA BusyHasTask ==
  ASSUME InsertionsPlaced, TasksNumbered, NEW i \in Injectors
  PROVE  inject[i] = NotBusy <=> inject[i].task = 0
BY DEF InsertionsPlaced, TasksNumbered, NotBusy

LEMMA ChaosInitInv == ASSUME ChaosInit PROVE ChaosInv
<1> USE ChaosAssumption
<1>1. TasksNumbered BY DEF ChaosInit, TasksNumbered
<1>2. InsertionsPlaced BY DEF ChaosInit, InsertionsPlaced, NotBusy
<1>3. EntriesPlaced BY DEF ChaosInit, EntriesPlaced
<1>4. ScenariosOwnTheirTasks BY DEF ChaosInit, ScenariosOwnTheirTasks
<1> QED BY <1>1, <1>2, <1>3, <1>4 DEF ChaosInv

LEMMA InjectKeepsInv ==
  ASSUME ChaosInv, NEW i \in Injectors, NEW type \in Types, NEW provided \in Tokens,
         NEW short \in BOOLEAN, Inject(i, type, provided, short)
  PROVE  ChaosInv'
<1> USE ChaosAssumption
<1> DEFINE k == next_id + 1
           id == <<type, next_id>>
<1>1. /\ next_id \in Nat /\ next_id < MaxScenarios /\ next_id' = k
      /\ inject[i] = NotBusy /\ type \in KnownTypes /\ id \in Ids
      /\ active' = active /\ early' = early /\ dropped' = dropped
  BY DEF ChaosInv, TasksNumbered, Inject, ParseScenario, Ids
<1>2. Cardinality(DOMAIN task) + 1 = k
  <2>1. DOMAIN task = 1..next_id BY DEF ChaosInv, TasksNumbered
  <2>2. Cardinality(1..next_id) = next_id BY <1>1, FS_Interval
  <2> QED BY <2>1, <2>2
<1>3. /\ task' = [x \in 1..k |-> IF x = k THEN [id |-> id, state |-> "asleep",
                                                short |-> short] ELSE task[x]]
      /\ inject' = [inject EXCEPT ![i] = [id |-> id, task |-> k]]
  <2>1. DOMAIN task \cup {k} = 1..k BY <1>1 DEF ChaosInv, TasksNumbered
  <2> QED BY <1>2, <2>1 DEF Inject, ScenarioId
<1>4. TasksNumbered'
  BY <1>1, <1>3 DEF ChaosInv, TasksNumbered, Task
<1>5. \A l \in 1..next_id : l \in 1..k /\ l # k /\ task'[l] = task[l]
  BY <1>1, <1>3
<1>6. task'[k].id = id /\ task'[k].state = "asleep"
  BY <1>1, <1>3
<1>7. /\ inject'[i] = [id |-> id, task |-> k]
      /\ \A j \in Injectors \ {i} : inject'[j] = inject[j] /\ inject[j].task # k
  BY <1>1, <1>3 DEF ChaosInv, InsertionsPlaced, TasksNumbered, NotBusy
<1>8. InsertionsPlaced'
  <2>1. inject' \in [Injectors -> [id : Ids \cup {<<"none", 0>>}, task : Nat]]
    BY <1>1, <1>3 DEF ChaosInv, InsertionsPlaced
  <2>2. ASSUME NEW j \in Injectors, inject'[j] # NotBusy
        PROVE  /\ inject'[j].task \in 1..k
               /\ inject'[j].id = task'[inject'[j].task].id
               /\ task'[inject'[j].task].state = "asleep" \/ inject'[j].id \in early
               /\ \A h \in Injectors \ {j} : inject'[h].task # inject'[j].task
    <3>1. CASE j = i BY <1>1, <1>6, <1>7, <3>1
    <3>2. CASE j # i
      BY <1>1, <1>5, <1>7, <2>2, <3>2 DEF ChaosInv, InsertionsPlaced
    <3> QED BY <3>1, <3>2
  <2> QED BY <1>1, <2>1, <2>2 DEF InsertionsPlaced
<1>9. EntriesPlaced'
  BY <1>1, <1>5, <1>7 DEF ChaosInv, EntriesPlaced
<1>10. ScenariosOwnTheirTasks'
  <2>1. \A e \in active : e.task \in 1..next_id BY DEF ChaosInv, EntriesPlaced
  <2>2. \A l \in 1..next_id : (\E j \in Injectors : inject[j].task = l) =>
          \E j \in Injectors : inject'[j].task = l
    BY <1>1, <1>7 DEF NotBusy
  <2>3. \A l \in 1..k : task'[l].state = "asleep" =>
          \/ \E j \in Injectors : inject'[j].task = l
          \/ task'[l].id \in dropped
          \/ \E e \in active : e.task = l
    <3>1. ASSUME NEW l \in 1..k, task'[l].state = "asleep", l # k
          PROVE  \/ \E j \in Injectors : inject'[j].task = l
                 \/ task'[l].id \in dropped
                 \/ \E e \in active : e.task = l
      <4>1. l \in 1..next_id /\ task[l].state = "asleep" /\ task'[l] = task[l]
        BY <1>1, <1>5, <3>1
      <4> QED BY <2>2, <4>1 DEF ChaosInv, TasksNumbered, ScenariosOwnTheirTasks, Inserting
    <3> QED BY <1>7, <3>1
  <2>4. DOMAIN task' = 1..k BY <1>3
  <2>5. \A e \in active : task'[e.task].id = e.id /\
          (task'[e.task].state = "asleep" \/ e.id \in early)
    BY <1>5, <2>1 DEF ChaosInv, ScenariosOwnTheirTasks
  <2> QED BY <1>1, <2>3, <2>4, <2>5 DEF ScenariosOwnTheirTasks, Inserting
<1> QED BY <1>4, <1>8, <1>9, <1>10 DEF ChaosInv

LEMMA InsertKeepsInv ==
  ASSUME ChaosInv, NEW i \in Injectors, Insert(i)
  PROVE  ChaosInv'
<1> DEFINE k == inject[i].task
<1>1. /\ next_id' = next_id /\ task' = task /\ early' = early /\ dropped' = dropped
      /\ inject[i] # NotBusy /\ k \in 1..next_id /\ inject[i].id = task[k].id
      /\ task[k].state = "asleep" \/ inject[i].id \in early
      /\ \A j \in Injectors \ {i} : inject[j].task # k
  BY DEF ChaosInv, InsertionsPlaced, Insert
<1>2. TasksNumbered' BY <1>1 DEF ChaosInv, TasksNumbered
<1>3. inject'[i] = NotBusy /\ \A j \in Injectors \ {i} : inject'[j] = inject[j]
  BY DEF ChaosInv, InsertionsPlaced, Insert
<1>4. InsertionsPlaced'
  <2>1. inject' \in [Injectors -> [id : Ids \cup {<<"none", 0>>}, task : Nat]]
    BY DEF ChaosInv, InsertionsPlaced, Insert, NotBusy
  <2>2. k \in Nat /\ \A j \in Injectors : inject[j] # NotBusy => inject[j].task # 0
    BY DEF ChaosInv, InsertionsPlaced, TasksNumbered
  <2> QED BY <1>1, <1>3, <2>1, <2>2 DEF ChaosInv, InsertionsPlaced, NotBusy
\* An entry that has the id would have the task, which no entry has.
<1>5. active' = active \cup {inject[i]}
  <2>1. ASSUME NEW e \in active PROVE e.id # inject[i].id
    <3>1. SUFFICES ASSUME e.id = inject[i].id PROVE FALSE OBVIOUS
    <3>2. /\ e.task \in 1..next_id /\ task[e.task].id = e.id /\ k # e.task
      BY DEF ChaosInv, EntriesPlaced, ScenariosOwnTheirTasks
    <3> QED BY <1>1, <3>1, <3>2, IdsAreUnique DEF ChaosInv
  <2> QED BY <2>1 DEF Insert, Without
<1>6. EntriesPlaced'
  <2>1. inject[i] \in [id : Ids, task : 1..next_id]
    BY <1>1 DEF ChaosInv, InsertionsPlaced, TasksNumbered, Task
  <2>2. \A j \in Injectors : inject'[j].task # k
    BY <1>1, <1>3 DEF NotBusy
  <2>3. \A e \in active : \A j \in Injectors : inject'[j].task # e.task
    BY <1>3 DEF ChaosInv, EntriesPlaced, NotBusy
  <2> QED BY <1>1, <1>5, <2>1, <2>2, <2>3 DEF ChaosInv, EntriesPlaced
<1>7. ScenariosOwnTheirTasks'
  <2>1. \A e \in active' : task[e.task].id = e.id /\
                           (task[e.task].state = "asleep" \/ e.id \in early)
    BY <1>1, <1>5 DEF ChaosInv, ScenariosOwnTheirTasks
  <2>2. \A l \in DOMAIN task : task[l].state = "asleep" =>
          \/ \E j \in Injectors : inject'[j].task = l
          \/ task[l].id \in dropped
          \/ \E e \in active' : e.task = l
    <3>1. ASSUME NEW l \in DOMAIN task, task[l].state = "asleep"
          PROVE  \/ \E j \in Injectors : inject'[j].task = l
                 \/ task[l].id \in dropped
                 \/ \E e \in active' : e.task = l
      <4>1. CASE l = k BY <1>5, <4>1
      <4>2. CASE l # k
        BY <1>3, <1>5, <3>1, <4>2 DEF ChaosInv, ScenariosOwnTheirTasks, Inserting
      <4> QED BY <4>1, <4>2
    <3> QED BY <3>1
  <2> QED BY <1>1, <2>1, <2>2 DEF ScenariosOwnTheirTasks, Inserting
<1> QED BY <1>2, <1>4, <1>6, <1>7 DEF ChaosInv

\* A call that is cancelled leaves its task without an entry, and says so.
LEMMA HangupKeepsInv ==
  ASSUME ChaosInv, NEW i \in Injectors, Hangup(i)
  PROVE  ChaosInv'
<1> DEFINE k == inject[i].task
<1>1. /\ next_id' = next_id /\ task' = task /\ early' = early /\ active' = active
      /\ dropped' = dropped \cup {inject[i].id}
      /\ inject[i] # NotBusy /\ k \in 1..next_id /\ inject[i].id = task[k].id
  BY DEF ChaosInv, InsertionsPlaced, Hangup
<1>2. inject'[i] = NotBusy /\ \A j \in Injectors \ {i} : inject'[j] = inject[j]
  BY DEF ChaosInv, InsertionsPlaced, Hangup
<1>3. TasksNumbered' BY <1>1 DEF ChaosInv, TasksNumbered
<1>4. InsertionsPlaced'
  <2>1. inject' \in [Injectors -> [id : Ids \cup {<<"none", 0>>}, task : Nat]]
    BY DEF ChaosInv, InsertionsPlaced, Hangup, NotBusy
  <2>2. \A j \in Injectors : inject[j] # NotBusy => inject[j].task # 0
    BY DEF ChaosInv, InsertionsPlaced, TasksNumbered
  <2> QED BY <1>1, <1>2, <2>1, <2>2 DEF ChaosInv, InsertionsPlaced, NotBusy
<1>5. EntriesPlaced'
  BY <1>1, <1>2 DEF ChaosInv, EntriesPlaced, NotBusy
<1>6. ScenariosOwnTheirTasks'
  <2>1. ASSUME NEW l \in DOMAIN task, task[l].state = "asleep"
        PROVE  \/ \E j \in Injectors : inject'[j].task = l
               \/ task[l].id \in dropped'
               \/ \E e \in active : e.task = l
    <3>1. CASE l = k BY <1>1, <3>1
    <3>2. CASE l # k
      BY <1>1, <1>2, <2>1, <3>2 DEF ChaosInv, ScenariosOwnTheirTasks, Inserting
    <3> QED BY <3>1, <3>2
  <2> QED BY <1>1, <2>1 DEF ChaosInv, ScenariosOwnTheirTasks, Inserting
<1> QED BY <1>3, <1>4, <1>5, <1>6 DEF ChaosInv

LEMMA ExpireKeepsInv ==
  ASSUME ChaosInv, NEW k \in DOMAIN task, Expire(k)
  PROVE  ChaosInv'
<1>1. /\ next_id' = next_id /\ inject' = inject /\ k \in 1..next_id
      /\ task' = [task EXCEPT ![k].state = "expired"]
      /\ active' = Without(task[k].id)
      /\ early' = IF Inserting(k) THEN early \cup {task[k].id} ELSE early
      /\ dropped' = dropped
  BY DEF ChaosInv, TasksNumbered, Expire
<1>2. TasksNumbered' BY <1>1 DEF ChaosInv, TasksNumbered, Task
<1>3. /\ \A l \in 1..next_id : task'[l].id = task[l].id
      /\ \A l \in 1..next_id \ {k} : task'[l] = task[l]
      /\ task'[k].state = "expired"
  BY <1>1 DEF ChaosInv, TasksNumbered, Task
<1>4. InsertionsPlaced'
  <2>1. ASSUME NEW i \in Injectors, inject[i] # NotBusy
        PROVE  /\ inject[i].task \in 1..next_id
               /\ inject[i].id = task'[inject[i].task].id
               /\ task'[inject[i].task].state = "asleep" \/ inject[i].id \in early'
               /\ \A j \in Injectors \ {i} : inject[j].task # inject[i].task
    <3>1. CASE inject[i].task = k
      BY <1>1, <1>3, <2>1, <3>1 DEF ChaosInv, InsertionsPlaced, Inserting
    <3>2. CASE inject[i].task # k
      BY <1>1, <1>3, <2>1, <3>2 DEF ChaosInv, InsertionsPlaced
    <3> QED BY <3>1, <3>2
  <2> QED BY <1>1, <2>1 DEF ChaosInv, InsertionsPlaced
<1>5. EntriesPlaced'
  BY <1>1 DEF ChaosInv, EntriesPlaced, Without
<1>6. ScenariosOwnTheirTasks'
  <2>1. ASSUME NEW e \in active'
        PROVE  task'[e.task].id = e.id /\ (task'[e.task].state = "asleep" \/ e.id \in early')
    <3>1. e \in active /\ e.id # task[k].id BY <1>1 DEF Without
    <3>2. e.task \in 1..next_id /\ task[e.task].id = e.id
      BY <3>1 DEF ChaosInv, EntriesPlaced, ScenariosOwnTheirTasks
    <3>3. e.task # k BY <3>1, <3>2
    <3> QED BY <1>1, <1>3, <3>1, <3>2, <3>3 DEF ChaosInv, ScenariosOwnTheirTasks
  <2>2. ASSUME NEW l \in 1..next_id, task'[l].state = "asleep"
        PROVE  \/ \E j \in Injectors : inject[j].task = l
               \/ task'[l].id \in dropped
               \/ \E e \in active' : e.task = l
    <3>1. l # k /\ task[l].state = "asleep" /\ l \in DOMAIN task /\ task'[l] = task[l]
      BY <1>3, <2>2 DEF ChaosInv, TasksNumbered
    <3>2. ASSUME NEW e \in active, e.task = l PROVE e \in active'
      <4>1. e.id = task[l].id BY <3>2 DEF ChaosInv, ScenariosOwnTheirTasks
      <4>2. e.id # task[k].id BY <1>1, <3>1, <4>1, IdsAreUnique DEF ChaosInv
      <4> QED BY <1>1, <4>2 DEF Without
    <3> QED BY <3>1, <3>2 DEF ChaosInv, ScenariosOwnTheirTasks, Inserting
  <2>3. DOMAIN task' = 1..next_id BY <1>1 DEF ChaosInv, TasksNumbered
  <2> QED BY <1>1, <2>1, <2>2, <2>3 DEF ScenariosOwnTheirTasks, Inserting
<1> QED BY <1>2, <1>4, <1>5, <1>6 DEF ChaosInv

LEMMA StopKeepsInv ==
  ASSUME ChaosInv, NEW id, NEW provided \in Tokens, StopScenario(id, provided)
  PROVE  ChaosInv'
<1>1. PICK e \in active :
        /\ active' = active \ {e}
        /\ task' = [task EXCEPT ![e.task].state = IF @ = "asleep" THEN "aborted" ELSE @]
        /\ next_id' = next_id /\ inject' = inject
        /\ early' = early /\ dropped' = dropped
  BY DEF StopScenario
<1> DEFINE k == e.task
<1>2. /\ k \in 1..next_id /\ task[k].id = e.id
      /\ \A i \in Injectors : inject[i].task # k
  BY DEF ChaosInv, EntriesPlaced, ScenariosOwnTheirTasks
<1>3. TasksNumbered' BY <1>1, <1>2 DEF ChaosInv, TasksNumbered, Task
<1>4. /\ \A l \in 1..next_id : task'[l].id = task[l].id
      /\ \A l \in 1..next_id \ {k} : task'[l] = task[l]
      /\ task'[k].state # "asleep"
  BY <1>1, <1>2 DEF ChaosInv, TasksNumbered, Task
<1>5. InsertionsPlaced'
  BY <1>1, <1>2, <1>4 DEF ChaosInv, InsertionsPlaced
<1>6. EntriesPlaced' BY <1>1 DEF ChaosInv, EntriesPlaced
<1>7. ScenariosOwnTheirTasks'
  \* Another entry has another task: a task gives its entry's id and place.
  <2>1. ASSUME NEW x \in active' PROVE x.task # k
    <3>1. x \in active /\ x # e BY <1>1
    <3>2. /\ x \in [id : Ids, task : 1..next_id] /\ e \in [id : Ids, task : 1..next_id]
          /\ task[x.task].id = x.id
      BY <3>1 DEF ChaosInv, EntriesPlaced, ScenariosOwnTheirTasks
    <3> QED BY <1>2, <3>1, <3>2
  <2>2. ASSUME NEW x \in active'
        PROVE  task'[x.task].id = x.id /\ (task'[x.task].state = "asleep" \/ x.id \in early')
    <3>1. x \in active /\ x.task \in 1..next_id BY <1>1 DEF ChaosInv, EntriesPlaced
    <3> QED BY <1>1, <1>4, <2>1, <3>1 DEF ChaosInv, ScenariosOwnTheirTasks
  <2>3. ASSUME NEW l \in 1..next_id, task'[l].state = "asleep"
        PROVE  \/ \E j \in Injectors : inject[j].task = l
               \/ task'[l].id \in dropped
               \/ \E x \in active' : x.task = l
    <3>1. l # k /\ task[l].state = "asleep" /\ l \in DOMAIN task /\ task'[l] = task[l]
      BY <1>4, <2>3 DEF ChaosInv, TasksNumbered
    <3> QED BY <1>1, <3>1 DEF ChaosInv, ScenariosOwnTheirTasks, Inserting
  <2>4. DOMAIN task' = 1..next_id BY <1>1 DEF ChaosInv, TasksNumbered
  <2> QED BY <1>1, <2>2, <2>3, <2>4 DEF ScenariosOwnTheirTasks, Inserting
<1> QED BY <1>3, <1>5, <1>6, <1>7 DEF ChaosInv

LEMMA ChaosStepKeepsInv ==
  ASSUME ChaosInv, ChaosStep \/ UNCHANGED chaosVars PROVE ChaosInv'
<1>1. CASE UNCHANGED chaosVars
  BY <1>1 DEF chaosVars, ChaosInv, TasksNumbered, InsertionsPlaced, EntriesPlaced,
              ScenariosOwnTheirTasks, Inserting
<1>2. CASE ChaosStep
  BY <1>2, InjectKeepsInv, InsertKeepsInv, HangupKeepsInv, ExpireKeepsInv,
     StopKeepsInv DEF ChaosStep
<1> QED BY <1>1, <1>2

-----------------------------------------------------------------------------
Event ==
  [stage : {"captured", "received", "stored", "unknown", "answered", "logged"},
   source_ip : Addresses, endpoint : Traps, timestamp : 0..MaxSeconds]

EventsTyped ==
  /\ second \in 0..MaxSeconds
  /\ adminUp \in BOOLEAN /\ dbUp \in BOOLEAN /\ outages \in 0..MaxOutages
  /\ visit \in [Visits -> Event \cup {NoVisit}]

\* Every record is of an access that was put and is under that access's key, and every
\* stored access has a record under its key.
RecordsFit ==
  /\ DOMAIN audit \subseteq AuditKeys
  /\ \A k \in DOMAIN audit :
       /\ audit[k] \in Visits
       /\ visit[audit[k]].stage \in {"stored", "answered"}
       /\ AuditKey(visit[audit[k]]) = k
  /\ \A v \in Visits : visit[v].stage = "stored" => AuditKey(visit[v]) \in DOMAIN audit

LogInv == EventsTyped /\ RecordsFit

LEMMA LogInitInv == ASSUME LogInit PROVE LogInv
BY IntrusionAssumption DEF LogInit, LogInv, EventsTyped, RecordsFit, NoVisit

\* A put writes the record of an access that was not put before.
LEMMA PutKeepsRecords ==
  ASSUME LogInv, NEW v \in Visits, visit[v] \in Event, Put(v),
         visit[v].stage \in {"received", "unknown"}, NEW stage \in {"stored", "answered"},
         visit' = [visit EXCEPT ![v].stage = stage],
         UNCHANGED <<second, adminUp, dbUp, outages>>
  PROVE  LogInv'
<1> DEFINE key == AuditKey(visit[v])
<1>1. /\ \A w \in Visits \ {v} : visit'[w] = visit[w]
      /\ visit'[v].stage = stage /\ visit'[v] \in Event /\ AuditKey(visit'[v]) = key
  BY DEF LogInv, EventsTyped, Event, AuditKey
<1>2. EventsTyped' BY DEF LogInv, EventsTyped, Event
<1>3. key \in AuditKeys BY DEF AuditKey, Event, AuditKeys
<1>4. /\ DOMAIN audit' = DOMAIN audit \cup {key}
      /\ audit'[key] = v
      /\ \A k \in DOMAIN audit \ {key} : audit'[k] = audit[k]
  BY DEF Put
<1>5. \A k \in DOMAIN audit : audit[k] # v BY DEF LogInv, RecordsFit
<1>6. RecordsFit' BY <1>1, <1>3, <1>4, <1>5 DEF LogInv, RecordsFit
<1> QED BY <1>2, <1>6 DEF LogInv

\* Without a put the records are those of the same accesses.
LEMMA NoPutKeepsRecords ==
  ASSUME LogInv, NEW v \in Visits, visit[v] \in Event, audit' = audit,
         visit[v].stage \in {"received", "unknown"}, NEW stage \in {"unknown", "answered"},
         visit' = [visit EXCEPT ![v].stage = stage],
         UNCHANGED <<second, adminUp, dbUp, outages>>
  PROVE  LogInv'
<1>1. /\ \A w \in Visits \ {v} : visit'[w] = visit[w]
      /\ visit'[v].stage = stage
  BY DEF LogInv, EventsTyped, Event
<1>2. EventsTyped' BY DEF LogInv, EventsTyped, Event
<1>3. \A k \in DOMAIN audit : audit[k] # v BY DEF LogInv, RecordsFit
<1>4. RecordsFit' BY <1>1, <1>3 DEF LogInv, RecordsFit
<1> QED BY <1>2, <1>4 DEF LogInv

LEMMA LogStepKeepsInv ==
  ASSUME LogInv, LogStep \/ UNCHANGED logVars PROVE LogInv'
<1> USE IntrusionAssumption
<1>1. CASE UNCHANGED logVars
  BY <1>1 DEF logVars, LogInv, EventsTyped, RecordsFit
<1>2. CASE SecondPasses
  BY <1>2 DEF SecondPasses, LogInv, EventsTyped, RecordsFit
<1>3. CASE \E admin \in BOOLEAN : Outage(admin)
  BY <1>3 DEF Outage, LogInv, EventsTyped, RecordsFit
<1>4. CASE Back
  BY <1>4 DEF Back, LogInv, EventsTyped, RecordsFit
<1>5. ASSUME NEW v \in Visits, NEW ip \in Addresses, NEW endpoint \in Traps,
             Capture(v, ip, endpoint)
      PROVE  LogInv'
  <2>1. /\ visit[v] = NoVisit /\ audit' = audit
        /\ visit' = [visit EXCEPT ![v] = [stage |-> "captured", source_ip |-> ip,
                                          endpoint |-> endpoint, timestamp |-> second]]
    BY <1>5 DEF Capture
  <2>2. EventsTyped' BY <1>5 DEF Capture, LogInv, EventsTyped, Event
  <2>3. /\ visit[v].stage \notin {"stored", "answered"}
        /\ visit'[v].stage \notin {"stored", "answered"}
        /\ \A w \in Visits \ {v} : visit'[w] = visit[w]
    BY <2>1 DEF LogInv, EventsTyped, NoVisit
  <2>4. RecordsFit' BY <2>1, <2>3 DEF LogInv, RecordsFit
  <2> QED BY <2>2, <2>4 DEF LogInv
<1>6. ASSUME NEW v \in Visits, Report(v) PROVE LogInv'
  <2>1. /\ visit[v].stage = "captured" /\ audit' = audit /\ visit[v] \in Event
        /\ visit' = [visit EXCEPT ![v].stage = IF adminUp THEN "received" ELSE "logged"]
    BY <1>6 DEF Report, LogInv, EventsTyped, NoVisit
  <2>2. EventsTyped' BY <1>6, <2>1 DEF Report, LogInv, EventsTyped, Event
  <2>3. /\ visit[v].stage \notin {"stored", "answered"}
        /\ visit'[v].stage \notin {"stored", "answered"}
        /\ \A w \in Visits \ {v} : visit'[w] = visit[w]
    BY <2>1 DEF LogInv, EventsTyped, Event
  <2>4. RecordsFit' BY <2>1, <2>3 DEF LogInv, RecordsFit
  <2> QED BY <2>2, <2>4 DEF LogInv
<1>7. ASSUME NEW v \in Visits, RecordIntrusion(v) PROVE LogInv'
  <2>1. visit[v].stage = "received" /\ visit[v] \in Event
    BY <1>7 DEF RecordIntrusion, LogInv, EventsTyped, NoVisit
  <2>2. CASE Put(v) /\ visit' = [visit EXCEPT ![v].stage = "stored"]
    BY <1>7, <2>1, <2>2, PutKeepsRecords DEF RecordIntrusion
  <2>3. CASE audit' = audit /\ visit' = [visit EXCEPT ![v].stage = "unknown"]
    BY <1>7, <2>1, <2>3, NoPutKeepsRecords DEF RecordIntrusion
  <2> QED BY <1>7, <2>2, <2>3 DEF RecordIntrusion
<1>8. ASSUME NEW v \in Visits, PutAfterError(v) PROVE LogInv'
  <2>1. visit[v].stage = "unknown" /\ visit[v] \in Event
    BY <1>8 DEF PutAfterError, LogInv, EventsTyped, NoVisit
  <2>2. CASE Put(v)
    BY <1>8, <2>1, <2>2, PutKeepsRecords DEF PutAfterError
  <2>3. CASE audit' = audit
    BY <1>8, <2>1, <2>3, NoPutKeepsRecords DEF PutAfterError
  <2> QED BY <1>8, <2>2, <2>3 DEF PutAfterError
<1> QED BY <1>1, <1>2, <1>3, <1>4, <1>5, <1>6, <1>7, <1>8 DEF LogStep

-----------------------------------------------------------------------------
LEMMA OperationsInv == OperationsSpec => [](ChaosInv /\ LogInv)
<1>1. OperationsInit => ChaosInv /\ LogInv
  BY ChaosInitInv, LogInitInv DEF OperationsInit
<1>2. ChaosInv /\ LogInv /\ [OperationsNext]_operationsVars => (ChaosInv /\ LogInv)'
  BY ChaosStepKeepsInv, LogStepKeepsInv DEF OperationsNext, operationsVars, chaosVars, logVars
<1> QED BY <1>1, <1>2, PTL DEF OperationsSpec

\* The chaos service's counter, table and tasks and the honeypot's reports always have
\* their types (ActiveScenario, IntrusionEvent); ids are of scenario types that
\* parse_scenario knows.
THEOREM OperationsTypeCorrect == OperationsSpec => []OperationsTypeOK
<1>1. ChaosInv => ChaosTypeOK
  BY DEF ChaosInv, ChaosTypeOK, TasksNumbered, InsertionsPlaced, EntriesPlaced, Task
<1>2. LogInv => LogTypeOK
  BY DEF LogInv, EventsTyped, RecordsFit, LogTypeOK, Event, NoVisit
<1>3. ChaosInv /\ LogInv => OperationsTypeOK BY <1>1, <1>2 DEF OperationsTypeOK
<1> QED BY <1>3, OperationsInv, PTL

\* Whatever callers of inject_scenario and stop_scenario do at the same time, every
\* scenario in the table has its own task, and no sleeping task is without its scenario.
THEOREM ScenariosKeepTheirTasks == OperationsSpec => []ScenariosOwnTheirTasks
<1>1. ChaosInv => ScenariosOwnTheirTasks BY DEF ChaosInv
<1> QED BY <1>1, OperationsInv, PTL

\* record_intrusion loses a stored access only to another one of the same second,
\* address and endpoint.
THEOREM AccessesRemainStored == OperationsSpec => []StoredAccessesRemain
<1>1. LogInv => StoredAccessesRemain
  <2> SUFFICES ASSUME LogInv, NEW v \in Visits, visit[v].stage = "stored"
               PROVE  \E k \in DOMAIN audit : SameKind(v, audit[k])
    BY DEF StoredAccessesRemain
  <2> DEFINE k == AuditKey(visit[v])
  <2>1. k \in DOMAIN audit BY DEF LogInv, RecordsFit
  <2>2. AuditKey(visit[audit[k]]) = k
    BY <2>1 DEF LogInv, RecordsFit
  <2>3. SameKind(v, audit[k]) BY <2>2 DEF SameKind, AuditKey
  <2> QED BY <2>1, <2>2, <2>3
<1> QED BY <1>1, OperationsInv, PTL

-----------------------------------------------------------------------------
(* The gateway.                                                            *)

Secrets == EnvSecrets \cup {NoSecret, NoFile, Empty, "generated"}

\* Keys that are in use or on disk were made; who reads the file found one.
KeysTyped ==
  /\ keys \in 1..made \cup {NoFile, Torn}
  /\ secretFile \in {NoFile, Empty, "generated"}
  /\ secretEnv \in EnvSecrets
  /\ proc \in [Procs -> [stage : Stages, key : 0..made, secret : Secrets]]
  /\ \A p \in Procs : proc[p].stage \in {"writing", "loaded", "up"} => proc[p].key # 0
  /\ \A p \in Procs : proc[p].stage = "reading" => keys # NoFile
  /\ made \in 0..MaxKeys
  /\ stops \in 0..MaxStops
  /\ raced \in BOOLEAN

AccountSealed ==
  account = NoAccount \/
    (account = [kem |-> account.kem, body |-> "profile"] /\ account.kem \in 1..made)

\* Unless two services looked for the file while there was none: one of them makes it,
\* nobody has a key before it is whole, and from then on all have that key.
KeysAgree ==
  ~ raced =>
    /\ \A p, q \in Procs :
         (proc[p].stage \in {"generating", "writing"} /\
          proc[q].stage \in {"generating", "writing"}) => p = q
    /\ keys = NoFile =>
         account = NoAccount /\ \A p \in Procs : proc[p].stage \in {"down", "generating"}
    /\ keys = Torn =>
         account = NoAccount /\ \A p \in Procs : proc[p].stage \in {"down", "reading", "writing"}
    /\ keys \in Nat =>
         /\ account = NoAccount \/ account.kem = keys
         /\ \A p \in Procs : /\ proc[p].stage \in {"down", "reading", "loaded", "up"}
                             /\ proc[p].stage \in {"loaded", "up"} => proc[p].key = keys

\* The secret that auth would start with now, once there is one.
CurrentSecret == IF secretEnv # NoSecret THEN secretEnv ELSE secretFile

\* It is the one that a running auth has and that tokens were signed with.
SecretKept ==
  /\ proc["auth"].stage = "up" => proc["auth"].secret = CurrentSecret
  /\ token # NoToken => token = CurrentSecret
  /\ ((proc["auth"].stage = "up" \/ token # NoToken) /\ secretEnv = NoSecret) =>
       secretFile # NoFile

\* The clients that are connected while the gateway starts, and that a running gateway
\* has, are at addresses that parsed; they are the current ones unless stuck.
ClientsPlaced ==
  \/ gw = Offline
  \/ /\ gw = [stage |-> gw.stage, left |-> gw.left, reloads |-> gw.reloads,
              current |-> gw.current, channel |-> gw.channel]
     /\ gw.current = [s \in Services |-> gw.current[s]]
     /\ gw.channel = [s \in Services |-> gw.channel[s]]
     /\ \/ /\ gw.stage = "starting"
           /\ gw.channel = gw.current
           /\ \/ gw.left = <<"auth", "admin", "custodian">>
              \/ gw.left = <<"admin", "custodian">> /\ gw.channel["auth"] \notin Malformed
              \/ /\ gw.left = <<"custodian">>
                 /\ gw.channel["auth"] \notin Malformed /\ gw.channel["admin"] \notin Malformed
        \/ /\ gw.stage = "up"
           /\ \A s \in Services : gw.channel[s] \notin Malformed
           /\ \A s \in Services : gw.channel[s] = gw.current[s] \/ s \in stuck

\* A request under way knows its route's services; a refused one had a foreign token.
RequestPlaced ==
  \/ request = NoRequest
  \/ /\ request.route \in DOMAIN Callees
     /\ \/ /\ request = [route |-> request.route, http |-> 0, to |-> request.to,
                         got |-> request.got]
           /\ DOMAIN request.to = Callees[request.route]
        \/ /\ request.http # 0
           /\ (request.route \in Protected /\ request.http = 401) => request.signed # secret

OperatorsTyped ==
  /\ file \in Registries \cup {Unreadable}
  /\ pem \in BOOLEAN
  /\ custodian \in BOOLEAN
  /\ stuck \subseteq Services

GatewayInv ==
  /\ KeysTyped
  /\ AccountSealed
  /\ KeysAgree
  /\ SecretKept
  /\ ClientsPlaced
  /\ RequestPlaced
  /\ OperatorsTyped

LEMMA GatewayInitInv == Init => GatewayInv
<1> SUFFICES ASSUME Init PROVE GatewayInv
  OBVIOUS
<1> USE DEF Init
<1>1. /\ keys = NoFile /\ secretFile = NoFile /\ secretEnv \in EnvSecrets
      /\ proc = [p \in Procs |-> Down] /\ made = 0 /\ stops = 0 /\ raced = FALSE
  BY DEF KeyInit
<1>1a. Down \in [stage : Stages, key : 0..made, secret : Secrets]
  BY <1>1 DEF Down, Stages, Secrets
<1>1b. /\ \A p \in Procs : proc[p] = Down
       /\ proc \in [Procs -> [stage : Stages, key : 0..made, secret : Secrets]]
  BY <1>1, <1>1a
<1>1c. Down.stage = "down"
  BY DEF Down
<1>1d. KeysTyped
  <2>1. keys \in 1..made \cup {NoFile, Torn} /\ secretFile \in {NoFile, Empty, "generated"}
    BY <1>1
  <2>1a. made \in 0..MaxKeys /\ stops \in 0..MaxStops
    BY <1>1, KeyStoreAssumption
  <2>1b. raced \in BOOLEAN
    BY <1>1
  <2>2. \A p \in Procs : proc[p].stage = "down"
    BY <1>1b, <1>1c
  <2> QED BY <1>1, <1>1b, <2>1, <2>1a, <2>1b, <2>2 DEF KeysTyped
<1>2. AccountSealed
  BY DEF AccountSealed
<1>3. KeysAgree
  <2>1. account = NoAccount
    OBVIOUS
  <2> QED BY <1>1, <1>1b, <1>1c, <2>1, KeyStoreAssumption DEF KeysAgree
<1>4. SecretKept
  BY <1>1, <1>1b, <1>1c DEF SecretKept, Procs
<1>5. ClientsPlaced /\ RequestPlaced
  BY DEF ClientsPlaced, RequestPlaced
<1>6. OperatorsTyped
  BY GatewayAssumption DEF OperatorsTyped
<1> QED BY <1>1d, <1>2, <1>3, <1>4, <1>5, <1>6 DEF GatewayInv

-----------------------------------------------------------------------------
(* The start of auth and admin.                                            *)

\* The record of a process once m key pairs were made.
Record(m) == [stage : Stages, key : 0..m, secret : Secrets]

\* What keeps the types when one process changes its record to r.
LEMMA RecordStep ==
  ASSUME KeysTyped, NEW p \in Procs, NEW r \in Record(made'),
         proc' = [proc EXCEPT ![p] = r],
         r.stage \in {"writing", "loaded", "up"} => r.key # 0,
         r.stage = "reading" => keys # NoFile,
         made' \in {made, made + 1}, made' <= MaxKeys,
         keys' \in 1..made' \cup {Torn} \/ keys' = keys,
         secretFile' \in {NoFile, Empty, "generated"}, secretEnv' = secretEnv,
         stops' \in 0..MaxStops, raced' \in BOOLEAN
  PROVE  KeysTyped'
<1> USE KeyStoreAssumption
<1>1. made \in Nat /\ made' \in 0..MaxKeys /\ made <= made' /\ MaxKeys \in Nat
  BY DEF KeysTyped
<1>2. \A q \in Procs : proc'[q] = IF q = p THEN r ELSE proc[q]
  BY DEF KeysTyped
<1>3. proc \in [Procs -> Record(made)]
  BY DEF KeysTyped, Record
<1>4. proc' \in [Procs -> Record(made')]
  <2>1. \A x \in Record(made) : x \in Record(made')
    BY <1>1 DEF Record
  <2>2. proc \in [Procs -> Record(made')]
    BY <1>3, <2>1
  <2> QED BY <2>2
<1>5. keys' \in 1..made' \cup {NoFile, Torn} /\ (keys # NoFile => keys' # NoFile)
  BY <1>1 DEF KeysTyped
<1>6. \A q \in Procs : proc'[q].stage \in {"writing", "loaded", "up"} => proc'[q].key # 0
  BY <1>2 DEF KeysTyped
<1>7. \A q \in Procs : proc'[q].stage = "reading" => keys' # NoFile
  BY <1>2, <1>5 DEF KeysTyped
<1> QED BY <1>1, <1>4, <1>5, <1>6, <1>7 DEF KeysTyped, Record

LEMMA KeyStepTypes ==
  ASSUME KeysTyped, AccountSealed, KeyStep, account' = account
  PROVE  KeysTyped' /\ AccountSealed'
<1> USE KeyStoreAssumption
<1> DEFINE Goal == KeysTyped' /\ made' \in {made, made + 1}
<1>0. /\ made \in Nat /\ made <= MaxKeys /\ stops \in Nat /\ stops <= MaxStops
      /\ secretFile \in {NoFile, Empty, "generated"} /\ raced \in BOOLEAN
      /\ stops \in 0..MaxStops
      /\ \A p \in Procs : proc[p] \in Record(made)
  BY DEF KeysTyped, Record
<1>a. Down \in Record(made) /\ Down.stage = "down"
  BY <1>0 DEF Record, Down, Stages, Secrets
<1>1. ASSUME NEW p \in Procs, Begin(p) PROVE Goal
  <2> DEFINE r == [proc[p] EXCEPT !.stage = IF keys = NoFile THEN "generating" ELSE "reading"]
  <2>1. /\ r \in Record(made)
        /\ r.stage = IF keys = NoFile THEN "generating" ELSE "reading"
    BY <1>0 DEF Record, Stages
  <2>2. /\ proc' = [proc EXCEPT ![p] = r] /\ raced' \in BOOLEAN
        /\ UNCHANGED <<keys, secretFile, secretEnv, made, stops>>
    BY <1>0, <1>1 DEF Begin
  <2> HIDE DEF r
  <2> QED BY <1>0, <2>1, <2>2, RecordStep
<1>2. ASSUME NEW p \in Procs, Read(p) PROVE Goal
  <2> DEFINE s == [stage |-> "loaded", key |-> keys, secret |-> NoSecret]
             r == IF keys = Torn THEN Down ELSE s
  <2>1. /\ proc' = [proc EXCEPT ![p] = r]
        /\ UNCHANGED <<keys, secretFile, secretEnv, made, stops, raced>>
    BY <1>2 DEF Read
  <2>2. keys # Torn => keys \in 1..made
    BY <1>2 DEF Read, KeysTyped
  <2>3. s.stage = "loaded" /\ s.key = keys /\ (keys # Torn => s \in Record(made))
    <3>3. ASSUME keys # Torn PROVE s \in Record(made)
      <4>1. keys \in 0..made /\ NoSecret \in Secrets /\ "loaded" \in Stages
        BY <1>0, <2>2, <3>3 DEF Stages, Secrets
      <4> QED BY <4>1 DEF Record
    <3> QED BY <3>3
  <2> HIDE DEF s
  <2>4. r \in Record(made) /\ (r.stage = "down" \/ (r.stage = "loaded" /\ r.key # 0))
    BY <1>0, <1>a, <2>2, <2>3
  <2> HIDE DEF r
  <2> QED BY <1>0, <2>1, <2>4, RecordStep
<1>3. ASSUME NEW p \in Procs, Generate(p) PROVE Goal
  <2> DEFINE r == [proc[p] EXCEPT !.stage = "writing", !.key = made + 1]
  <2>1. made' = made + 1 /\ made < MaxKeys /\ keys' = Torn
        /\ UNCHANGED <<secretFile, secretEnv, stops, raced>>
    BY <1>3 DEF Generate
  <2>2. r \in Record(made + 1) /\ r.stage = "writing" /\ r.key # 0
    <3> DEFINE k == made + 1
    <3>1. k \in 0..k /\ k # 0 /\ proc[p] \in Record(k)
      BY <1>0 DEF Record
    <3> HIDE DEF k
    <3>2. [proc[p] EXCEPT !.stage = "writing", !.key = k] \in Record(k)
      BY <3>1 DEF Record, Stages
    <3>3. /\ [proc[p] EXCEPT !.stage = "writing", !.key = k].stage = "writing"
          /\ [proc[p] EXCEPT !.stage = "writing", !.key = k].key = k
      BY <3>1 DEF Record
    <3> QED BY <3>1, <3>2, <3>3 DEF k
  <2>3. proc' = [proc EXCEPT ![p] = r]
    BY <1>3 DEF Generate, KeysTyped
  <2> HIDE DEF r
  <2>4. made' <= MaxKeys /\ stops' \in 0..MaxStops
    BY <1>0, <2>1
  <2> QED BY <1>0, <2>1, <2>2, <2>3, <2>4, RecordStep
<1>4. ASSUME NEW p \in Procs, NEW whole \in BOOLEAN, Fill(p, whole) PROVE Goal
  <2> DEFINE r == [proc[p] EXCEPT !.stage = "loaded"]
  <2>1. /\ proc' = [proc EXCEPT ![p] = r]
        /\ keys' = IF whole THEN proc[p].key ELSE Torn
        /\ UNCHANGED <<secretFile, secretEnv, made, stops, raced>>
    BY <1>4 DEF Fill
  <2>2. proc[p].key \in 1..made
    BY <1>0, <1>4 DEF Fill, KeysTyped, Record
  <2>3. r \in Record(made) /\ r.stage = "loaded" /\ r.key # 0
    BY <1>0, <2>2 DEF Record, Stages
  <2> HIDE DEF r
  <2> QED BY <1>0, <2>1, <2>2, <2>3, RecordStep
<1>5. ASSUME NEW p \in Procs, Serve(p) PROVE Goal
  <2>1. JwtSecret \in Secrets /\
        (secretEnv = NoSecret => JwtSecret \in {NoFile, Empty, "generated"})
    BY DEF JwtSecret, Secrets, KeysTyped
  <2> DEFINE r == [proc[p] EXCEPT !.stage = "up",
                                  !.secret = IF p = "auth" THEN JwtSecret ELSE @]
  <2>2. /\ proc' = [proc EXCEPT ![p] = r] /\ proc[p].stage = "loaded"
        /\ UNCHANGED <<keys, secretEnv, made, stops, raced>>
    BY <1>5 DEF Serve, KeysTyped
  <2>3. secretFile' \in {NoFile, Empty, "generated"}
    BY <1>0, <1>5, <2>1 DEF Serve
  <2>4. proc[p].key # 0 /\ proc[p] \in Record(made)
    BY <1>0, <2>2 DEF KeysTyped
  <2>5. r \in Record(made) /\ r.stage = "up" /\ r.key # 0
    BY <2>1, <2>4 DEF Record, Stages
  <2> HIDE DEF r
  <2> QED BY <1>0, <2>2, <2>3, <2>5, RecordStep
<1>6. ASSUME NEW p \in Procs, Stop(p) PROVE Goal
  <2>1. /\ proc' = [proc EXCEPT ![p] = Down] /\ stops' = stops + 1 /\ stops < MaxStops
        /\ UNCHANGED <<keys, secretFile, secretEnv, made, raced>>
    BY <1>6 DEF Stop
  <2>2. stops' \in 0..MaxStops
    BY <1>0, <2>1
  <2> QED BY <1>0, <1>a, <2>1, <2>2, RecordStep
<1>7. ASSUME StopInSecret PROVE Goal
  <2>1. /\ proc' = [proc EXCEPT !["auth"] = Down] /\ stops' = stops + 1 /\ stops < MaxStops
        /\ secretFile' = Empty /\ UNCHANGED <<keys, secretEnv, made, raced>>
    BY <1>7 DEF StopInSecret
  <2>2. "auth" \in Procs
    BY DEF Procs
  <2>3. stops' \in 0..MaxStops
    BY <1>0, <2>1
  <2> QED BY <1>0, <1>a, <2>1, <2>2, <2>3, RecordStep
<1>8. Goal
  BY <1>1, <1>2, <1>3, <1>4, <1>5, <1>6, <1>7 DEF KeyStep
<1>9. AccountSealed'
  BY <1>0, <1>8 DEF AccountSealed
<1> QED BY <1>8, <1>9

LEMMA KeyStepAgrees ==
  ASSUME KeysTyped, KeysAgree, KeyStep, account' = account
  PROVE  KeysAgree' /\ (~ raced /\ keys \in Nat => keys' = keys)
<1> USE KeyStoreAssumption
<1>0. /\ keys \in Nat \/ keys = NoFile \/ keys = Torn
      /\ made \in Nat /\ \A p \in Procs : proc[p].key \in Nat
  BY DEF KeysTyped
<1> DEFINE Goal == KeysAgree' /\ (~ raced /\ keys \in Nat => keys' = keys)
<1>1. ASSUME NEW p \in Procs, Begin(p) PROVE Goal
  <2>1. /\ proc[p].stage = "down" /\ keys' = keys
        /\ proc'[p].stage = IF keys = NoFile THEN "generating" ELSE "reading"
        /\ \A q \in Procs \ {p} : proc'[q] = proc[q]
        /\ raced' = (raced \/ (keys = NoFile /\ \E q \in Procs : proc[q].stage = "generating"))
    BY <1>1 DEF Begin, KeysTyped
  <2>2. CASE keys = NoFile
    <3>1. raced' = (raced \/ \E q \in Procs : proc[q].stage = "generating")
      BY <2>1, <2>2
    <3>2. ASSUME ~ raced' PROVE KeysAgree'
      <4>1. /\ ~ raced /\ account = NoAccount /\ \A q \in Procs : proc[q].stage = "down"
        BY <2>2, <3>1, <3>2 DEF KeysAgree
      <4>2. /\ account' = NoAccount /\ keys' = NoFile
            /\ \A q \in Procs : proc'[q].stage = IF q = p THEN "generating" ELSE "down"
        BY <2>1, <2>2, <4>1
      <4> QED BY <4>2 DEF KeysAgree
    <3> QED BY <2>1, <3>2 DEF KeysAgree
  <2>3. CASE keys # NoFile
    <3>1. proc'[p].stage = "reading" /\ (raced' => raced)
      BY <2>1, <2>3
    <3> QED BY <1>0, <2>1, <2>3, <3>1 DEF KeysAgree
  <2> QED BY <2>2, <2>3
<1>2. ASSUME NEW p \in Procs, Read(p) PROVE Goal
  <2>1. /\ proc[p].stage = "reading" /\ keys' = keys /\ raced' = raced
        /\ proc'[p] = IF keys = Torn THEN Down
                      ELSE [stage |-> "loaded", key |-> keys, secret |-> NoSecret]
        /\ \A q \in Procs \ {p} : proc'[q] = proc[q]
    BY <1>2 DEF Read, KeysTyped
  <2>2. keys = Torn => proc'[p].stage = "down"
    BY <2>1 DEF Down
  <2>3. keys # Torn => proc'[p].stage = "loaded" /\ proc'[p].key = keys
    BY <2>1
  <2>4. keys # NoFile
    BY <2>1 DEF KeysTyped
  <2> HIDE DEF Goal
  <2> QED BY <1>0, <2>1, <2>2, <2>3, <2>4 DEF KeysAgree, Goal
<1>3. ASSUME NEW p \in Procs, Generate(p) PROVE Goal
  <2>1. /\ proc[p].stage = "generating" /\ keys' = Torn /\ raced' = raced
        /\ proc'[p].stage = "writing"
        /\ \A q \in Procs \ {p} : proc'[q] = proc[q]
    BY <1>3 DEF Generate, KeysTyped
  <2> QED BY <1>0, <2>1 DEF KeysAgree
<1>4. ASSUME NEW p \in Procs, NEW whole \in BOOLEAN, Fill(p, whole) PROVE Goal
  <2>1. /\ proc[p].stage = "writing" /\ raced' = raced
        /\ whole \/ keys # Torn
        /\ keys' = IF whole THEN proc[p].key ELSE Torn
        /\ proc'[p].stage = "loaded" /\ proc'[p].key = proc[p].key
        /\ \A q \in Procs \ {p} : proc'[q] = proc[q]
    BY <1>4 DEF Fill, KeysTyped
  <2>2. ASSUME ~ raced PROVE keys = Torn /\ keys' = proc[p].key
    BY <1>0, <2>1, <2>2 DEF KeysAgree
  <2> QED BY <1>0, <2>1, <2>2 DEF KeysAgree
<1>5. ASSUME NEW p \in Procs, Serve(p) PROVE Goal
  <2>1. /\ proc[p].stage = "loaded" /\ keys' = keys /\ raced' = raced
        /\ proc'[p].stage = "up" /\ proc'[p].key = proc[p].key
        /\ \A q \in Procs \ {p} : proc'[q] = proc[q]
    BY <1>5 DEF Serve, KeysTyped
  <2> QED BY <1>0, <2>1 DEF KeysAgree
<1>6. ASSUME NEW p \in Procs, Stop(p) \/ (StopInSecret /\ p = "auth") PROVE Goal
  <2>1. /\ keys' = keys /\ raced' = raced
        /\ proc'[p] = Down
        /\ \A q \in Procs \ {p} : proc'[q] = proc[q]
    BY <1>6 DEF Stop, StopInSecret, KeysTyped
  <2> QED BY <1>0, <2>1 DEF KeysAgree, Down
<1>7. StopInSecret => "auth" \in Procs
  BY DEF Procs
<1> QED BY <1>1, <1>2, <1>3, <1>4, <1>5, <1>6, <1>7 DEF KeyStep

LEMMA KeyStepKeepsSecret ==
  ASSUME KeysTyped, SecretKept, KeyStep, token' = token
  PROVE  SecretKept'
<1> USE KeyStoreAssumption
<1>0. "auth" \in Procs
  BY DEF Procs
<1>1. ASSUME NEW p \in Procs, ~ Serve(p),
             Begin(p) \/ Read(p) \/ Generate(p) \/ Stop(p) \/ \E whole \in BOOLEAN : Fill(p, whole)
      PROVE  SecretKept'
  <2>0. \A q \in Procs : proc[q].stage \in Stages /\ DOMAIN proc[q] = {"stage", "key", "secret"}
    BY DEF KeysTyped
  <2>1. UNCHANGED <<secretFile, secretEnv>>
    BY <1>1 DEF Begin, Read, Generate, Stop, Fill
  <2>2. proc'["auth"] = proc["auth"] \/ proc'["auth"].stage # "up"
    <3>1. CASE Begin(p) \/ \E whole \in BOOLEAN : Fill(p, whole)
      BY <1>0, <2>0, <3>1 DEF Begin, Fill, KeysTyped
    <3>2. CASE Read(p) \/ Stop(p)
      <4>1. Down.stage = "down"
        BY DEF Down
      <4> QED BY <1>0, <3>2, <4>1 DEF Read, Stop, KeysTyped
    <3>3. CASE Generate(p)
      BY <1>0, <2>0, <3>3 DEF Generate, KeysTyped
    <3> QED BY <1>1, <3>1, <3>2, <3>3
  <2> QED BY <2>1, <2>2 DEF SecretKept, CurrentSecret
<1>2. CASE Serve("admin")
  <2>1. UNCHANGED <<secretFile, secretEnv>> /\ proc'["auth"] = proc["auth"]
    BY <1>0, <1>2 DEF Serve, KeysTyped
  <2> QED BY <2>1 DEF SecretKept, CurrentSecret
<1>3. CASE Serve("auth")
  <2>1. /\ secretEnv' = secretEnv
        /\ proc'["auth"].secret = JwtSecret
        /\ secretFile' = IF secretEnv = NoSecret THEN JwtSecret ELSE secretFile
    BY <1>0, <1>3 DEF Serve, KeysTyped
  <2>2. JwtSecret = CurrentSecret'
    BY <2>1 DEF JwtSecret, CurrentSecret
  <2>3. secretEnv = NoSecret => secretFile' # NoFile
    BY <2>1, KeyStoreAssumption DEF JwtSecret
  <2>4. token # NoToken => CurrentSecret' = CurrentSecret
    BY <2>1 DEF SecretKept, CurrentSecret, JwtSecret
  <2> QED BY <2>1, <2>2, <2>3, <2>4 DEF SecretKept
<1>4. CASE StopInSecret
  <2>1. /\ secretEnv' = secretEnv /\ secretEnv = NoSecret /\ secretFile = NoFile
        /\ proc'["auth"].stage # "up"
    BY <1>0, <1>4 DEF StopInSecret, KeysTyped, Down
  <2> QED BY <2>1 DEF SecretKept
<1>5. \A p \in Procs : p = "auth" \/ p = "admin"
  BY DEF Procs
<1>6. ASSUME NEW p \in Procs, Serve(p) PROVE SecretKept'
  BY <1>2, <1>3, <1>5, <1>6
<1> QED BY <1>1, <1>4, <1>6 DEF KeyStep

-----------------------------------------------------------------------------
(* The gateway's process and its requests.                                 *)

LEMMA ServicesAre == \A s \in Services : s = "auth" \/ s = "admin" \/ s = "custodian"
BY DEF Services

LEMMA StartPlaces ==
  ASSUME Start PROVE ClientsPlaced'
<1> DEFINE addrs == Backend(file, env)
<1>1. gw' = [stage |-> "starting", left |-> <<"auth", "admin", "custodian">>,
             reloads |-> file # Unreadable, current |-> addrs, channel |-> addrs]
  BY DEF Start
<1>2. addrs = [s \in Services |-> addrs[s]]
  BY DEF Backend, ResolveBackendAddrs, FromRegistry
<1> HIDE DEF addrs
<1> QED BY <1>1, <1>2 DEF ClientsPlaced

LEMMA ConnectPlaces ==
  ASSUME ClientsPlaced, Connect PROVE ClientsPlaced' /\ stuck' = {}
<1> DEFINE s == Head(gw.left)
           ok == Endpoint(gw.channel[s], pem) /\ Listens(s, gw.channel[s])
<1>0. stuck' = {} /\ gw.stage = "starting"
  BY DEF Connect
<1>1. gw' = IF ~ ok THEN Offline
            ELSE IF Len(gw.left) > 1 THEN [gw EXCEPT !.left = Tail(@)]
            ELSE IF JwtSecretFromEnv(secret) THEN [gw EXCEPT !.stage = "up", !.left = << >>]
            ELSE Offline
  BY DEF Connect
<1>2. ok => gw.channel[s] \notin Malformed
  BY DEF Endpoint
<1>3. /\ gw = [stage |-> gw.stage, left |-> gw.left, reloads |-> gw.reloads,
               current |-> gw.current, channel |-> gw.channel]
      /\ gw.current = [x \in Services |-> gw.current[x]]
      /\ gw.channel = [x \in Services |-> gw.channel[x]]
      /\ gw.channel = gw.current
      /\ \/ gw.left = <<"auth", "admin", "custodian">>
         \/ gw.left = <<"admin", "custodian">> /\ gw.channel["auth"] \notin Malformed
         \/ /\ gw.left = <<"custodian">>
            /\ gw.channel["auth"] \notin Malformed /\ gw.channel["admin"] \notin Malformed
  BY <1>0 DEF ClientsPlaced, Offline
<1>4. /\ gw.left = <<"auth", "admin", "custodian">> =>
           s = "auth" /\ Len(gw.left) > 1 /\ Tail(gw.left) = <<"admin", "custodian">>
      /\ gw.left = <<"admin", "custodian">> =>
           s = "admin" /\ Len(gw.left) > 1 /\ Tail(gw.left) = <<"custodian">>
      /\ gw.left = <<"custodian">> => s = "custodian" /\ ~ (Len(gw.left) > 1)
  <2>1. ASSUME gw.left = <<"auth", "admin", "custodian">>
        PROVE  s = "auth" /\ Len(gw.left) > 1 /\ Tail(gw.left) = <<"admin", "custodian">>
    BY <2>1
  <2>2. ASSUME gw.left = <<"admin", "custodian">>
        PROVE  s = "admin" /\ Len(gw.left) > 1 /\ Tail(gw.left) = <<"custodian">>
    BY <2>2
  <2>3. ASSUME gw.left = <<"custodian">>
        PROVE  s = "custodian" /\ ~ (Len(gw.left) > 1)
    BY <2>3
  <2> QED BY <2>1, <2>2, <2>3
<1> HIDE DEF s, ok
<1>5. CASE gw' = Offline
  BY <1>0, <1>5 DEF ClientsPlaced
<1>6. CASE ok /\ Len(gw.left) > 1
  <2>1. gw' = [stage |-> "starting", left |-> Tail(gw.left), reloads |-> gw.reloads,
               current |-> gw.current, channel |-> gw.channel]
    BY <1>0, <1>1, <1>3, <1>6
  <2>2. \/ Tail(gw.left) = <<"admin", "custodian">> /\ gw.channel["auth"] \notin Malformed
        \/ /\ Tail(gw.left) = <<"custodian">>
           /\ gw.channel["auth"] \notin Malformed /\ gw.channel["admin"] \notin Malformed
    BY <1>2, <1>3, <1>4, <1>6
  <2> QED BY <1>0, <1>3, <2>1, <2>2 DEF ClientsPlaced
<1>7. CASE ok /\ ~ (Len(gw.left) > 1) /\ gw' # Offline
  <2>1. gw' = [stage |-> "up", left |-> << >>, reloads |-> gw.reloads,
               current |-> gw.current, channel |-> gw.channel]
    BY <1>1, <1>3, <1>7
  <2>2. \A x \in Services : gw.channel[x] \notin Malformed
    BY <1>2, <1>3, <1>4, <1>7, ServicesAre
  <2> QED BY <1>0, <1>3, <2>1, <2>2 DEF ClientsPlaced
<1> QED BY <1>1, <1>5, <1>6, <1>7

LEMMA ReloadPlaces ==
  ASSUME ClientsPlaced, Reload PROVE ClientsPlaced' /\ stuck' \subseteq Services
<1> DEFINE r == ReloadOnce(file, env, gw.current, gw.channel, pem)
<1>1. /\ gw.stage = "up"
      /\ gw' = [gw EXCEPT !.current = r.current, !.channel = r.channel]
      /\ stuck' = {s \in Services : IF r.current[s] = gw.current[s] THEN s \in stuck
                                    ELSE ~ Endpoint(r.current[s], pem)}
  BY DEF Reload
<1>2. /\ gw = [stage |-> gw.stage, left |-> gw.left, reloads |-> gw.reloads,
               current |-> gw.current, channel |-> gw.channel]
      /\ gw.current = [s \in Services |-> gw.current[s]]
      /\ gw.channel = [s \in Services |-> gw.channel[s]]
      /\ \A s \in Services : gw.channel[s] \notin Malformed
      /\ \A s \in Services : gw.channel[s] = gw.current[s] \/ s \in stuck
  BY <1>1 DEF ClientsPlaced, Offline
<1>3. /\ r.current = [s \in Services |-> r.current[s]]
      /\ r.channel = [s \in Services |-> r.channel[s]]
      /\ \A s \in Services :
           r.channel[s] = IF gw.current[s] # r.current[s] /\ Endpoint(r.current[s], pem)
                          THEN r.current[s] ELSE gw.channel[s]
  <2>1. CASE file = Unreadable
    BY <1>2, <2>1 DEF ReloadOnce
  <2>2. CASE file # Unreadable
    <3>1. FromRegistry(file, env) = [s \in Services |-> FromRegistry(file, env)[s]]
      BY DEF FromRegistry
    <3> QED BY <2>2, <3>1 DEF ReloadOnce, ApplyChanges
  <2> QED BY <2>1, <2>2
<1> HIDE DEF r
<1>4. gw' = [stage |-> "up", left |-> gw.left, reloads |-> gw.reloads,
             current |-> r.current, channel |-> r.channel]
  BY <1>1, <1>2
<1>5. \A s \in Services : r.channel[s] \notin Malformed
  BY <1>2, <1>3 DEF Endpoint
<1>6. \A s \in Services : r.channel[s] = r.current[s] \/ s \in stuck'
  BY <1>1, <1>2, <1>3
<1> QED BY <1>1, <1>3, <1>4, <1>5, <1>6 DEF ClientsPlaced

LEMMA RequestPlaces ==
  ASSUME NEW name \in DOMAIN Callees, Request(name) PROVE RequestPlaced'
<1>1. CASE name \in Protected /\ ~ AuthMiddleware(token)
  <2>1. request' = [route |-> name, http |-> 401, signed |-> token]
    BY <1>1 DEF Request
  <2>2. secret' = secret
    BY DEF Request, operator
  <2> QED BY <1>1, <2>1, <2>2 DEF RequestPlaced, AuthMiddleware
<1>2. CASE ~ (name \in Protected /\ ~ AuthMiddleware(token))
  <2>1. request' = [route |-> name, http |-> 0,
                    to |-> [s \in Callees[name] |-> gw.channel[s]], got |-> << >>]
    BY <1>2 DEF Request
  <2> QED BY <2>1 DEF RequestPlaced
<1> QED BY <1>1, <1>2

LEMMA CalleesAre ==
  /\ DOMAIN Callees = {"login", "create_user", "get_user", "update_user", "delete_user",
                     "list_users", "health"}
  /\ Callees["login"] = {"auth"}
  /\ \A name \in {"create_user", "update_user", "delete_user"} : Callees[name] = {"admin"}
BY DEF Callees

LEMMA ReplyKeeps ==
  ASSUME GatewayInv, NEW s \in Services, Reply(s) PROVE GatewayInv'
<1> DEFINE name == request.route
           outcome == Outcome(name, s)
           got == [x \in DOMAIN request.got \cup {s} |->
                     IF x = s THEN outcome ELSE request.got[x]]
           http == IF DOMAIN got # DOMAIN request.to THEN 0
                   ELSE IF name = "health" THEN HealthStatus(got)
                   ELSE IF outcome = "Ok" THEN Success[name] ELSE ApiError(outcome)
<1>1. /\ request.http = 0 /\ s \in DOMAIN request.to
      /\ request' = IF http = 0 THEN [request EXCEPT !.got = got]
                    ELSE [route |-> name, http |-> http, to |-> request.to]
      /\ token' = IF name = "login" /\ outcome = "Ok" THEN proc["auth"].secret ELSE token
      /\ account' =
           IF name \in {"create_user", "update_user", "delete_user"} /\ outcome = "Ok"
           THEN Seal("profile", proc["admin"].key) ELSE account
      /\ UNCHANGED <<keyVars, operator, gw, custodian, stuck>>
  BY DEF Reply
<1>2. /\ name \in DOMAIN Callees
      /\ request = [route |-> name, http |-> 0, to |-> request.to, got |-> request.got]
      /\ DOMAIN request.to = Callees[name]
  BY <1>1 DEF GatewayInv, RequestPlaced, NoRequest
<1>3. outcome = "Ok" => Answers(s)
  BY DEF Outcome, Listens
<1>4. name = "login" => s = "auth"
  BY <1>1, <1>2, CalleesAre
<1>5. name \in {"create_user", "update_user", "delete_user"} => s = "admin"
  BY <1>1, <1>2, CalleesAre
<1>6. /\ name = "login" /\ outcome = "Ok" => proc["auth"].stage = "up"
      /\ name \in {"create_user", "update_user", "delete_user"} /\ outcome = "Ok" =>
           proc["admin"].stage = "up"
  BY <1>3, <1>4, <1>5 DEF Answers
<1>7. name \in Protected => http # 401
  <2>1. ASSUME name \in Protected
        PROVE  /\ outcome \in {"Unavailable", "Ok", "NotFound", "Internal"}
               /\ Success[name] \in {200, 204} /\ name # "health"
    BY <2>1 DEF Outcome, Protected, Success
  <2>2. ApiError("Unavailable") = 503 /\ ApiError("NotFound") = 404 /\ ApiError("Internal") = 500
    BY DEF ApiError
  <2> HIDE DEF outcome
  <2> QED BY <2>1, <2>2
<1> HIDE DEF http, got, outcome
<1>8. RequestPlaced'
  <2>1. CASE http = 0
    <3>1. request' = [route |-> name, http |-> 0, to |-> request.to, got |-> got]
      BY <1>1, <1>2, <2>1
    <3> QED BY <1>2, <3>1 DEF RequestPlaced
  <2>2. CASE http # 0
    <3>1. request' = [route |-> name, http |-> http, to |-> request.to]
      BY <1>1, <2>2
    <3> QED BY <1>2, <1>7, <2>2, <3>1 DEF RequestPlaced
  <2> QED BY <2>1, <2>2
<1>9. KeysTyped' /\ ClientsPlaced' /\ OperatorsTyped'
  BY <1>1 DEF GatewayInv, KeysTyped, ClientsPlaced, OperatorsTyped, keyVars, operator
<1>10. UNCHANGED <<keys, secretFile, secretEnv, proc, made, raced>>
  BY <1>1 DEF keyVars
<1>11. SecretKept'
  <2>1. token' = token \/ (token' = proc["auth"].secret /\ proc["auth"].stage = "up")
    BY <1>1, <1>6
  <2> QED BY <1>10, <2>1 DEF GatewayInv, SecretKept, CurrentSecret
<1>12. account' = account \/
         (proc["admin"].stage = "up" /\ account' = [kem |-> proc["admin"].key, body |-> "profile"])
  BY <1>1, <1>6 DEF Seal
<1>13. "admin" \in Procs /\ proc["admin"].stage = "up" => proc["admin"].key \in 1..made
  BY DEF GatewayInv, KeysTyped, Procs
<1>14. AccountSealed'
  BY <1>10, <1>12, <1>13 DEF GatewayInv, AccountSealed, Procs
<1>15. KeysAgree'
  <2>1. CASE account' = account
    BY <1>10, <2>1 DEF GatewayInv, KeysAgree
  <2>2. CASE /\ proc["admin"].stage = "up"
             /\ account' = [kem |-> proc["admin"].key, body |-> "profile"]
    <3>1. account'.kem = proc["admin"].key /\ "admin" \in Procs
      BY <2>2 DEF Procs
    <3>2. keys \in Nat \/ keys = NoFile \/ keys = Torn
      BY DEF GatewayInv, KeysTyped
    <3> QED BY <1>10, <2>2, <3>1, <3>2, KeyStoreAssumption DEF GatewayInv, KeysAgree
  <2> QED BY <1>12, <2>1, <2>2
<1> QED BY <1>8, <1>9, <1>11, <1>14, <1>15 DEF GatewayInv

-----------------------------------------------------------------------------
LEMMA GatewayNextInv == GatewayInv /\ [Next]_vars => GatewayInv'
<1> SUFFICES ASSUME GatewayInv, [Next]_vars PROVE GatewayInv'
  OBVIOUS
<1> USE DEF GatewayInv
\* What the services' stores and the account rest on is unchanged.
<1>1. ASSUME UNCHANGED <<keyVars, account, token>>
      PROVE  KeysTyped' /\ AccountSealed' /\ KeysAgree' /\ SecretKept'
  BY <1>1 DEF keyVars, KeysTyped, AccountSealed, KeysAgree, SecretKept, CurrentSecret
<1>2. ASSUME UNCHANGED <<gw, stuck>> PROVE ClientsPlaced'
  BY <1>2 DEF ClientsPlaced
<1>3. ASSUME UNCHANGED <<request, secret>> PROVE RequestPlaced'
  BY <1>3 DEF RequestPlaced
<1>4. ASSUME UNCHANGED <<operator, custodian>>, stuck' \subseteq Services PROVE OperatorsTyped'
  BY <1>4 DEF OperatorsTyped, operator
<1>5. ASSUME NEW content \in Registries \cup {Unreadable}, Edit(content) PROVE GatewayInv'
  BY <1>1, <1>2, <1>3, <1>5 DEF Edit, OperatorsTyped
<1>6. CASE RenewPem
  BY <1>1, <1>2, <1>3, <1>6 DEF RenewPem, OperatorsTyped
<1>7. CASE BackendStep
  <2>1. KeyStep /\ UNCHANGED <<operator, gw, custodian, account, token, request, stuck>>
    BY <1>7 DEF BackendStep
  <2>2. secret' = secret
    BY <2>1 DEF operator
  <2>3. KeysTyped' /\ AccountSealed'
    BY <2>1, KeyStepTypes
  <2>4. KeysAgree' /\ SecretKept'
    BY <2>1, KeyStepAgrees, KeyStepKeepsSecret
  <2> QED BY <1>2, <1>3, <1>4, <2>1, <2>2, <2>3, <2>4 DEF OperatorsTyped
<1>8. CASE StartCustodian
  BY <1>1, <1>2, <1>3, <1>8 DEF StartCustodian, OperatorsTyped, operator
<1>9. CASE Start
  <2>1. UNCHANGED <<keyVars, operator, custodian, account, token, request, stuck>>
    BY <1>9 DEF Start
  <2>2. secret' = secret
    BY <2>1 DEF operator
  <2> QED BY <1>1, <1>3, <1>4, <1>9, <2>1, <2>2, StartPlaces DEF OperatorsTyped
<1>10. CASE Connect
  <2>1. UNCHANGED <<keyVars, operator, custodian, account, token, request>>
    BY <1>10 DEF Connect
  <2>2. secret' = secret
    BY <2>1 DEF operator
  <2> QED BY <1>1, <1>3, <1>4, <1>10, <2>1, <2>2, ConnectPlaces
<1>11. CASE Reload
  <2>1. UNCHANGED <<keyVars, operator, custodian, account, token, request>>
    BY <1>11 DEF Reload
  <2>2. secret' = secret
    BY <2>1 DEF operator
  <2> QED BY <1>1, <1>3, <1>4, <1>11, <2>1, <2>2, ReloadPlaces
<1>12. ASSUME NEW name \in DOMAIN Callees, Request(name) PROVE GatewayInv'
  <2>1. UNCHANGED <<keyVars, operator, gw, custodian, account, token, stuck>>
    BY <1>12 DEF Request
  <2> QED BY <1>1, <1>2, <1>4, <1>12, <2>1, RequestPlaces DEF OperatorsTyped
<1>13. ASSUME NEW s \in Services, Reply(s) PROVE GatewayInv'
  BY <1>13, ReplyKeeps
<1>14. CASE UNCHANGED vars
  BY <1>1, <1>2, <1>3, <1>4, <1>14 DEF vars, operator, OperatorsTyped
<1> QED
  BY <1>5, <1>6, <1>7, <1>8, <1>9, <1>10, <1>11, <1>12, <1>13, <1>14 DEF Next

LEMMA GatewayInvariant == Spec => []GatewayInv
BY GatewayInitInv, GatewayNextInv, PTL DEF Spec

\* The gateway's state is well-formed, and a running gateway has no client at an address
\* that is no URI (apply_changes keeps a channel if no endpoint can be built).
THEOREM GatewayTypeCorrect == Spec => []TypeOK
<1>1. GatewayInv => TypeOK
  <2> SUFFICES ASSUME GatewayInv PROVE TypeOK
    OBVIOUS
  <2>1. KeyTypeOK
    BY KeyStoreAssumption DEF GatewayInv, KeysTyped, KeyTypeOK
  <2>2. gw.stage \in {"down", "starting", "up"} /\
        (gw.stage = "up" => \A s \in Services : gw.channel[s] \notin Malformed)
    BY DEF GatewayInv, ClientsPlaced, Offline
  <2>3. account = NoAccount \/ account.kem \in 1..made
    BY DEF GatewayInv, AccountSealed
  <2>4. request = NoRequest \/ request.route \in DOMAIN Callees
    BY DEF GatewayInv, RequestPlaced
  <2> QED BY <2>1, <2>2, <2>3, <2>4 DEF GatewayInv, OperatorsTyped, TypeOK
<1> QED BY <1>1, GatewayInvariant, PTL

\* Every client of a running gateway is where the reload loop believes it to be, unless
\* its last redirection failed (reload_once).
THEOREM ClientsFollowTheLoop == Spec => []RoutesAreCurrent
<1>1. GatewayInv => RoutesAreCurrent
  BY DEF GatewayInv, ClientsPlaced, Offline, RoutesAreCurrent
<1> QED BY <1>1, GatewayInvariant, PTL

\* What admin sealed, every running auth or admin can open, whatever stopped and started
\* again, unless two services once looked for the key file while there was none.
THEOREM AccountsStayReadable == Spec => []AccountsReadable
<1>1. GatewayInv => AccountsReadable
  <2> SUFFICES ASSUME GatewayInv, account # NoAccount, NEW p \in Procs,
                      proc[p].stage = "up", ~ raced
               PROVE  Open(account, proc[p].key) # Undecrypted
    BY DEF AccountsReadable
  <2>1. keys \in Nat \/ keys = NoFile \/ keys = Torn
    BY DEF GatewayInv, KeysTyped
  <2>2. account.kem = keys /\ proc[p].key = keys
    BY <2>1 DEF GatewayInv, KeysAgree
  <2>3. account = [kem |-> account.kem, body |-> "profile"]
    BY DEF GatewayInv, AccountSealed
  <2>4. account.body = "profile"
    BY <2>3
  <2>5. account.body # Undecrypted
    BY <2>4, GatewayAssumption
  <2> QED BY <2>2, <2>5 DEF Open
<1> QED BY <1>1, GatewayInvariant, PTL

\* Restarts of auth do not end sessions, even if one falls into the write of jwt.secret,
\* and the gateway refuses no token that its own secret signed.
THEOREM TokensRemainValid == Spec => []TokensStayValid
<1>1. GatewayInv => TokensStayValid
  <2> SUFFICES ASSUME GatewayInv PROVE TokensStayValid
    OBVIOUS
  <2>1. request.route \in Protected /\ request.http = 401 => request.signed # secret
    BY DEF GatewayInv, RequestPlaced, NoRequest, Protected
  <2> QED BY <2>1 DEF GatewayInv, SecretKept, TokensStayValid
<1> QED BY <1>1, GatewayInvariant, PTL

\* A whole key file is replaced only after two services looked for it at once.
THEOREM KeyFileIsKept == Spec => KeyFileKept
<1> DEFINE Kept == (keys \in 1..MaxKeys /\ keys' # keys) => raced
<1>1. GatewayInv /\ [Next]_vars => [Kept]_vars
  <2> SUFFICES ASSUME GatewayInv, Next, keys \in 1..MaxKeys, ~ raced PROVE keys' = keys
    OBVIOUS
  <2>1. CASE BackendStep
    BY <2>1, KeyStepAgrees, KeyStoreAssumption DEF GatewayInv, BackendStep
  <2>2. CASE ~ BackendStep
    BY <2>2 DEF Next, Edit, RenewPem, StartCustodian, Start, Connect, Reload, Request, Reply,
                keyVars
  <2> QED BY <2>1, <2>2
<1>2. Spec => [][Kept]_vars
  BY <1>1, GatewayInvariant, PTL DEF Spec
<1> QED BY <1>2 DEF KeyFileKept

=============================================================================
