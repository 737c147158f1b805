------------------------------ MODULE KeyStore ------------------------------
(***************************************************************************)
(* The start of the auth and the admin service up to their key pair        *)
(* (shared/src/key_store.rs) and the auth service's JWT secret             *)
(* (auth/src/main.rs).  They may share one STORAGE_PATH, and nothing keeps *)
(* two of them from starting at the same time.  fs::write creates or       *)
(* truncates the file and then fills it.                                   *)
(*                                                                         *)
(* Key pairs and generated secrets are numbered in the order in which they *)
(* are made; the numbers name what is new, no more.                        *)
(***************************************************************************)
EXTENDS Integers

CONSTANTS
  NoFile,     \* the file is not there
  Torn,       \* the file is there, and not whole
  Empty,      \* the empty JWT secret
  EnvSecrets, \* what JWT_SECRET may be for the auth service
  NoSecret,   \* JWT_SECRET is not set
  MaxKeys,    \* bound on the key pairs that are made
  MaxStops    \* bound on the processes that stop

ASSUME KeyStoreAssumption ==
  /\ MaxKeys \in Nat
  /\ MaxStops \in Nat
  /\ NoFile \notin Nat /\ Torn \notin Nat /\ NoFile # Torn
  /\ NoFile # "generated"

Procs == {"auth", "admin"}

VARIABLES
  keys,       \* keys.bin in the shared storage path
  secretFile, \* jwt.secret there
  secretEnv,  \* the auth service's JWT_SECRET
  proc,       \* proc[p]: how far p has started, its key pair, its secret
  made,       \* the number of key pairs made so far
  stops,      \* counted for the bound
  raced       \* history: a service found no key file while another was making one

keyVars == <<keys, secretFile, secretEnv, proc, made, stops, raced>>

Down == [stage |-> "down", key |-> 0, secret |-> NoSecret]

Stages == {"down", "reading", "generating", "writing", "loaded", "up"}

\* The key file, the secret and the processes that use them.
KeyTypeOK ==
  /\ keys \in 1..MaxKeys \cup {NoFile, Torn}
  /\ secretFile \in {NoFile, Empty, "generated"}
  /\ secretEnv \in EnvSecrets
  /\ \A p \in Procs :
       /\ proc[p].stage \in Stages
       /\ proc[p].key \in 0..MaxKeys
       /\ proc[p].stage \in {"loaded", "up"} => proc[p].key # 0
  /\ made \in 0..MaxKeys
  /\ stops \in 0..MaxStops
  /\ raced \in BOOLEAN

KeyInit ==
  /\ keys = NoFile
  /\ secretFile = NoFile
  /\ secretEnv \in EnvSecrets
  /\ proc = [p \in Procs |-> Down]
  /\ made = 0
  /\ stops = 0
  /\ raced = FALSE

\* Variant: the file is written without a look at what is there.
BeginAnew(p) ==
  /\ proc[p].stage = "down"
  /\ proc' = [proc EXCEPT ![p].stage = "generating"]
  /\ UNCHANGED <<keys, secretFile, secretEnv, made, stops, raced>>

\* load_or_generate_keypair looks for the file.
Begin(p) ==
  /\ proc[p].stage = "down"
  /\ proc' = [proc EXCEPT ![p].stage = IF keys = NoFile THEN "generating" ELSE "reading"]
  /\ raced' = (raced \/ (keys = NoFile /\ \E q \in Procs : proc[q].stage = "generating"))
  /\ UNCHANGED <<keys, secretFile, secretEnv, made, stops>>

\* Variant: a key file that cannot be read is replaced.
ReadReplacing(p) ==
  /\ proc[p].stage = "reading"
  /\ proc' = [proc EXCEPT ![p] = IF keys = Torn THEN [Down EXCEPT !.stage = "generating"]
                                 ELSE [stage |-> "loaded", key |-> keys, secret |-> NoSecret]]
  /\ UNCHANGED <<keys, secretFile, secretEnv, made, stops, raced>>

\* The file is read; the process ends if it is not whole.
Read(p) ==
  /\ proc[p].stage = "reading"
  /\ proc' = [proc EXCEPT ![p] = IF keys = Torn THEN Down
                                 ELSE [stage |-> "loaded", key |-> keys, secret |-> NoSecret]]
  /\ UNCHANGED <<keys, secretFile, secretEnv, made, stops, raced>>

\* A key pair is generated, and its file created or cut to nothing.
Generate(p) ==
  /\ proc[p].stage = "generating"
  /\ made < MaxKeys
  /\ made' = made + 1
  /\ proc' = [proc EXCEPT ![p].stage = "writing", ![p].key = made + 1]
  /\ keys' = Torn
  /\ UNCHANGED <<secretFile, secretEnv, stops, raced>>

\* The file is filled from its start; what another process wrote there meanwhile
\* may be longer, and then its end remains.
Fill(p, whole) ==
  /\ proc[p].stage = "writing"
  /\ whole \/ keys # Torn
  /\ keys' = IF whole THEN proc[p].key ELSE Torn
  /\ proc' = [proc EXCEPT ![p].stage = "loaded"]
  /\ UNCHANGED <<secretFile, secretEnv, made, stops, raced>>

\* Variant: the secret on disk is made anew with every start.
JwtSecretAnew ==
  IF secretEnv # NoSecret THEN secretEnv
  ELSE IF secretFile = NoFile THEN "generated" ELSE Empty

\* resolve_jwt_secret: the environment's, also an empty one; the file's, whatever is
\* in it; or a new one.
JwtSecret ==
  IF secretEnv # NoSecret THEN secretEnv
  ELSE IF secretFile = NoFile THEN "generated" ELSE secretFile

\* The rest of the start: the auth service's secret, and the DB connection.
Serve(p) ==
  /\ proc[p].stage = "loaded"
  /\ proc' = [proc EXCEPT ![p].stage = "up",
                          ![p].secret = IF p = "auth" THEN JwtSecret ELSE @]
  /\ secretFile' = IF p = "auth" /\ secretEnv = NoSecret THEN JwtSecret ELSE secretFile
  /\ UNCHANGED <<keys, secretEnv, made, stops, raced>>

\* The process ends, at any point of its start or later: it is stopped, or the DB
\* does not answer.
Stop(p) ==
  /\ proc[p].stage # "down"
  /\ stops < MaxStops
  /\ stops' = stops + 1
  /\ proc' = [proc EXCEPT ![p] = Down]
  /\ UNCHANGED <<keys, secretFile, secretEnv, made, raced>>

\* The auth service stops while it writes its secret.
StopInSecret ==
  /\ proc["auth"].stage = "loaded"
  /\ secretEnv = NoSecret
  /\ secretFile = NoFile
  /\ stops < MaxStops
  /\ stops' = stops + 1
  /\ proc' = [proc EXCEPT !["auth"] = Down]
  /\ secretFile' = Empty
  /\ UNCHANGED <<keys, secretEnv, made, raced>>

KeyStep ==
  \/ \E p \in Procs : Begin(p) \/ Read(p) \/ Generate(p) \/ Serve(p) \/ Stop(p)
  \/ \E p \in Procs, whole \in BOOLEAN : Fill(p, whole)
  \/ StopInSecret
=============================================================================
