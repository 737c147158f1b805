------------------------------ MODULE Gateway ------------------------------
(***************************************************************************)
(* The gateway in front of its backends: it starts with the addresses of   *)
(* services.toml or of its environment, follows the file while it runs     *)
(* (Discovery.tla), and passes logins, user administration and health      *)
(* probes on to services that start, stop and share a key file             *)
(* (KeyStore.tla).  A request goes to the address that its client has when *)
(* the request begins.  Console.tla has the ticket routes.                 *)
(*                                                                         *)
(* The auth and the admin service run at the addresses of HostOf; what     *)
(* accounts they keep is reduced to one sealed record (Accounts.tla has    *)
(* the rest).                                                              *)
(***************************************************************************)
EXTENDS Discovery, KeyStore, Encryption, Sequences

CONSTANTS
  Registries,     \* what operators write into services.toml
  FirstFiles,     \* what it may hold at first
  Environments,   \* AUTH_ADDR, ADMIN_ADDR and CUSTODIAN_ADDR of the gateway
  GatewaySecrets, \* JWT_SECRET of the gateway
  HostOf,         \* HostOf[s]: the address where service s runs
  MaxEdits,       \* bound on the edits of services.toml and of the PEM files
  MaxRequests     \* bound on the requests

ASSUME GatewayAssumption ==
  /\ \A reg \in Registries : DOMAIN reg \subseteq Services
  /\ FirstFiles \subseteq Registries \cup {Unreadable}
  /\ HostOf \in [Services -> STRING]
  /\ Blank \in Malformed
  /\ Undecrypted # "profile"
  /\ MaxEdits \in Nat
  /\ MaxRequests \in Nat

VARIABLES
  file,      \* services.toml
  pem,       \* whether the PEM files can be read
  env,       \* the gateway's overrides
  secret,    \* the gateway's JWT_SECRET
  gw,        \* the gateway's process: stage, addresses, channels
  custodian, \* whether the custodian runs
  account,   \* the sealed record of a user, or NoAccount
  token,     \* the secret that signed the last session token, or NoToken
  request,   \* the request that the gateway works on, or answered last
  edits, requests, \* counted for the bounds
  stuck      \* history: the services whose last redirection failed

operator == <<file, pem, env, secret, edits>>
vars == <<keyVars, operator, gw, custodian, account, token, request, requests, stuck>>

NoAccount == [kem |-> 0, body |-> "none"]

NoToken == "none"

Offline == [stage |-> "down"]

\* No request yet; an HTTP status of 0 means that there is no answer yet.
NoRequest == [route |-> "idle", http |-> 200]

\* The services that a route calls.
Callees ==
  [login |-> {"auth"}, create_user |-> {"admin"}, get_user |-> {"admin"},
   update_user |-> {"admin"}, delete_user |-> {"admin"}, list_users |-> {"admin"},
   health |-> {"auth", "custodian"}]

\* The routes behind auth_middleware.
Protected == {"get_user", "update_user", "delete_user", "list_users"}

\* The routes, connections, keys and calls; in particular a connected address is one
\* that parsed (apply_changes, BackendAddrs::from_registry).
TypeOK ==
  /\ KeyTypeOK
  /\ file \in Registries \cup {Unreadable}
  /\ pem \in BOOLEAN
  /\ gw.stage \in {"down", "starting", "up"}
  /\ gw.stage = "up" => \A s \in Services : gw.channel[s] \notin Malformed
  /\ custodian \in BOOLEAN
  /\ account = NoAccount \/ account.kem \in 1..made
  /\ request = NoRequest \/ request.route \in DOMAIN Callees
  /\ stuck \subseteq Services

Init ==
  /\ KeyInit
  /\ file \in FirstFiles
  /\ pem = TRUE
  /\ env \in Environments
  /\ secret \in GatewaySecrets
  /\ gw = Offline
  /\ custodian = FALSE
  /\ account = NoAccount
  /\ token = NoToken
  /\ request = NoRequest
  /\ edits = 0
  /\ requests = 0
  /\ stuck = {}

-----------------------------------------------------------------------------
(* Around the gateway. *)

\* Operators rewrite services.toml, or leave it in a state nobody can read.
Edit(content) ==
  /\ edits < MaxEdits
  /\ content # file
  /\ file' = content
  /\ edits' = edits + 1
  /\ UNCHANGED <<keyVars, pem, env, secret, gw, custodian, account, token, request,
                 requests, stuck>>

\* The PEM files are being renewed, or are back.
RenewPem ==
  /\ pem => edits < MaxEdits
  /\ pem' = ~ pem
  /\ edits' = IF pem THEN edits + 1 ELSE edits
  /\ UNCHANGED <<keyVars, file, env, secret, gw, custodian, account, token, request,
                 requests, stuck>>

BackendStep ==
  /\ KeyStep
  /\ UNCHANGED <<operator, gw, custodian, account, token, request, requests, stuck>>

StartCustodian ==
  /\ ~ custodian
  /\ custodian' = TRUE
  /\ UNCHANGED <<keyVars, operator, gw, account, token, request, requests, stuck>>

Answers(s) == IF s = "custodian" THEN custodian ELSE proc[s].stage = "up"

\* Whether the process that serves s listens at the address.
Listens(s, addr) == addr = HostOf[s] /\ Answers(s)

-----------------------------------------------------------------------------
(* The gateway's process. *)

\* main reads the registry; without one there will be no reloads.
Start ==
  /\ gw.stage = "down"
  /\ LET addrs == Backend(file, env)
     IN  gw' = [stage |-> "starting", left |-> <<"auth", "admin", "custodian">>,
                reloads |-> file # Unreadable, current |-> addrs, channel |-> addrs]
  /\ UNCHANGED <<keyVars, operator, custodian, account, token, request, requests, stuck>>

\* jwt_secret_from_env: a missing or empty secret is an error.
JwtSecretFromEnv(s) == s \notin {NoSecret, Empty}

\* The clients are connected one after the other; a backend that does not answer, or
\* a JWT_SECRET that is not set, ends the process.
Connect ==
  /\ gw.stage = "starting"
  /\ LET s    == Head(gw.left)
         addr == gw.channel[s]
         ok   == Endpoint(addr, pem) /\ Listens(s, addr)
     IN  gw' = IF ~ ok THEN Offline
               ELSE IF Len(gw.left) > 1 THEN [gw EXCEPT !.left = Tail(@)]
               ELSE IF JwtSecretFromEnv(secret)
               THEN [gw EXCEPT !.stage = "up", !.left = << >>]
               ELSE Offline
  /\ stuck' = {}
  /\ UNCHANGED <<keyVars, operator, custodian, account, token, request, requests>>

\* One tick of the reload loop.
Reload ==
  /\ gw.stage = "up"
  /\ gw.reloads
  /\ LET r == ReloadOnce(file, env, gw.current, gw.channel, pem)
     IN  /\ gw' = [gw EXCEPT !.current = r.current, !.channel = r.channel]
         /\ stuck' = {s \in Services :
              IF r.current[s] = gw.current[s] THEN s \in stuck
              ELSE ~ Endpoint(r.current[s], pem)}
  /\ UNCHANGED <<keyVars, operator, custodian, account, token, request, requests>>

-----------------------------------------------------------------------------
(* Requests. *)

\* auth_middleware: the token's signature holds.
AuthMiddleware(t) == t = secret

\* ApiError::from(tonic::Status).
ApiError(code) ==
  CASE code = "Unauthenticated"  -> 401
    [] code = "PermissionDenied" -> 403
    [] code = "InvalidArgument"  -> 400
    [] code = "NotFound"         -> 404
    [] code = "Unavailable"      -> 503
    [] OTHER                     -> 500

\* The HTTP status of each route's success.
Success ==
  [login |-> 200, create_user |-> 201, get_user |-> 200, update_user |-> 200,
   delete_user |-> 204, list_users |-> 200, health |-> 200]

\* A request begins: its clients are loaded, or the middleware refuses it.
Request(name) ==
  /\ gw.stage = "up"
  /\ request.http # 0
  /\ requests < MaxRequests
  /\ requests' = requests + 1
  /\ request' =
       IF name \in Protected /\ ~ AuthMiddleware(token)
       THEN [route |-> name, http |-> 401, signed |-> token]
       ELSE [route |-> name, http |-> 0, to |-> [s \in Callees[name] |-> gw.channel[s]],
             got |-> << >>]
  /\ UNCHANGED <<keyVars, operator, gw, custodian, account, token, stuck>>

\* What the service behind a route answers.
Outcome(name, s) ==
  IF ~ Listens(s, request.to[s]) THEN "Unavailable"
  ELSE IF name = "login" /\ account = NoAccount THEN "Unauthenticated"
  ELSE IF name \in {"create_user", "list_users", "health"} THEN "Ok"
  ELSE IF account = NoAccount THEN "NotFound"
  ELSE IF Open(account, proc[s].key) = Undecrypted THEN "Internal" ELSE "Ok"

\* health: both probes must succeed.
HealthStatus(got) == IF \A s \in DOMAIN got : got[s] = "Ok" THEN 200 ELSE 503

\* The service s answers, and with the last answer the route's is there.  A login
\* signs a token; the admin service seals what it writes.
Reply(s) ==
  /\ request.http = 0
  /\ s \in DOMAIN request.to \ DOMAIN request.got
  /\ LET name    == request.route
         outcome == Outcome(name, s)
         got     == [x \in DOMAIN request.got \cup {s} |->
                       IF x = s THEN outcome ELSE request.got[x]]
         http    == IF DOMAIN got # DOMAIN request.to THEN 0
                    ELSE IF name = "health" THEN HealthStatus(got)
                    ELSE IF outcome = "Ok" THEN Success[name] ELSE ApiError(outcome)
     IN  /\ request' = IF http = 0 THEN [request EXCEPT !.got = got]
                       ELSE [route |-> name, http |-> http, to |-> request.to]
         /\ token' = IF name = "login" /\ outcome = "Ok" THEN proc["auth"].secret ELSE token
         /\ account' =
              IF name \in {"create_user", "update_user", "delete_user"} /\ outcome = "Ok"
              THEN Seal("profile", proc["admin"].key) ELSE account
  /\ UNCHANGED <<keyVars, operator, gw, custodian, requests, stuck>>

-----------------------------------------------------------------------------
Next ==
  \/ \E content \in Registries \cup {Unreadable} : Edit(content)
  \/ RenewPem
  \/ BackendStep
  \/ StartCustodian
  \/ Start
  \/ Connect
  \/ Reload
  \/ \E name \in DOMAIN Callees : Request(name)
  \/ \E s \in Services : Reply(s)

Spec == Init /\ [][Next]_vars

\* The reload loop ticks for as long as the gateway runs.
FairSpec == Spec /\ WF_vars(Reload)

-----------------------------------------------------------------------------
\* Every client of a running gateway is connected to the address that the reload loop
\* takes for the current one; only a client whose redirection failed is not, and it
\* is never tried again until the address changes once more.
RoutesAreCurrent ==
  gw.stage = "up" => \A s \in Services : gw.channel[s] = gw.current[s] \/ s \in stuck

\* A running gateway that started with a registry follows the file in the end: each
\* client is where the file, the environment and the defaults say, unless the file
\* cannot be read or the redirection failed.
RoutesConverge ==
  <>[](gw.stage = "up" /\ gw.reloads =>
         \/ file = Unreadable
         \/ \A s \in Services : gw.channel[s] = FromRegistry(file, env)[s] \/ s \in stuck)

\* What the admin service sealed, a running auth or admin service can open, across
\* restarts of both, unless two services looked for the key file while there was none:
\* key_store.rs lets each of them make a key pair and keep it.
AccountsReadable ==
  account # NoAccount =>
    \A p \in Procs :
      proc[p].stage = "up" => raced \/ Open(account, proc[p].key) # Undecrypted

\* A token outlives restarts of auth, whose secret is the environment's or the file's,
\* even if auth stopped while it wrote that file; and the gateway refuses only tokens
\* that another secret than its own JWT_SECRET signed.
TokensStayValid ==
  /\ token # NoToken /\ proc["auth"].stage = "up" => proc["auth"].secret = token
  /\ request.route \in Protected /\ request.http = 401 =>
       request.signed # secret

\* A whole key file is replaced only by a process that had found none.
KeyFileKept ==
  [][(keys \in 1..MaxKeys /\ keys' # keys) => raced]_vars
=============================================================================
