----------------------------- MODULE Discovery -----------------------------
(***************************************************************************)
(* Static discovery: how the gateway finds its backends and what one       *)
(* reload of services.toml does to its clients (shared/src/discovery.rs,   *)
(* lbrp/src/discovery.rs, lbrp/src/clients.rs, proto/src/tls.rs).          *)
(*                                                                         *)
(* A registry maps some of the services to addresses.  TLS is configured,  *)
(* so a channel is built from the PEM files as they are at that moment.    *)
(***************************************************************************)

CONSTANTS
  Unset,      \* an environment variable that is not set
  Blank,      \* one that is set to blanks
  Unreadable, \* a services.toml that is missing or is not TOML
  Malformed   \* addresses that are not a URI; Blank is one of them

Services == {"auth", "admin", "custodian"}

\* BackendAddrs::DEFAULT_*.
Default == [auth |-> "auth:8082", admin |-> "admin:8083", custodian |-> "custodian-leader:8081"]

\* A non-blank override, the registry's entry, or the default.
ResolveWith(reg, override, s) ==
  IF override \notin {Unset, Blank} THEN override
  ELSE IF s \in DOMAIN reg THEN reg[s] ELSE Default[s]

FromRegistry(reg, env) == [s \in Services |-> ResolveWith(reg, env[s], s)]

\* Without a registry an override counts even if it is blank.
ResolveBackendAddrs(env) ==
  [s \in Services |-> IF env[s] = Unset THEN Default[s] ELSE env[s]]

\* The addresses that main starts with.
Backend(file, env) ==
  IF file = Unreadable THEN ResolveBackendAddrs(env) ELSE FromRegistry(file, env)

\* tls::endpoint succeeds.
Endpoint(addr, pem) == pem /\ addr \notin Malformed

\* Variant: whether the address changed is seen from the custodian's.
ApplyChangesTogether(current, next, channel, pem) ==
  [s \in Services |->
     IF current["custodian"] # next["custodian"] /\ Endpoint(next[s], pem)
     THEN next[s] ELSE channel[s]]

\* Variant: a client is swapped whether or not its endpoint could be built.
ApplyChangesUnchecked(current, next, channel, pem) == next

\* apply_changes: a client whose address changed is connected anew, lazily; if no
\* endpoint can be built it keeps its channel.
ApplyChanges(current, next, channel, pem) ==
  [s \in Services |->
     IF current[s] # next[s] /\ Endpoint(next[s], pem) THEN next[s] ELSE channel[s]]

\* Variant: a service that the file no longer names stays where it is.
ReloadOnceSticky(file, env, current, channel, pem) ==
  LET next == [s \in Services |->
                 IF file # Unreadable /\ s \in DOMAIN file THEN FromRegistry(file, env)[s]
                 ELSE current[s]]
  IN  [current |-> next, channel |-> ApplyChanges(current, next, channel, pem)]

\* reload_once: the new addresses are the current ones from now on, even those of
\* clients that could not be connected.
ReloadOnce(file, env, current, channel, pem) ==
  IF file = Unreadable THEN [current |-> current, channel |-> channel]
  ELSE [current |-> FromRegistry(file, env),
        channel |-> ApplyChanges(current, FromRegistry(file, env), channel, pem)]
=============================================================================
