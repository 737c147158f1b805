---------------------------- MODULE IntrusionLog ----------------------------
(***************************************************************************)
(* The honeypot's trap endpoints report every access to the admin service, *)
(* which puts it into the collection "audit" of the DB (honeypot/src,      *)
(* record_intrusion in admin/src/server.rs).  Nothing of this is allowed   *)
(* to fail the caller: what cannot be delivered or stored is logged.       *)
(*                                                                         *)
(* An access is its number here; what the record says beyond its key is    *)
(* the access that it is about.                                            *)
(***************************************************************************)
EXTENDS Integers

CONSTANTS
  Visits,     \* accesses to the trap endpoints
  Addresses,  \* the peers' addresses
  Traps,      \* the endpoints
  MaxSeconds, \* bound on the clock, in seconds
  MaxOutages  \* bound on the times that admin or its DB stops to answer

ASSUME IntrusionAssumption == MaxSeconds \in Nat /\ MaxOutages \in Nat

VARIABLES
  second,    \* the honeypot's clock
  adminUp,   \* whether the admin service answers
  dbUp,      \* whether the admin service's DB does
  outages,   \* counted for the bound
  visit,     \* visit[v]: the access v and how far its report is
  audit      \* the collection "audit": by key, the access that the record is of

logVars == <<second, adminUp, dbUp, outages, visit, audit>>

NoVisit == [stage |-> "none"]

AuditKeys == [timestamp : 0..MaxSeconds, source_ip : Addresses, endpoint : Traps]

\* Reports go through their stages, and audit records are of accesses.
LogTypeOK ==
  /\ second \in 0..MaxSeconds
  /\ adminUp \in BOOLEAN
  /\ dbUp \in BOOLEAN
  /\ outages \in 0..MaxOutages
  /\ \A v \in Visits :
       visit[v].stage \in
         {"none", "captured", "received", "stored", "unknown", "answered", "logged"}
  /\ DOMAIN audit \subseteq AuditKeys
  /\ \A k \in DOMAIN audit : audit[k] \in Visits

LogInit ==
  /\ second = 0
  /\ adminUp = TRUE
  /\ dbUp = TRUE
  /\ outages = 0
  /\ visit = [v \in Visits |-> NoVisit]
  /\ audit = [k \in {} |-> 0]

SecondPasses ==
  /\ second < MaxSeconds
  /\ second' = second + 1
  /\ UNCHANGED <<adminUp, dbUp, outages, visit, audit>>

Outage(admin) ==
  /\ IF admin THEN adminUp ELSE dbUp
  /\ outages < MaxOutages
  /\ outages' = outages + 1
  /\ adminUp' = (adminUp /\ ~ admin)
  /\ dbUp' = (dbUp /\ admin)
  /\ UNCHANGED <<second, visit, audit>>

Back ==
  /\ ~ (adminUp /\ dbUp)
  /\ adminUp' = TRUE
  /\ dbUp' = TRUE
  /\ UNCHANGED <<second, outages, visit, audit>>

\* A trap endpoint captures who called it, and when.
Capture(v, ip, endpoint) ==
  /\ visit[v] = NoVisit
  /\ visit' = [visit EXCEPT ![v] =
       [stage |-> "captured", source_ip |-> ip, endpoint |-> endpoint,
        timestamp |-> second]]
  /\ UNCHANGED <<second, adminUp, dbUp, outages, audit>>

\* Reporter::report sends the event; without an answer it stays in the local log.
Report(v) ==
  /\ visit[v].stage = "captured"
  /\ visit' = [visit EXCEPT ![v].stage = IF adminUp THEN "received" ELSE "logged"]
  /\ UNCHANGED <<second, adminUp, dbUp, outages, audit>>

\* Variant: the endpoint is left out of the key.
AuditKeyBrief(event) ==
  [timestamp |-> event.timestamp, source_ip |-> event.source_ip,
   endpoint |-> CHOOSE e \in Traps : TRUE]

\* The key of an event: second, address and endpoint.
AuditKey(event) ==
  [timestamp |-> event.timestamp, source_ip |-> event.source_ip,
   endpoint |-> event.endpoint]

\* The DB puts the event of access v, over a record that has its key.
Put(v) ==
  /\ dbUp
  /\ audit' = [k \in DOMAIN audit \cup {AuditKey(visit[v])} |->
                IF k = AuditKey(visit[v]) THEN v ELSE audit[k]]

\* record_intrusion puts the event; a put that fails is logged, and the answer is the
\* same.
RecordIntrusion(v) ==
  /\ visit[v].stage = "received"
  /\ \/ Put(v) /\ visit' = [visit EXCEPT ![v].stage = "stored"]
     \/ UNCHANGED audit /\ visit' = [visit EXCEPT ![v].stage = "unknown"]
  /\ UNCHANGED <<second, adminUp, dbUp, outages>>

\* A put whose error admin has logged is committed after all, or it never is.
PutAfterError(v) ==
  /\ visit[v].stage = "unknown"
  /\ Put(v) \/ UNCHANGED audit
  /\ visit' = [visit EXCEPT ![v].stage = "answered"]
  /\ UNCHANGED <<second, adminUp, dbUp, outages>>

LogStep ==
  \/ SecondPasses
  \/ \E admin \in BOOLEAN : Outage(admin)
  \/ Back
  \/ \E v \in Visits, ip \in Addresses, endpoint \in Traps : Capture(v, ip, endpoint)
  \/ \E v \in Visits : Report(v) \/ RecordIntrusion(v) \/ PutAfterError(v)

-----------------------------------------------------------------------------
SameKind(v, w) ==
  /\ visit[v].source_ip = visit[w].source_ip
  /\ visit[v].endpoint = visit[w].endpoint
  /\ visit[v].timestamp = visit[w].timestamp

\* An access that admin stored is in the audit collection for good, unless the same
\* address came back to the same endpoint within the same second: then the record of
\* one of them is there.  A late put of another access never replaces it.
StoredAccessesRemain ==
  \A v \in Visits : visit[v].stage = "stored" =>
    \E k \in DOMAIN audit : audit[k] = v \/ SameKind(v, audit[k])
=============================================================================
