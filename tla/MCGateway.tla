----------------------------- MODULE MCGateway -----------------------------
(* A small deployment behind the gateway. *)
EXTENDS Gateway

Hosts == [auth |-> "auth:8082", admin |-> "admin:8083", custodian |-> "custodian:1"]

\* The file names the custodian; the auth service is moved to an address where nobody
\* listens, or to one that is not a URI.
SomeRegistries ==
  {[custodian |-> "custodian:1"],
   [custodian |-> "custodian:1", auth |-> "auth:2"],
   [custodian |-> "custodian:1", auth |-> "auth 3"]}

SomeFirstFiles == {[custodian |-> "custodian:1"], Unreadable}

NoOverride == [s \in Services |-> Unset]

\* The custodian's override is blank, or an address.
SomeEnvironments ==
  {[NoOverride EXCEPT !["custodian"] = Blank],
   [NoOverride EXCEPT !["custodian"] = "custodian:1"]}
=============================================================================
