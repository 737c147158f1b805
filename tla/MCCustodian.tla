---------------------------- MODULE MCCustodian ----------------------------
(* Small instances of the replicated lock service. *)
EXTENDS Custodian, TLC

CONSTANT Ttl

\* Every node runs with the same LOCK_TTL_SECS.
UniformTtl == [n \in Nodes |-> Ttl]

UserSymmetry == Permutations(Users)

NodeSymmetry == Permutations(Nodes)

Symmetry == UserSymmetry \cup NodeSymmetry
=============================================================================
