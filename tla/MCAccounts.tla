----------------------------- MODULE MCAccounts -----------------------------
(* Accounts with few users, names and calls.                                *)
EXTENDS Accounts, TLC

CONSTANTS tech, manager

MCRoles == {tech, manager}

\* A promotion; delete_user asks for the deactivation.
MCRequests == {[role |-> manager, active |-> NoChange]}

Symmetry == Permutations(Uuids) \cup Permutations(Names) \cup Permutations(Calls)
=============================================================================
