---------------------------- MODULE MCOperations ----------------------------
(* A few scenarios and a few accesses. *)
EXTENDS Operations
=============================================================================
