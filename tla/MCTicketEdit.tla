---------------------------- MODULE MCTicketEdit ----------------------------
(* Small instances of ticket editing. *)
EXTENDS TicketEdit, TLC

\* Close with a resolution, and send a code nobody assigned, which means Open.
SomeRequests == {[status |-> 255, resolution |-> "Resolved"], [status |-> 300]}

\* Every custodian node is connected to a DB node of its own.
OwnDb == CHOOSE f \in [Nodes -> DbNodes] : \A m, n \in Nodes : f[m] = f[n] => m = n

\* A custodian node and its DB node change places with another such pair.
PairSymmetry ==
  {p @@ [d \in DbNodes |-> LET n == CHOOSE n \in Nodes : DbOf[n] = d IN DbOf[p[n]]] :
     p \in Permutations(Nodes)}

Symmetry == Permutations(Users) \cup Permutations(Rpcs) \cup PairSymmetry
=============================================================================
