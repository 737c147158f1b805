------------------------------ MODULE Replicas ------------------------------
(***************************************************************************)
(* What a replicated store promises those who read one node of it without  *)
(* asking the others: writes make a sequence of committed states, and a    *)
(* node that serves shows one of them, never a mixture and never something *)
(* uncommitted, and goes on to later ones only.  A node may stop serving   *)
(* in this sense, and nothing is promised of it until it serves again.     *)
(***************************************************************************)
EXTENDS Naturals, Sequences

CONSTANTS
  Nodes,    \* the nodes of the store
  Initial   \* the state that the store starts with

VARIABLES
  states,   \* the committed states, in the order of the writes
  at,       \* at[n]: which of them the serving node n is in
  shown     \* shown[n]: what a reader at n sees

vars == <<states, at, shown>>

Serving == DOMAIN at

Init ==
  /\ states = <<Initial>>
  /\ at = [n \in Nodes |-> 1]
  /\ shown = [n \in Nodes |-> Initial]

\* One more state is committed ...
Extend ==
  /\ Len(states') = Len(states) + 1
  /\ \A i \in 1..Len(states) : states'[i] = states[i]

\* ... and no node shows it yet, ...
Commit == Extend /\ UNCHANGED <<at, shown>>

\* ... or the node that answers the write shows it at once.
CommitAt(n) ==
  /\ n \in Serving
  /\ Extend
  /\ at' = [at EXCEPT ![n] = Len(states')]
  /\ shown' = [shown EXCEPT ![n] = states'[Len(states')]]

Show(n, i) ==
  /\ at' = [m \in Serving \cup {n} |-> IF m = n THEN i ELSE at[m]]
  /\ shown' = [m \in Serving \cup {n} |-> IF m = n THEN states[i] ELSE shown[m]]
  /\ UNCHANGED states

\* A serving node goes on to a later state.
Follow(n) ==
  /\ n \in Serving
  /\ \E i \in (at[n] + 1)..Len(states) : Show(n, i)

\* A node serves again, with any of the committed states.
Join(n) ==
  /\ n \notin Serving
  /\ \E i \in 1..Len(states) : Show(n, i)

\* A node stops serving.
Leave(n) ==
  /\ n \in Serving
  /\ at' = [m \in Serving \ {n} |-> at[m]]
  /\ shown' = [m \in Serving \ {n} |-> shown[m]]
  /\ UNCHANGED states

Next == Commit \/ \E n \in Nodes : CommitAt(n) \/ Follow(n) \/ Join(n) \/ Leave(n)

Spec == Init /\ [][Next]_vars
=============================================================================
