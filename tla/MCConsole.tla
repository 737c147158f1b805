----------------------------- MODULE MCConsole -----------------------------
(* One tab, two tickets, two custodian nodes.                               *)
EXTENDS Console, TLC

\* A ticket that is to be closed some day, and a closed one with a time that has
\* nanoseconds.
MCChanges ==
  {[next_action |-> [kind |-> "AutoClose", schedule |-> "Hours48"]],
   [status |-> "Closed", next_action |-> [kind |-> "FollowUp", at |-> <<1, 5>>]]}

MCAts == {NotANumber, 9}

Symmetry == Permutations(Calls) \cup Permutations(Keys)
=============================================================================
