------------------------------- MODULE MCPoll --------------------------------
(* A small instance of Poll for TLC. *)
EXTENDS Poll, TLC

CONSTANTS a1, a2, t1

\* One token, the other, or both.
TestTransactions == {HTR :> 1, t1 :> 1, t1 :> 2, HTR :> 1 @@ t1 :> 1}

\* A poll that starts later, and an empty window.
TestWindows == {[start |-> 1, end |-> 2], [start |-> 1, end |-> 1]}

Symmetry == Permutations({a1, a2})

=============================================================================
