------------------------------- MODULE MCThoth -------------------------------
(* Small instances of Thoth for TLC. *)
EXTENDS Thoth, TLC

CONSTANTS a1, a2, n1, n2

LongNames == [n \in Names |-> 5]

Symmetry == Permutations({a1, a2}) \cup Permutations({n1, n2})

=============================================================================
