----------------------------- MODULE RecencyList ------------------------------
(***************************************************************************)
(* What the list of most recently used tokens of Khensu promises: a        *)
(* sequence without repetitions, the last used token first, no longer than *)
(* its capacity; what does not fit is forgotten from the end.              *)
(***************************************************************************)
EXTENDS Integers, Sequences, SequencesExt

CONSTANT Ids
VARIABLES order, capacity

vars == <<order, capacity>>

Least(m, n) == IF m <= n THEN m ELSE n

FirstOf(s, n) == SubSeq(s, 1, Least(n, Len(s)))

\* Any list that fits; the contract starts with the empty one.
Init ==
  /\ capacity \in Nat \ {0}
  /\ order \in Seq(Ids) /\ IsInjective(order) /\ Len(order) <= capacity

Use(t) ==
  /\ order' = FirstOf(<<t>> \o RemoveFirst(order, t), capacity)
  /\ UNCHANGED capacity

Resize(n) ==
  /\ n > 0
  /\ capacity' = n
  /\ order' = FirstOf(order, n)

\* The new capacity may be any.
Next == (\E t \in Ids : Use(t)) \/ Resize(capacity')

Spec == Init /\ [][Next]_vars

=============================================================================
