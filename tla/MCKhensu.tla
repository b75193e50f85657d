------------------------------ MODULE MCKhensu -------------------------------
(* Small instances of Khensu for TLC. *)
EXTENDS Khensu, TLC

CONSTANTS c1, u1, t1, t2, t3

\* Twenty units for six HTR; nine for less than three; and one that is refused.
TestCurves == {<<20, 20, 2>>, <<7, 9, 1>>, <<5, 4, 3>>}

\* Three calls later than Init: three tokens are registered, in any order.
ListInit ==
  \E order \in {s \in [1 .. 3 -> Ids] : IsInjective(s)}, capacity \in {2, 3} :
    LET curve == CurveOf(20, 20, 2)
        empty == PL!EmptyList(capacity)
    IN  /\ config = [admins |-> {Creator}, buyFee |-> 1, sellFee |-> 1, creatorFee |-> 0,
                     poolFee |-> 0, curve |-> curve]
        /\ tokens = [t \in Ids |-> [creator |-> u1, curve |-> curve, pool |-> 0, reserve |-> 20,
                                    migrated |-> FALSE, poolFee |-> -1]]
        /\ recent = PL!Used(PL!Used(PL!Used(empty, order[1]), order[2]), order[3])
        /\ graduated = <<>>
        /\ fees = [buy |-> 0, sell |-> 0, operation |-> 0]
        /\ balances = [u \in Users |-> [t \in Tokens |-> 0]]
        /\ dozer = [signer |-> TRUE, reserved |-> Ids, pools |-> {}]
        /\ held = [t \in Tokens |-> IF t = HTR THEN 0 ELSE 20]
        /\ calls = 2

Symmetry == Permutations({t1, t2, t3})

\* The sell fee starts as the buy fee and changes later.
MCSpec == ((Init /\ config.sellFee = config.buyFee) \/ ListInit) /\ [][Next]_vars

=============================================================================
