------------------------------- MODULE MCOasis -------------------------------
(* Small instances of Oasis for TLC. *)
EXTENDS Oasis, TLC

CONSTANTS dev, u1, u2

\* A pool of 500 HTR for 300 token_b, with liquidity that others hold.
TestPools == {<<500, 300, 4250>>}

Symmetry == Permutations({u1, u2})

=============================================================================
