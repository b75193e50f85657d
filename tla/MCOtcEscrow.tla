----------------------------- MODULE MCOtcEscrow -----------------------------
(* Small instances of OtcEscrow for TLC. *)
EXTENDS OtcEscrowProperties, TLC

CONSTANTS a1, a2, a3, t1, t2

\* Two configurations: the second has longer stages.
ShortExpiry == [openSecs |-> 1, fundedSecs |-> 1, minSecs |-> 1, maxSecs |-> 2]
LongExpiry == [openSecs |-> 2, fundedSecs |-> 2, minSecs |-> 1, maxSecs |-> 2]
BadExpiry == [openSecs |-> 1, fundedSecs |-> 3, minSecs |-> 1, maxSecs |-> 2]
OneExpiryConfig == {ShortExpiry}
TwoExpiryConfigs == {ShortExpiry, LongExpiry, BadExpiry}

Symmetry == Permutations({a1, a2, a3}) \cup Permutations({t1, t2})

=============================================================================
