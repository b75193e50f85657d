----------------------------- MODULE AtomicSwap -----------------------------
(***************************************************************************)
(* What an OTC escrow promises, seen from outside: the life of the two     *)
(* legs of one swap.  The maker's leg is deposited first; until the        *)
(* taker's leg has joined it, it can go back to the maker; from then on    *)
(* neither leg can go back, and each can only go to the other party.       *)
(*                                                                         *)
(* OtcEscrow implements one such swap per escrow id (SwapsAreAtomic there).*)
(* The name of an action is the money movement; that the swap is atomic is *)
(* the absence of any other one.                                           *)
(***************************************************************************)
VARIABLES makerLeg, takerLeg

legs == <<makerLeg, takerLeg>>

\* away: not deposited; held: in custody; paid: handed to the other party;
\* returned: handed back to its depositor.
LegStates == {"away", "held", "paid", "returned"}

Init == makerLeg = "away" /\ takerLeg = "away"

DepositMakerLeg ==
  /\ makerLeg = "away" /\ takerLeg = "away"
  /\ makerLeg' = "held"
  /\ UNCHANGED takerLeg

DepositTakerLeg ==
  /\ makerLeg = "held" /\ takerLeg = "away"
  /\ takerLeg' = "held"
  /\ UNCHANGED makerLeg

ReturnMakerLeg ==
  /\ makerLeg = "held" /\ takerLeg = "away"
  /\ makerLeg' = "returned"
  /\ UNCHANGED takerLeg

PayTaker ==
  /\ makerLeg = "held" /\ takerLeg \in {"held", "paid"}
  /\ makerLeg' = "paid"
  /\ UNCHANGED takerLeg

PayMaker ==
  /\ takerLeg = "held" /\ makerLeg \in {"held", "paid"}
  /\ takerLeg' = "paid"
  /\ UNCHANGED makerLeg

Next ==
  \/ DepositMakerLeg
  \/ DepositTakerLeg
  \/ ReturnMakerLeg
  \/ PayTaker
  \/ PayMaker

Spec == Init /\ [][Next]_legs

=============================================================================
