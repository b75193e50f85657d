---------------------------- MODULE LotteryProofs ----------------------------
(***************************************************************************)
(* Proofs about Lottery: its type invariant and, for any number of         *)
(* participants, prices and amounts, that the contract holds exactly what  *)
(* can be claimed and that everybody is paid exactly their due.            *)
(***************************************************************************)
EXTENDS Lottery, TLAPS

(* The commission is a share of the pot (draw_winner). *)
LEMMA CommissionFits ==
  ASSUME NEW p \in Nat, NEW c \in 0 .. 100
  PROVE  (p * c) \div 100 \in 0 .. p
<1>1. p * c \in Nat BY SMT
<1>2. p * c <= p * 100 BY SMT
<1>3. QED BY <1>1, <1>2, SMT

(* A claim comes out of the payouts the claimer is entitled to and leaves  *)
(* none of them negative (claim_reward). *)
LEMMA ClaimFits ==
  ASSUME TypeOK, NEW a \in Addresses, NEW amount \in Nat, amount <= Available(a)
  PROVE  /\ FromWinner(a, amount) \in 0 .. winnerPayout
         /\ amount - FromWinner(a, amount) \in 0 .. creatorPayout
         /\ a # winner => FromWinner(a, amount) = 0
         /\ a # creator => FromWinner(a, amount) = amount
BY DEF TypeOK, Available, FromWinner, Smaller

LEMMA TypeStep == TypeOK /\ [Next]_vars => TypeOK'
<1> SUFFICES ASSUME TypeOK, [Next]_vars PROVE TypeOK' OBVIOUS
<1> USE LotteryAssumption
<1>1. CASE Tick BY <1>1 DEF Tick, TypeOK, terms
<1>2. ASSUME NEW a \in Addresses, NEW amount \in Deposits, BuyTicket(a, amount)
      PROVE  TypeOK'
  <2>1. amount \in Nat BY <1>2
  <2>2. participants' \in Seq(Addresses) BY <1>2 DEF BuyTicket, TypeOK
  <2>3. pot' \in Nat /\ balance' \in Int BY <1>2, <2>1 DEF BuyTicket, TypeOK
  <2>4. QED BY <1>2, <2>2, <2>3 DEF BuyTicket, TypeOK, terms
<1>3. ASSUME NEW a \in Addresses, DrawNobody(a) PROVE TypeOK'
  BY <1>3 DEF DrawNobody, TypeOK, terms
<1>4. ASSUME NEW a \in Addresses, DrawWinner(a) PROVE TypeOK'
  <2>1. Commission \in 0 .. pot BY CommissionFits DEF Commission, TypeOK
  <2>2. creatorPayout' \in Nat /\ winnerPayout' \in Nat
    BY <1>4, <2>1 DEF DrawWinner, TypeOK
  <2>3. winner' \in Addresses BY <1>4 DEF DrawWinner, TypeOK
  <2>4. QED BY <1>4, <2>2, <2>3 DEF DrawWinner, TypeOK, terms
<1>5. ASSUME NEW a \in Addresses, NEW amount \in Claims, ClaimReward(a, amount)
      PROVE  TypeOK'
  <2>1. amount \in Nat BY <1>5
  <2>2. creatorPayout' \in Nat /\ winnerPayout' \in Nat
    BY <1>5, <2>1, ClaimFits DEF ClaimReward, TypeOK
  <2>3. received' \in [Addresses -> Nat] BY <1>5, <2>1 DEF ClaimReward, TypeOK
  <2>4. balance' \in Int BY <1>5, <2>1 DEF ClaimReward, TypeOK
  <2>5. QED BY <1>5, <2>2, <2>3, <2>4 DEF ClaimReward, TypeOK, terms
<1>6. CASE UNCHANGED vars BY <1>6 DEF vars, terms, TypeOK
<1>7. QED BY <1>1, <1>2, <1>3, <1>4, <1>5, <1>6 DEF Next

LEMMA TypeStart == Init => TypeOK
BY LotteryAssumption DEF Init, TypeOK

(* Every reachable state is well typed; in particular no claim drives a    *)
(* payout below zero (claim_reward). *)
THEOREM LotteryTypes == Spec => []TypeOK
<1>1. QED BY TypeStart, TypeStep, PTL DEF Spec

-----------------------------------------------------------------------------
(* What the phases have to do with the payouts: without tickets there is no *)
(* pot, before the draw there is no winner and nothing for one; the winner  *)
(* holds a ticket.                                                          *)
Phases ==
  /\ participants = << >> => pot = 0
  /\ state = "OPEN" => winner = NoOne /\ winnerPayout = 0
  /\ winner = NoOne => winnerPayout = 0
  /\ winner # NoOne => winner \in ToSet(participants)
  /\ state = "CLOSED" /\ participants # << >> => winner # NoOne

(* What has been received and can still be claimed is due. *)
Paid == \A a \in Addresses : received[a] + Available(a) = Due(a)

LotteryInv == TypeOK /\ Conservation /\ Phases /\ Paid

LEMMA LotteryStart == Init => LotteryInv
<1> SUFFICES ASSUME Init PROVE LotteryInv OBVIOUS
<1> USE LotteryAssumption
<1>1. TypeOK BY TypeStart
<1>2. Conservation BY <1>1 DEF Init, Conservation, TypeOK
<1>3. Phases BY DEF Init, Phases
<1>4. Paid BY <1>1 DEF Init, Paid, Available, Due, TypeOK
<1>5. QED BY <1>1, <1>2, <1>3, <1>4 DEF LotteryInv

LEMMA ConservationStep == LotteryInv /\ [Next]_vars => Conservation'
<1> SUFFICES ASSUME LotteryInv, [Next]_vars PROVE Conservation' OBVIOUS
<1> USE LotteryAssumption DEF LotteryInv, Conservation
<1>1. CASE Tick BY <1>1 DEF Tick
<1>2. ASSUME NEW a \in Addresses, NEW amount \in Deposits, BuyTicket(a, amount)
      PROVE  Conservation'
  BY <1>2 DEF BuyTicket, TypeOK
<1>3. ASSUME NEW a \in Addresses, DrawNobody(a) PROVE Conservation'
  BY <1>3 DEF DrawNobody, TypeOK, Phases
<1>4. ASSUME NEW a \in Addresses, DrawWinner(a) PROVE Conservation'
  <2>1. Commission \in 0 .. pot BY CommissionFits DEF Commission, TypeOK
  <2>2. QED BY <1>4, <2>1 DEF DrawWinner, TypeOK
<1>5. ASSUME NEW a \in Addresses, NEW amount \in Claims, ClaimReward(a, amount)
      PROVE  Conservation'
  <2>1. FromWinner(a, amount) \in Int
    BY <1>5, ClaimFits DEF ClaimReward, TypeOK
  <2>2. QED BY <1>5, <2>1 DEF ClaimReward, TypeOK
<1>6. CASE UNCHANGED vars BY <1>6 DEF vars
<1>7. QED BY <1>1, <1>2, <1>3, <1>4, <1>5, <1>6 DEF Next

LEMMA PhasesStep == LotteryInv /\ [Next]_vars => Phases'
<1> SUFFICES ASSUME LotteryInv, [Next]_vars PROVE Phases' OBVIOUS
<1> USE LotteryAssumption DEF LotteryInv, Phases
<1>1. CASE Tick BY <1>1 DEF Tick
<1>2. ASSUME NEW a \in Addresses, NEW amount \in Deposits, BuyTicket(a, amount)
      PROVE  Phases'
  <2>1. participants' # << >> BY <1>2 DEF BuyTicket, TypeOK
  <2>2. UNCHANGED <<state, winner, winnerPayout>> /\ state = "OPEN"
    BY <1>2 DEF BuyTicket
  <2>3. QED BY <2>1, <2>2
<1>3. ASSUME NEW a \in Addresses, DrawNobody(a) PROVE Phases'
  BY <1>3 DEF DrawNobody
<1>4. ASSUME NEW a \in Addresses, DrawWinner(a) PROVE Phases'
  <2>1. PICK i \in DOMAIN participants : winner' = participants[i]
    BY <1>4 DEF DrawWinner
  <2>2. winner' \in ToSet(participants) BY <2>1 DEF ToSet
  <2>3. winner' # NoOne BY <2>1 DEF TypeOK
  <2>4. QED BY <1>4, <2>2, <2>3 DEF DrawWinner
<1>5. ASSUME NEW a \in Addresses, NEW amount \in Claims, ClaimReward(a, amount)
      PROVE  Phases'
  <2>1. FromWinner(a, amount) \in 0 .. winnerPayout
    BY <1>5, ClaimFits DEF ClaimReward
  <2>2. winner = NoOne => winnerPayout' = 0
    BY <1>5, <2>1 DEF ClaimReward, TypeOK
  <2>3. QED BY <1>5, <2>2 DEF ClaimReward
<1>6. CASE UNCHANGED vars BY <1>6 DEF vars
<1>7. QED BY <1>1, <1>2, <1>3, <1>4, <1>5, <1>6 DEF Next

LEMMA PaidStep == LotteryInv /\ [Next]_vars => Paid'
<1> SUFFICES ASSUME LotteryInv, [Next]_vars PROVE Paid' OBVIOUS
<1> USE LotteryAssumption DEF LotteryInv, Paid
<1>1. CASE Tick BY <1>1 DEF Tick, terms, Available, Due, Commission
<1>2. ASSUME NEW a \in Addresses, NEW amount \in Deposits, BuyTicket(a, amount)
      PROVE  Paid'
  <2>1. winner = NoOne /\ winner' = NoOne BY <1>2 DEF BuyTicket, Phases
  <2>2. QED BY <1>2, <2>1 DEF BuyTicket, terms, Available, Due
<1>3. ASSUME NEW a \in Addresses, DrawNobody(a) PROVE Paid'
  BY <1>3 DEF DrawNobody, terms, Available, Due, Commission
<1>4. ASSUME NEW a \in Addresses, DrawWinner(a) PROVE Paid'
  <2>1. Commission \in Int /\ Commission' = Commission
    BY <1>4, CommissionFits DEF Commission, TypeOK, DrawWinner, terms
  <2>2. winner = NoOne /\ winner' # NoOne BY <1>4 DEF DrawWinner, Phases, TypeOK
  <2>3. SUFFICES ASSUME NEW b \in Addresses
                 PROVE  received'[b] + Available(b)' = Due(b)'
    OBVIOUS
  <2>4. received[b] + Available(b) = Due(b) OBVIOUS
  <2>5. received[b] = IF b = creator THEN fee - creatorPayout ELSE 0
    BY <2>2, <2>4 DEF Available, Due, TypeOK
  <2>6. received'[b] = received[b] /\ creator' = creator /\ fee' = fee /\ pot' = pot
    BY <1>4 DEF DrawWinner, terms
  <2>7. winnerPayout' = pot - Commission /\ creatorPayout' = creatorPayout + Commission
    BY <1>4 DEF DrawWinner
  <2>8. Due(b)' = (IF b = winner' THEN pot - Commission ELSE 0)
                  + (IF b = creator THEN fee + Commission ELSE 0)
    BY <2>1, <2>2, <2>6 DEF Due
  <2>9. Available(b)' = (IF b = winner' THEN pot - Commission ELSE 0)
                        + (IF b = creator THEN creatorPayout + Commission ELSE 0)
    BY <2>6, <2>7 DEF Available
  <2>10. pot \in Int /\ creatorPayout \in Int /\ fee \in Int BY DEF TypeOK
  <2>11. QED BY <2>1, <2>5, <2>6, <2>8, <2>9, <2>10
<1>5. ASSUME NEW a \in Addresses, NEW amount \in Claims, ClaimReward(a, amount)
      PROVE  Paid'
  <2>1. /\ FromWinner(a, amount) \in Int /\ amount \in Int
        /\ a # winner => FromWinner(a, amount) = 0
        /\ a # creator => FromWinner(a, amount) = amount
    BY <1>5, ClaimFits DEF ClaimReward, TypeOK
  <2>2. SUFFICES ASSUME NEW b \in Addresses
                 PROVE  received'[b] + Available(b)' = Due(b)'
    OBVIOUS
  <2>3. received[b] + Available(b) = Due(b) OBVIOUS
  <2>4. Due(b)' = Due(b) BY <1>5 DEF ClaimReward, Due, Commission, terms
  <2>5. received'[b] = received[b] + (IF b = a THEN amount ELSE 0)
    BY <1>5, <2>1 DEF ClaimReward, TypeOK
  <2>6. Available(b)' = Available(b) - (IF b = a THEN amount ELSE 0)
    <3>1. /\ winnerPayout' = winnerPayout - FromWinner(a, amount)
          /\ creatorPayout' = creatorPayout - (amount - FromWinner(a, amount))
          /\ winner' = winner /\ creator' = creator
      BY <1>5 DEF ClaimReward, terms
    <3>2. winnerPayout \in Int /\ creatorPayout \in Int BY DEF TypeOK
    <3>3. CASE b # a
      <4>1. b = winner => winnerPayout' = winnerPayout
        <5>1. a # winner => FromWinner(a, amount) = 0 BY <2>1
        <5>2. QED BY <3>1, <3>2, <3>3, <5>1
      <4>2. b = creator => creatorPayout' = creatorPayout
        <5>1. a # creator => FromWinner(a, amount) = amount BY <2>1
        <5>2. QED BY <2>1, <3>1, <3>2, <3>3, <5>1
      <4>3. Available(b)' = Available(b) BY <3>1, <4>1, <4>2 DEF Available
      <4>4. Available(b) \in Int BY <3>2 DEF Available
      <4>5. QED BY <3>3, <4>3, <4>4
    <3>4. CASE b = a
      <4>1. DEFINE w == FromWinner(a, amount)
      <4>2. w \in Int /\ amount \in Int BY <2>1
      <4>3. a # winner => w = 0 BY <2>1
      <4>4. a # creator => w = amount BY <2>1
      <4>5. Available(a)' = (IF a = winner THEN winnerPayout - w ELSE 0)
                            + (IF a = creator THEN creatorPayout - (amount - w) ELSE 0)
        BY <3>1 DEF Available
      <4>6. a = winner \/ a = creator
        BY <1>5 DEF ClaimReward, Available
      <4>7. HIDE DEF w
      <4>8. QED BY <3>2, <3>4, <4>2, <4>3, <4>4, <4>5, <4>6 DEF Available
    <3>5. QED BY <3>3, <3>4
  <2>7. Available(b) \in Int /\ received[b] \in Int BY DEF Available, TypeOK
  <2>8. QED BY <2>1, <2>3, <2>4, <2>5, <2>6, <2>7
<1>6. CASE UNCHANGED vars BY <1>6 DEF vars, terms, Available, Due, Commission
<1>7. QED BY <1>1, <1>2, <1>3, <1>4, <1>5, <1>6 DEF Next

LEMMA LotteryStep == LotteryInv /\ [Next]_vars => LotteryInv'
BY TypeStep, ConservationStep, PhasesStep, PaidStep DEF LotteryInv

(* In every reachable state, for any tickets sold and any claims made, the *)
(* contract's balance is the pot and the creator's payout before the draw, *)
(* the two payouts after it (buy_ticket, draw_winner, claim_reward).       *)
THEOREM LotteryConserves == Spec => []Conservation
<1>1. LotteryInv => Conservation BY DEF LotteryInv
<1>2. QED BY LotteryStart, LotteryStep, <1>1, PTL DEF Spec

(* Everybody's receipts and open claims add up to their due, also when the *)
(* creator wins, and the winner bought a ticket.                           *)
THEOREM LotteryPaysTheDue == Spec => []EverybodyGetsTheirDue
<1>1. LotteryInv => EverybodyGetsTheirDue
  BY DEF LotteryInv, Paid, Phases, EverybodyGetsTheirDue
<1>2. QED BY LotteryStart, LotteryStep, <1>1, PTL DEF Spec

=============================================================================
