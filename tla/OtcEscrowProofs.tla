--------------------------- MODULE OtcEscrowProofs ---------------------------
(***************************************************************************)
(* Proofs about OtcEscrow, for every set of addresses and tokens, every    *)
(* amount, rate and expiry configuration, and any number of escrows.       *)
(*                                                                         *)
(* The inductive invariant of the books is TypeOK, StatusMatchesMoney,     *)
(* TakerIsEntitled and Solvency together: that the status says which money *)
(* moved is what makes a withdrawal reduce the custody by what it pays     *)
(* out.  That of the exchange has AllReceiptsFit in place of Solvency: what *)
(* each party has received at every stage of an escrow's life.             *)
(***************************************************************************)
EXTENDS OtcEscrowProperties, SumTheorems, SequenceTheorems

-----------------------------------------------------------------------------
(* Lemmas about the operators. *)

(* A fee within the allowed rates is a natural number no larger than the   *)
(* amount, so "Fee exceeds maker amount" is never raised. *)
LEMMA FeeInAmount ==
  ASSUME NEW bps \in Int, ValidFeeRate(bps), NEW amount \in Nat
  PROVE  FeeAt(bps, amount) \in 0 .. amount
<1>1. CASE bps <= 0 \/ amount <= 0
  BY <1>1 DEF FeeAt
<1>2. CASE bps > 0 /\ amount > 0
  <2>1. bps <= 200
    BY DEF ValidFeeRate, MAX_PROTOCOL_FEE_BPS
  <2> DEFINE x == amount * bps
  <2>2. x \in Nat /\ x <= 200 * amount
    BY <1>2, <2>1
  <2> HIDE DEF x
  <2>3. (x + 9999) \div 10000 \in 0 .. amount
    BY <1>2, <2>2
  <2>4. FeeAt(bps, amount) = (x + 9999) \div 10000
    BY <1>2 DEF FeeAt, x
  <2> QED BY <2>3, <2>4
<1> QED BY <1>1, <1>2

(* What _set_status writes is one escrow and the counters. *)
LEMMA Amended ==
  ASSUME TypeOK, NEW id \in Ids, NEW e \in Escrow, Amend(id, e), UNCHANGED nextEscrowId
  PROVE  /\ escrows' \in [Ids' -> Escrow]
         /\ escrows'[id] = e
         /\ \A i \in Ids \ {id} : escrows'[i] = escrows[i]
         /\ statusCount' \in [Statuses -> Int]
<1>1. escrows \in [Ids -> Escrow] /\ escrows' = [escrows EXCEPT ![id] = e] /\ Ids' = Ids
  BY DEF TypeOK, Amend, Ids
<1>2. escrows[id].status \in Statuses /\ e.status \in Statuses
  BY <1>1 DEF Escrow
<1>3. statusCount' \in [Statuses -> Int]
  BY <1>2 DEF TypeOK, Amend, Recount
<1> QED BY <1>1, <1>3

LEMMA Booked ==
  ASSUME TypeOK, NEW id \in Ids, NEW who \in Addresses, NEW token \in Tokens,
         NEW amount \in Int, Book(id, who, token, amount), UNCHANGED nextEscrowId
  PROVE  ledger' \in [Ids' -> [Addresses -> [Tokens -> Int]]]
BY DEF TypeOK, Book, Ids

(* The attachments of a call move whole amounts. *)
LEMMA Moved ==
  ASSUME TypeOK, NEW acts \in Attachments, Credit(acts) \/ Debit(acts)
  PROVE  balance' \in [Tokens -> Int]
<1>1. \A t \in Tokens : Attached(acts, t) \in Int
  <2>1. PICK T \in SUBSET Tokens : acts \in [T -> Payments]
    BY DEF Attachments
  <2>2. \A p \in Payments : p \in Nat
    BY DataAssumption
  <2>3. \A t \in T : acts[t] \in Int
    BY <2>1, <2>2
  <2>4. DOMAIN acts = T
    BY <2>1
  <2> QED BY <2>3, <2>4 DEF Attached
<1>2. balance \in [Tokens -> Int]
  BY DEF TypeOK
<1>3. CASE Credit(acts)
  BY <1>1, <1>2, <1>3 DEF Credit
<1>4. CASE Debit(acts)
  BY <1>1, <1>2, <1>4 DEF Debit
<1> QED BY <1>3, <1>4

-----------------------------------------------------------------------------
(* Typing *)

LEMMA TypeInit == Init => TypeOK
BY DataAssumption DEF Init, TypeOK, Ids

(* The statuses, as values. *)
LEMMA StatusValues ==
  {OPEN, ACCEPTED, FUNDED_MAKER, FUNDED_BOTH, EXECUTED, REFUNDED, CANCELLED} \subseteq Statuses
BY DEF Statuses

LEMMA EscrowTyped ==
  ASSUME TypeOK, NEW id \in Ids
  PROVE  /\ escrows[id] \in Escrow
         /\ escrows[id].makerToken \in Tokens /\ escrows[id].takerToken \in Tokens
         /\ escrows[id].makerAmount \in Nat \ {0} /\ escrows[id].takerAmount \in Nat \ {0}
         /\ - escrows[id].makerAmount \in Int /\ - escrows[id].takerAmount \in Int
<1>1. escrows[id] \in Escrow
  BY DEF TypeOK
<1>2. /\ escrows[id].makerToken \in Tokens /\ escrows[id].takerToken \in Tokens
      /\ escrows[id].makerAmount \in Nat \ {0} /\ escrows[id].takerAmount \in Nat \ {0}
  BY <1>1 DEF Escrow
<1> QED BY <1>1, <1>2

LEMMA FeeTyped ==
  ASSUME TypeOK, NEW amount \in Nat
  PROVE  CeilFee(amount) \in 0 .. amount
<1>1. feeBps \in Int /\ ValidFeeRate(feeBps)
  BY DEF TypeOK
<1> QED BY <1>1, FeeInAmount DEF CeilFee

LEMMA DeadlineTyped == TypeOK => now + expiry.fundedSecs \in Nat
BY DataAssumption DEF TypeOK, ValidExpiry

LEMMA OpenTypes ==
  ASSUME TypeOK, NEW maker \in Addresses, NEW terms \in Terms, NEW ts \in ExpiryInputs,
         NEW dt \in Addresses \cup {NoOne}, AddEscrow(maker, terms, ts, dt)
  PROVE  /\ Ids' = Ids \cup {nextEscrowId}
         /\ nextEscrowId \notin Ids
         /\ escrows' \in [Ids' -> Escrow]
         /\ escrows'[nextEscrowId] = NewEscrow(maker, terms, ts, dt)
         /\ \A i \in Ids : escrows'[i] = escrows[i]
         /\ ledger' \in [Ids' -> [Addresses -> [Tokens -> Int]]]
         /\ statusCount' \in [Statuses -> Int]
         /\ nextEscrowId' \in Nat
         /\ escrowIds' \in Seq(Nat)
<1>1. nextEscrowId \in Nat /\ nextEscrowId' = nextEscrowId + 1
  BY DEF TypeOK, AddEscrow
<1>2. Ids' = Ids \cup {nextEscrowId} /\ nextEscrowId \notin Ids
  BY <1>1 DEF Ids
<1>3. OpenExpiry(ts) \in Nat
  BY DataAssumption DEF TypeOK, OpenExpiry, ValidExpiry
<1>4. NewEscrow(maker, terms, ts, dt) \in Escrow
  <2>1. terms.makerAmount \in Nat \ {0} /\ terms.takerAmount \in Nat \ {0}
    <3>1. \A a \in Amounts : a \in Int
      BY DataAssumption
    <3>2. terms.makerAmount \in Amounts /\ terms.takerAmount \in Amounts
      BY DEF Terms
    <3> QED BY <3>1, <3>2 DEF AddEscrow
  <2>2. terms.makerToken \in Tokens /\ terms.takerToken \in Tokens
    BY DEF Terms
  <2> QED BY <1>3, <2>1, <2>2, StatusValues DEF NewEscrow, Escrow
<1>5. /\ escrows' \in [Ids' -> Escrow]
      /\ escrows'[nextEscrowId] = NewEscrow(maker, terms, ts, dt)
      /\ \A i \in Ids : escrows'[i] = escrows[i]
  <2>1. escrows \in [Ids -> Escrow]
    BY DEF TypeOK
  <2>2. escrows' = [i \in Ids \cup {nextEscrowId} |->
                     IF i = nextEscrowId THEN NewEscrow(maker, terms, ts, dt) ELSE escrows[i]]
    BY DEF AddEscrow
  <2> HIDE DEF Ids, NewEscrow
  <2> QED BY <1>2, <1>4, <2>1, <2>2
<1>6. ledger' \in [Ids' -> [Addresses -> [Tokens -> Int]]]
  <2>1. ledger \in [Ids -> [Addresses -> [Tokens -> Int]]]
    BY DEF TypeOK
  <2>2. ledger' = [i \in Ids \cup {nextEscrowId} |->
                    IF i = nextEscrowId THEN [a \in Addresses |-> [t \in Tokens |-> 0]]
                    ELSE ledger[i]]
    BY DEF AddEscrow
  <2> QED BY <1>2, <2>1, <2>2
<1>7. statusCount' \in [Statuses -> Int]
  BY StatusValues DEF AddEscrow, TypeOK
<1>8. escrowIds' \in Seq(Nat)
  BY <1>1 DEF AddEscrow, TypeOK
<1> QED BY <1>1, <1>2, <1>5, <1>6, <1>7, <1>8

LEMMA TypeNext == TypeOK /\ [Next]_vars => TypeOK'
<1> SUFFICES ASSUME TypeOK, [Next]_vars PROVE TypeOK'
  OBVIOUS
<1> USE DEF config, index
<1>1. CASE UNCHANGED vars
  BY <1>1 DEF vars, TypeOK, Ids
<1>2. CASE Tick
  BY <1>2 DEF Tick, TypeOK, Ids
<1>3. ASSUME NEW caller \in Addresses, NEW recipient \in Addresses, NEW bps \in FeeRates,
             SetFeeConfig(caller, recipient, bps)
      PROVE  TypeOK'
  BY <1>3, DataAssumption DEF SetFeeConfig, TypeOK, Ids, ValidFeeRate, ValidExpiry
<1>4. ASSUME NEW caller \in Addresses, NEW c \in ExpiryConfigs, SetExpiryConfig(caller, c)
      PROVE  TypeOK'
  BY <1>4 DEF SetExpiryConfig, TypeOK, Ids, ValidFeeRate, ValidExpiry
<1>5. ASSUME NEW maker \in Addresses, NEW terms \in Terms, NEW ts \in ExpiryInputs,
             OpenEscrow(maker, terms, ts)
      PROVE  TypeOK'
  <2>1. AddEscrow(maker, terms, ts, NoOne)
    BY <1>5 DEF OpenEscrow
  <2>2. totals' \in [all : Nat, public : Nat, directed : Nat]
    <3>1. totals \in [all : Nat, public : Nat, directed : Nat]
      BY DEF TypeOK
    <3>2. totals' = [totals EXCEPT !.all = @ + 1, !.public = @ + 1]
      BY <1>5 DEF OpenEscrow
    <3>3. totals.all + 1 \in Nat /\ totals.public + 1 \in Nat
      BY <3>1
    <3> QED BY <3>1, <3>2, <3>3
  <2>3. UNCHANGED <<config, fees, now, balance>>
    BY <2>1 DEF AddEscrow
  <2> QED BY <2>1, <2>2, <2>3, OpenTypes DEF TypeOK, ValidFeeRate, ValidExpiry
<1>6. ASSUME NEW maker \in Addresses, NEW taker \in Addresses, NEW terms \in Terms,
             NEW ts \in ExpiryInputs, OpenEscrowDirected(maker, terms, ts, taker)
      PROVE  TypeOK'
  <2>1. AddEscrow(maker, terms, ts, taker)
    BY <1>6 DEF OpenEscrowDirected
  <2>2. totals' \in [all : Nat, public : Nat, directed : Nat]
    <3>1. totals \in [all : Nat, public : Nat, directed : Nat]
      BY DEF TypeOK
    <3>2. totals' = [totals EXCEPT !.all = @ + 1, !.directed = @ + 1]
      BY <1>6 DEF OpenEscrowDirected
    <3>3. totals.all + 1 \in Nat /\ totals.directed + 1 \in Nat
      BY <3>1
    <3> QED BY <3>1, <3>2, <3>3
  <2>3. UNCHANGED <<config, fees, now, balance>>
    BY <2>1 DEF AddEscrow
  <2> QED BY <2>1, <2>2, <2>3, OpenTypes DEF TypeOK, ValidFeeRate, ValidExpiry
<1>7. ASSUME NEW caller \in Addresses, NEW taker \in Addresses, NEW id \in Ids,
             SetDirectedTaker(caller, id, taker)
      PROVE  TypeOK'
  <2> DEFINE f == [escrows[id] EXCEPT !.directedTaker = taker, !.taker = NoOne]
  <2>1. f \in Escrow
    BY EscrowTyped DEF Escrow
  <2>2. Amend(id, f) /\ UNCHANGED <<config, index, fees, now, balance, ledger>>
    BY <1>7 DEF SetDirectedTaker
  <2> HIDE DEF f
  <2> QED BY <2>1, <2>2, Amended DEF TypeOK, Ids, ValidFeeRate, ValidExpiry
<1>8. ASSUME NEW caller \in Addresses, NEW id \in Ids, AcceptEscrow(caller, id)
      PROVE  TypeOK'
  <2> DEFINE f == [escrows[id] EXCEPT !.taker = caller, !.status = IF @ = OPEN THEN ACCEPTED ELSE @]
  <2>1. f \in Escrow
    BY EscrowTyped, StatusValues DEF Escrow
  <2>2. Amend(id, f) /\ UNCHANGED <<config, index, fees, now, balance, ledger>>
    BY <1>8 DEF AcceptEscrow
  <2> HIDE DEF f
  <2> QED BY <2>1, <2>2, Amended DEF TypeOK, Ids, ValidFeeRate, ValidExpiry
<1>9. ASSUME NEW caller \in Addresses, NEW id \in Ids, CancelBeforeFunding(caller, id)
      PROVE  TypeOK'
  <2> DEFINE f == [escrows[id] EXCEPT !.status = CANCELLED]
  <2>1. f \in Escrow
    BY EscrowTyped, StatusValues DEF Escrow
  <2>2. Amend(id, f) /\ UNCHANGED <<config, index, fees, now, balance, ledger>>
    BY <1>9 DEF CancelBeforeFunding
  <2> HIDE DEF f
  <2> QED BY <2>1, <2>2, Amended DEF TypeOK, Ids, ValidFeeRate, ValidExpiry
<1>10. ASSUME NEW caller \in Addresses, NEW id \in Ids, NEW acts \in Attachments,
              FundMaker(caller, id, acts)
       PROVE  TypeOK'
  <2> DEFINE e == escrows[id]
             f == [e EXCEPT !.makerFunded = TRUE, !.status = FUNDED_MAKER,
                            !.makerFundedExpiry = now + expiry.fundedSecs]
  <2>1. now + expiry.fundedSecs \in Nat
    BY DeadlineTyped
  <2>2. f \in Escrow
    BY <2>1, EscrowTyped, StatusValues DEF Escrow
  <2>3. Amend(id, f) /\ Credit(acts) /\ Book(id, caller, e.makerToken, - e.makerAmount)
    BY <1>10 DEF FundMaker
  <2>4. UNCHANGED <<config, index, fees, now>>
    BY <1>10 DEF FundMaker
  <2> HIDE DEF f
  <2> QED BY <2>2, <2>3, <2>4, EscrowTyped, Amended, Moved, Booked
          DEF TypeOK, ValidFeeRate, ValidExpiry
<1>11. ASSUME NEW caller \in Addresses, NEW id \in Ids, NEW acts \in Attachments,
              FundTaker(caller, id, acts)
       PROVE  TypeOK'
  <2> DEFINE e == escrows[id]
             f == [e EXCEPT !.takerFunded = TRUE, !.status = FUNDED_BOTH]
  <2>1. f \in Escrow
    BY EscrowTyped, StatusValues DEF Escrow
  <2>2. Amend(id, f) /\ Credit(acts) /\ Book(id, caller, e.takerToken, - e.takerAmount)
    BY <1>11 DEF FundTaker
  <2>3. UNCHANGED <<config, index, fees, now>>
    BY <1>11 DEF FundTaker
  <2> HIDE DEF f
  <2> QED BY <2>1, <2>2, <2>3, EscrowTyped, Amended, Moved, Booked
          DEF TypeOK, ValidFeeRate, ValidExpiry
<1>12. ASSUME NEW caller \in Addresses, NEW acts \in Attachments, WithdrawFees(caller, acts)
       PROVE  TypeOK'
  <2>1. fees' \in [Tokens -> Nat]
    BY <1>12 DEF WithdrawFees, TypeOK
  <2>2. balance' \in [Tokens -> Int]
    BY <1>12, Moved DEF WithdrawFees
  <2> QED BY <1>12, <2>1, <2>2 DEF WithdrawFees, TypeOK, Ids, ValidFeeRate, ValidExpiry
<1>13. ASSUME NEW caller \in Addresses, NEW id \in Ids, NEW acts \in Attachments,
              WithdrawMaker(caller, id, acts)
       PROVE  TypeOK'
  <2> DEFINE e == escrows[id]
             f == Finalized([e EXCEPT !.makerWithdrawn = TRUE])
             fee == CeilFee(e.takerAmount)
  <2>1. f \in Escrow
    BY EscrowTyped, StatusValues DEF Escrow, Finalized
  <2>2. fee \in Nat /\ e.takerAmount - fee \in Int
    <3>1. e.takerAmount \in Nat
      BY EscrowTyped
    <3>2. fee \in 0 .. e.takerAmount
      BY <3>1, FeeTyped
    <3> HIDE DEF e, fee
    <3> QED BY <3>1, <3>2
  <2>3. Amend(id, f) /\ Debit(acts) /\ Book(id, caller, e.takerToken, e.takerAmount - fee)
    BY <1>13 DEF WithdrawMaker
  <2>4. UNCHANGED <<config, index, now>> /\ fees' = [fees EXCEPT ![e.takerToken] = @ + fee]
    BY <1>13 DEF WithdrawMaker
  <2> HIDE DEF f, fee
  <2>5. fees' \in [Tokens -> Nat]
    <3>1. e.takerToken \in Tokens /\ fees \in [Tokens -> Nat]
      BY EscrowTyped DEF TypeOK
    <3>2. fees[e.takerToken] + fee \in Nat
      BY <2>2, <3>1
    <3> QED BY <2>4, <3>1, <3>2
  <2> QED BY <2>1, <2>2, <2>3, <2>4, <2>5, EscrowTyped, Amended, Moved, Booked
          DEF TypeOK, ValidFeeRate, ValidExpiry
<1>14. ASSUME NEW caller \in Addresses, NEW id \in Ids, NEW acts \in Attachments,
              WithdrawTaker(caller, id, acts)
       PROVE  TypeOK'
  <2> DEFINE e == escrows[id]
             f == Finalized([e EXCEPT !.takerWithdrawn = TRUE])
             fee == CeilFee(e.makerAmount)
  <2>1. f \in Escrow
    BY EscrowTyped, StatusValues DEF Escrow, Finalized
  <2>2. fee \in Nat /\ e.makerAmount - fee \in Int
    <3>1. e.makerAmount \in Nat
      BY EscrowTyped
    <3>2. fee \in 0 .. e.makerAmount
      BY <3>1, FeeTyped
    <3> HIDE DEF e, fee
    <3> QED BY <3>1, <3>2
  <2>3. Amend(id, f) /\ Debit(acts) /\ Book(id, caller, e.makerToken, e.makerAmount - fee)
    BY <1>14 DEF WithdrawTaker
  <2>4. UNCHANGED <<config, index, now>> /\ fees' = [fees EXCEPT ![e.makerToken] = @ + fee]
    BY <1>14 DEF WithdrawTaker
  <2> HIDE DEF f, fee
  <2>5. fees' \in [Tokens -> Nat]
    <3>1. e.makerToken \in Tokens /\ fees \in [Tokens -> Nat]
      BY EscrowTyped DEF TypeOK
    <3>2. fees[e.makerToken] + fee \in Nat
      BY <2>2, <3>1
    <3> QED BY <2>4, <3>1, <3>2
  <2> QED BY <2>1, <2>2, <2>3, <2>4, <2>5, EscrowTyped, Amended, Moved, Booked
          DEF TypeOK, ValidFeeRate, ValidExpiry
<1>15. ASSUME NEW caller \in Addresses, NEW id \in Ids, NEW acts \in Attachments,
              Refund(caller, id, acts)
       PROVE  TypeOK'
  <2> DEFINE e == escrows[id]
             token == IF caller = e.maker THEN e.makerToken ELSE e.takerToken
             amount == IF caller = e.maker THEN e.makerAmount ELSE e.takerAmount
             f == RefundClosed(IF caller = e.maker THEN [e EXCEPT !.makerRefunded = TRUE]
                               ELSE [e EXCEPT !.takerRefunded = TRUE])
  <2>1. f \in Escrow
    BY EscrowTyped, StatusValues DEF Escrow, RefundClosed
  <2>2. token \in Tokens /\ amount \in Int
    BY EscrowTyped
  <2>3. Amend(id, f) /\ Debit(acts) /\ Book(id, caller, token, amount)
    BY <1>15 DEF Refund
  <2>4. UNCHANGED <<config, index, fees, now>>
    BY <1>15 DEF Refund
  <2> HIDE DEF f, token, amount
  <2> QED BY <2>1, <2>2, <2>3, <2>4, Amended, Moved, Booked DEF TypeOK, ValidFeeRate, ValidExpiry
<1> QED
  BY <1>1, <1>2, <1>3, <1>4, <1>5, <1>6, <1>7, <1>8, <1>9, <1>10, <1>11, <1>12, <1>13,
     <1>14, <1>15
  DEF Next, Withdraw

(* Every reachable state is well typed: amounts of escrows stay positive,  *)
(* fees never negative, the configuration within its bounds. *)
THEOREM TypeCorrect == Spec => []TypeOK
BY TypeInit, TypeNext, PTL DEF Spec

-----------------------------------------------------------------------------
(* The life of one escrow *)

\* What one call can make of the record e of an escrow.
Moves(e, f) ==
  \/ f = e
  \/ \E a \in Addresses :
       /\ e.status = OPEN /\ ~ ExpiredForCurrentStage(e) /\ Directed(e) /\ a # e.maker
       /\ f = [e EXCEPT !.directedTaker = a, !.taker = NoOne]
  \/ \E a \in Addresses :
       /\ e.status \in {OPEN, ACCEPTED, FUNDED_MAKER} /\ ~ ExpiredForCurrentStage(e)
       /\ Directed(e) => a = e.directedTaker
       /\ a # e.maker /\ e.taker \in {NoOne, a}
       /\ f = [e EXCEPT !.taker = a, !.status = IF @ = OPEN THEN ACCEPTED ELSE @]
  \/ /\ e.status \in {OPEN, ACCEPTED}
     /\ f = [e EXCEPT !.status = CANCELLED]
  \/ \E d \in Nat :
       /\ e.status \in {OPEN, ACCEPTED} /\ ~ ExpiredForCurrentStage(e)
       /\ f = [e EXCEPT !.makerFunded = TRUE, !.status = FUNDED_MAKER, !.makerFundedExpiry = d]
  \/ /\ e.status = FUNDED_MAKER /\ ~ ExpiredForCurrentStage(e)
     /\ e.taker \in Addresses
     /\ f = [e EXCEPT !.takerFunded = TRUE, !.status = FUNDED_BOTH]
  \/ /\ e.status = FUNDED_BOTH /\ ~ e.makerWithdrawn
     /\ f = Finalized([e EXCEPT !.makerWithdrawn = TRUE])
  \/ /\ e.status = FUNDED_BOTH /\ ~ e.takerWithdrawn
     /\ f = Finalized([e EXCEPT !.takerWithdrawn = TRUE])
  \/ /\ ExpiredForCurrentStage(e) /\ e.makerFunded
     /\ f = RefundClosed([e EXCEPT !.makerRefunded = TRUE])
  \/ /\ ExpiredForCurrentStage(e) /\ e.takerFunded
     /\ f = RefundClosed([e EXCEPT !.takerRefunded = TRUE])

(* A step adds at most a fresh escrow and leaves every other one to Moves. *)
LEMMA EscrowSteps ==
  ASSUME TypeOK, [Next]_vars
  PROVE  /\ Ids \subseteq Ids'
         /\ \A i \in Ids : Moves(escrows[i], escrows'[i])
         /\ \A i \in Ids' \ Ids : \E maker \in Addresses, terms \in Terms, ts \in ExpiryInputs,
                                    dt \in Addresses \cup {NoOne} :
              dt # maker /\ escrows'[i] = NewEscrow(maker, terms, ts, dt)
<1> USE DEF config, index
<1> DEFINE Goal == /\ Ids \subseteq Ids'
                   /\ \A i \in Ids : Moves(escrows[i], escrows'[i])
                   /\ \A i \in Ids' \ Ids : \E maker \in Addresses, terms \in Terms,
                          ts \in ExpiryInputs, dt \in Addresses \cup {NoOne} :
                        dt # maker /\ escrows'[i] = NewEscrow(maker, terms, ts, dt)
<1>1. ASSUME UNCHANGED <<nextEscrowId, escrows>> PROVE Goal
  BY <1>1 DEF Ids, Moves
<1>2. ASSUME NEW id \in Ids, NEW f, Amend(id, f), UNCHANGED nextEscrowId,
             Moves(escrows[id], f)
      PROVE  Goal
  <2>1. escrows' = [escrows EXCEPT ![id] = f] /\ Ids' = Ids /\ escrows \in [Ids -> Escrow]
    BY <1>2 DEF Amend, Ids, TypeOK
  <2>2. ASSUME NEW i \in Ids PROVE Moves(escrows[i], escrows'[i])
    <3>1. CASE i = id
      <4>1. escrows'[i] = f
        BY <2>1, <3>1
      <4> QED BY <1>2, <3>1, <4>1
    <3>2. CASE i # id
      <4>1. escrows'[i] = escrows[i]
        BY <2>1, <3>2
      <4> QED BY <4>1 DEF Moves
    <3> QED BY <3>1, <3>2
  <2> QED BY <2>1, <2>2
<1>3. ASSUME NEW maker \in Addresses, NEW terms \in Terms, NEW ts \in ExpiryInputs,
             NEW dt \in Addresses \cup {NoOne}, dt # maker, AddEscrow(maker, terms, ts, dt)
      PROVE  Goal
  <2>1. \A i \in Ids : Moves(escrows[i], escrows'[i])
    BY <1>3, OpenTypes DEF Moves
  <2> QED BY <1>3, <2>1, OpenTypes
<1>4. ASSUME NEW id \in Ids, NEW caller \in Addresses, NEW acts,
             \/ \E a \in Addresses : SetDirectedTaker(caller, id, a)
             \/ AcceptEscrow(caller, id) \/ CancelBeforeFunding(caller, id)
             \/ FundMaker(caller, id, acts) \/ FundTaker(caller, id, acts)
             \/ WithdrawMaker(caller, id, acts) \/ WithdrawTaker(caller, id, acts)
             \/ Refund(caller, id, acts)
      PROVE  Goal
  <2> DEFINE e == escrows[id]
  <2> SUFFICES \E f : Amend(id, f) /\ UNCHANGED nextEscrowId /\ Moves(e, f)
    BY <1>2
  <2>1. ASSUME NEW a \in Addresses, SetDirectedTaker(caller, id, a)
        PROVE  \E f : Amend(id, f) /\ UNCHANGED nextEscrowId /\ Moves(e, f)
    BY <2>1 DEF SetDirectedTaker, Moves
  <2>2. CASE AcceptEscrow(caller, id)
    BY <2>2 DEF AcceptEscrow, Moves
  <2>3. CASE CancelBeforeFunding(caller, id)
    BY <2>3 DEF CancelBeforeFunding, Moves
  <2>4. CASE FundMaker(caller, id, acts)
    <3>1. now + expiry.fundedSecs \in Nat
      BY DeadlineTyped
    <3> QED BY <2>4, <3>1 DEF FundMaker, Moves
  <2>5. CASE FundTaker(caller, id, acts)
    BY <2>5 DEF FundTaker, Moves
  <2>6. CASE WithdrawMaker(caller, id, acts)
    BY <2>6 DEF WithdrawMaker, Moves
  <2>7. CASE WithdrawTaker(caller, id, acts)
    BY <2>7 DEF WithdrawTaker, Moves
  <2>8. CASE Refund(caller, id, acts)
    BY <2>8 DEF Refund, Moves
  <2> QED BY <1>4, <2>1, <2>2, <2>3, <2>4, <2>5, <2>6, <2>7, <2>8
<1>5. ASSUME NEW caller \in Addresses, NEW acts, WithdrawFees(caller, acts) PROVE Goal
  BY <1>1, <1>5 DEF WithdrawFees
<1>6. ASSUME Tick \/ UNCHANGED vars PROVE Goal
  BY <1>1, <1>6 DEF Tick, vars
<1>7. ASSUME NEW caller, NEW r, NEW x, SetFeeConfig(caller, r, x) \/ SetExpiryConfig(caller, x)
      PROVE  Goal
  BY <1>1, <1>7 DEF SetFeeConfig, SetExpiryConfig
<1>8. ASSUME NEW maker \in Addresses, NEW terms \in Terms, NEW ts \in ExpiryInputs,
             \/ OpenEscrow(maker, terms, ts)
             \/ \E taker \in Addresses : OpenEscrowDirected(maker, terms, ts, taker)
      PROVE  Goal
  <2>1. NoOne # maker
    BY DataAssumption
  <2> QED BY <1>3, <1>8, <2>1 DEF OpenEscrow, OpenEscrowDirected
<1> HIDE DEF Goal
<1>9. Goal
  <2>1. \A caller, taker \in Addresses, id \in Ids : SetDirectedTaker(caller, id, taker) => Goal
    BY <1>4
  <2>2. \A caller \in Addresses, id \in Ids :
          AcceptEscrow(caller, id) \/ CancelBeforeFunding(caller, id) => Goal
    BY <1>4
  <2>3. \A caller \in Addresses, id \in Ids, acts \in Attachments :
          FundMaker(caller, id, acts) \/ FundTaker(caller, id, acts) => Goal
    BY <1>4
  <2>4. \A caller \in Addresses, id \in Ids, acts \in Attachments :
          (WithdrawMaker(caller, id, acts) \/ WithdrawTaker(caller, id, acts)
             \/ Refund(caller, id, acts)) => Goal
    BY <1>4
  <2>5. \A maker \in Addresses, terms \in Terms, ts \in ExpiryInputs : OpenEscrow(maker, terms, ts) => Goal
    BY <1>8
  <2>6. \A maker, taker \in Addresses, terms \in Terms, ts \in ExpiryInputs :
          OpenEscrowDirected(maker, terms, ts, taker) => Goal
    BY <1>8
  <2>7. \A caller, r \in Addresses, bps \in FeeRates : SetFeeConfig(caller, r, bps) => Goal
    BY <1>7
  <2>8. \A caller \in Addresses, c \in ExpiryConfigs : SetExpiryConfig(caller, c) => Goal
    BY <1>7
  <2>9. \A caller \in Addresses, acts \in Attachments : WithdrawFees(caller, acts) => Goal
    BY <1>5
  <2>10. \A caller \in Addresses, id \in 0 .. MaxEscrows, acts \in Attachments :
           Withdraw(caller, id, acts) => Goal
    BY <2>4, <2>9 DEF Withdraw
  <2>11. CASE Next
    BY <2>1, <2>2, <2>3, <2>4, <2>5, <2>6, <2>7, <2>8, <2>10, <2>11, <1>6 DEF Next
  <2> QED BY <1>6, <2>11
<1> QED BY <1>9 DEF Goal

(* Each thing a call can make of an escrow keeps its status and its money  *)
(* in step, and its taker entitled. *)
LEMMA MovesFit ==
  ASSUME NEW e \in Escrow, NEW f \in Escrow, StatusFits(e), TakerFits(e), Moves(e, f)
  PROVE  StatusFits(f) /\ TakerFits(f)
<1> USE DEF StatusFits, TakerFits, Escrow, OPEN, ACCEPTED, FUNDED_MAKER, FUNDED_BOTH, EXECUTED,
        REFUNDED, CANCELLED
<1>1. ASSUME NEW a \in Addresses, e.status = OPEN, Directed(e), a # e.maker,
             f = [e EXCEPT !.directedTaker = a, !.taker = NoOne]
      PROVE  StatusFits(f) /\ TakerFits(f)
  BY <1>1
<1>2. ASSUME NEW a \in Addresses, e.status \in {OPEN, ACCEPTED, FUNDED_MAKER},
             Directed(e) => a = e.directedTaker, a # e.maker, e.taker \in {NoOne, a},
             f = [e EXCEPT !.taker = a, !.status = IF @ = OPEN THEN ACCEPTED ELSE @]
      PROVE  StatusFits(f) /\ TakerFits(f)
  <2>1. a # NoOne
    BY DataAssumption
  <2>2. f.directedTaker \in {NoOne, a}
    BY <1>2 DEF Directed
  <2> QED BY <1>2, <2>1, <2>2
<1>3. ASSUME e.status \in {OPEN, ACCEPTED}, f = [e EXCEPT !.status = CANCELLED]
      PROVE  StatusFits(f) /\ TakerFits(f)
  BY <1>3
<1>4. ASSUME NEW d \in Nat, e.status \in {OPEN, ACCEPTED},
             f = [e EXCEPT !.makerFunded = TRUE, !.status = FUNDED_MAKER, !.makerFundedExpiry = d]
      PROVE  StatusFits(f) /\ TakerFits(f)
  BY <1>4
<1>5. ASSUME e.status = FUNDED_MAKER, e.taker \in Addresses,
             f = [e EXCEPT !.takerFunded = TRUE, !.status = FUNDED_BOTH]
      PROVE  StatusFits(f) /\ TakerFits(f)
  BY <1>5, DataAssumption
<1>6. ASSUME e.status = FUNDED_BOTH, f = Finalized([e EXCEPT !.makerWithdrawn = TRUE])
      PROVE  StatusFits(f) /\ TakerFits(f)
  BY <1>6 DEF Finalized
<1>7. ASSUME e.status = FUNDED_BOTH, f = Finalized([e EXCEPT !.takerWithdrawn = TRUE])
      PROVE  StatusFits(f) /\ TakerFits(f)
  BY <1>7 DEF Finalized
<1>8. ASSUME ExpiredForCurrentStage(e), e.makerFunded,
             f = RefundClosed([e EXCEPT !.makerRefunded = TRUE])
      PROVE  StatusFits(f) /\ TakerFits(f)
  <2>1. e.status = FUNDED_MAKER
    BY <1>8 DEF ExpiredForCurrentStage
  <2> QED BY <1>8, <2>1 DEF RefundClosed
<1>9. ~ (ExpiredForCurrentStage(e) /\ e.takerFunded)
  BY DEF ExpiredForCurrentStage
<1> QED
  BY <1>1, <1>2, <1>3, <1>4, <1>5, <1>6, <1>7, <1>8, <1>9 DEF Moves

LEMMA NewFits ==
  ASSUME NEW maker, NEW terms, NEW ts, NEW dt
  PROVE  LET e == NewEscrow(maker, terms, ts, dt) IN StatusFits(e) /\ TakerFits(e)
BY DEF NewEscrow, StatusFits, TakerFits, OPEN, ACCEPTED, FUNDED_MAKER, FUNDED_BOTH, EXECUTED,
       REFUNDED

LEMMA FitInit == Init => StatusMatchesMoney /\ TakerIsEntitled
<1> SUFFICES ASSUME Init PROVE Ids = {}
  BY DEF StatusMatchesMoney, TakerIsEntitled
<1> QED BY DEF Init, Ids

LEMMA FitNext ==
  ASSUME TypeOK, TypeOK', StatusMatchesMoney, TakerIsEntitled, [Next]_vars
  PROVE  StatusMatchesMoney' /\ TakerIsEntitled'
<1> SUFFICES ASSUME NEW i \in Ids'
             PROVE  StatusFits(escrows'[i]) /\ TakerFits(escrows'[i])
  BY DEF StatusMatchesMoney, TakerIsEntitled, StatusFits, TakerFits
<1>1. escrows'[i] \in Escrow
  BY DEF TypeOK
<1>2. CASE i \in Ids
  <2>1. escrows[i] \in Escrow /\ Moves(escrows[i], escrows'[i])
    BY <1>2, EscrowSteps DEF TypeOK
  <2>2. StatusFits(escrows[i]) /\ TakerFits(escrows[i])
    BY <1>2 DEF StatusMatchesMoney, TakerIsEntitled
  <2> QED BY <1>1, <2>1, <2>2, MovesFit
<1>3. CASE i \notin Ids
  <2>1. PICK maker \in Addresses, terms \in Terms, ts \in ExpiryInputs, dt \in Addresses \cup {NoOne} :
          escrows'[i] = NewEscrow(maker, terms, ts, dt)
    BY <1>3, EscrowSteps
  <2> QED BY <2>1, NewFits
<1> QED BY <1>2, <1>3

(* In every reachable state an escrow's status says which money moved.     *)
THEOREM StatusAlwaysMatchesMoney == Spec => []StatusMatchesMoney
<1>1. Init => TypeOK /\ StatusMatchesMoney /\ TakerIsEntitled
  BY TypeInit, FitInit
<1>2. TypeOK /\ StatusMatchesMoney /\ TakerIsEntitled /\ [Next]_vars
        => (TypeOK /\ StatusMatchesMoney /\ TakerIsEntitled)'
  BY TypeNext, FitNext
<1> QED BY <1>1, <1>2, PTL DEF Spec

(* The taker of an escrow is never its maker, is the directed one if there *)
(* is one, and is known before the taker's money comes in. *)
THEOREM TakerAlwaysEntitled == Spec => []TakerIsEntitled
<1>1. Init => TypeOK /\ StatusMatchesMoney /\ TakerIsEntitled
  BY TypeInit, FitInit
<1>2. TypeOK /\ StatusMatchesMoney /\ TakerIsEntitled /\ [Next]_vars
        => (TypeOK /\ StatusMatchesMoney /\ TakerIsEntitled)'
  BY TypeNext, FitNext
<1> QED BY <1>1, <1>2, PTL DEF Spec

(* Nothing a call does replaces a recorded taker. *)
THEOREM TakerNeverReplaced == Spec => TakerStays
<1> DEFINE IInv == TypeOK /\ StatusMatchesMoney /\ TakerIsEntitled
           Stays == \A i \in Ids : escrows[i].taker # NoOne => escrows'[i].taker = escrows[i].taker
<1>1. Init => IInv
  BY TypeInit, FitInit
<1>2. IInv /\ [Next]_vars => IInv'
  BY TypeNext, FitNext
<1>3. IInv /\ [Next]_vars => [Stays]_vars
  <2> SUFFICES ASSUME IInv, [Next]_vars, NEW i \in Ids, escrows[i].taker # NoOne
               PROVE  escrows'[i].taker = escrows[i].taker
    OBVIOUS
  <2>1. escrows[i] \in Escrow /\ Moves(escrows[i], escrows'[i])
    BY EscrowSteps DEF TypeOK
  <2>2. escrows[i].status # OPEN
    BY DEF TakerIsEntitled, TakerFits
  <2> QED BY <2>1, <2>2 DEF Moves, Finalized, RefundClosed, Escrow
<1> HIDE DEF IInv
<1> QED BY <1>1, <1>2, <1>3, PTL DEF Spec, TakerStays

(* An expired escrow is closed or left alone. *)
THEOREM ExpiredIsOnlyClosed == Spec => ExpiredOnlyCloses
<1> DEFINE IInv == TypeOK /\ StatusMatchesMoney /\ TakerIsEntitled
           Closes == \A i \in Ids : ExpiredForCurrentStage(escrows[i]) =>
                       escrows'[i] = escrows[i] \/ escrows'[i].status \in {CANCELLED, REFUNDED}
<1>1. Init => IInv
  BY TypeInit, FitInit
<1>2. IInv /\ [Next]_vars => IInv'
  BY TypeNext, FitNext
<1>3. IInv /\ [Next]_vars => [Closes]_vars
  <2> SUFFICES ASSUME IInv, [Next]_vars, NEW i \in Ids, ExpiredForCurrentStage(escrows[i])
               PROVE  escrows'[i] = escrows[i] \/ escrows'[i].status \in {CANCELLED, REFUNDED}
    OBVIOUS
  <2> DEFINE e == escrows[i]
  <2>1. e \in Escrow /\ StatusFits(e) /\ Moves(e, escrows'[i])
    BY EscrowSteps DEF TypeOK, StatusMatchesMoney
  <2>2. e.status \in {OPEN, ACCEPTED, FUNDED_MAKER} /\ ~ e.takerFunded /\ e.status # FUNDED_BOTH
    BY <2>1 DEF ExpiredForCurrentStage, StatusFits, OPEN, ACCEPTED, FUNDED_MAKER, FUNDED_BOTH,
                EXECUTED
  <2> QED BY <2>1, <2>2 DEF Moves, RefundClosed, Escrow
<1> HIDE DEF IInv
<1> QED BY <1>1, <1>2, <1>3, PTL DEF Spec, ExpiredOnlyCloses

-----------------------------------------------------------------------------
(* Refinement of AtomicSwap *)

\* The legs as functions of the record.
MakerLegOf(e) ==
  IF ~ e.makerFunded THEN "away" ELSE IF e.makerRefunded THEN "returned"
  ELSE IF e.takerWithdrawn THEN "paid" ELSE "held"
TakerLegOf(e) ==
  IF ~ e.takerFunded THEN "away" ELSE IF e.takerRefunded THEN "returned"
  ELSE IF e.makerWithdrawn THEN "paid" ELSE "held"

(* A call moves one leg of one swap, in an order the abstract swap allows. *)
LEMMA LegsMove ==
  ASSUME NEW e \in Escrow, NEW f \in Escrow, StatusFits(e), Moves(e, f)
  PROVE  LET m == MakerLegOf(e) n == MakerLegOf(f) s == TakerLegOf(e) t == TakerLegOf(f) IN
         \/ m = n /\ s = t
         \/ m = "away" /\ s = "away" /\ n = "held" /\ t = s
         \/ m = "held" /\ s = "away" /\ t = "held" /\ n = m
         \/ m = "held" /\ s = "away" /\ n = "returned" /\ t = s
         \/ m = "held" /\ s \in {"held", "paid"} /\ n = "paid" /\ t = s
         \/ s = "held" /\ m \in {"held", "paid"} /\ t = "paid" /\ n = m
<1> DEFINE Goal == LET m == MakerLegOf(e) n == MakerLegOf(f) s == TakerLegOf(e) t == TakerLegOf(f) IN
         \/ m = n /\ s = t
         \/ m = "away" /\ s = "away" /\ n = "held" /\ t = s
         \/ m = "held" /\ s = "away" /\ t = "held" /\ n = m
         \/ m = "held" /\ s = "away" /\ n = "returned" /\ t = s
         \/ m = "held" /\ s \in {"held", "paid"} /\ n = "paid" /\ t = s
         \/ s = "held" /\ m \in {"held", "paid"} /\ t = "paid" /\ n = m
<1> USE DEF StatusFits, Escrow, OPEN, ACCEPTED, FUNDED_MAKER, FUNDED_BOTH, EXECUTED, REFUNDED,
        CANCELLED, MakerLegOf, TakerLegOf
<1>1. ASSUME \/ f = e
             \/ \E a \in Addresses : f = [e EXCEPT !.directedTaker = a, !.taker = NoOne]
             \/ \E a \in Addresses :
                  f = [e EXCEPT !.taker = a, !.status = IF @ = OPEN THEN ACCEPTED ELSE @]
             \/ f = [e EXCEPT !.status = CANCELLED]
      PROVE  Goal
  <2>1. /\ f.makerFunded = e.makerFunded /\ f.makerRefunded = e.makerRefunded
        /\ f.takerFunded = e.takerFunded /\ f.takerRefunded = e.takerRefunded
        /\ f.makerWithdrawn = e.makerWithdrawn /\ f.takerWithdrawn = e.takerWithdrawn
    <3>1. CASE f = e \/ f = [e EXCEPT !.status = CANCELLED]
      BY <3>1
    <3>2. ASSUME NEW a \in Addresses, f = [e EXCEPT !.directedTaker = a, !.taker = NoOne]
          PROVE  <2>1!:
      BY <3>2
    <3>3. ASSUME NEW a \in Addresses,
                 f = [e EXCEPT !.taker = a, !.status = IF @ = OPEN THEN ACCEPTED ELSE @]
          PROVE  <2>1!:
      BY <3>3
    <3> QED BY <1>1, <3>1, <3>2, <3>3
  <2>2. MakerLegOf(f) = MakerLegOf(e) /\ TakerLegOf(f) = TakerLegOf(e)
    BY <2>1
  <2> QED BY <2>2
<1>2. ASSUME NEW d \in Nat, e.status \in {OPEN, ACCEPTED},
             f = [e EXCEPT !.makerFunded = TRUE, !.status = FUNDED_MAKER, !.makerFundedExpiry = d]
      PROVE  Goal
  BY <1>2
<1>3. ASSUME e.status = FUNDED_MAKER, f = [e EXCEPT !.takerFunded = TRUE, !.status = FUNDED_BOTH]
      PROVE  Goal
  BY <1>3
<1>4. ASSUME e.status = FUNDED_BOTH, ~ e.makerWithdrawn,
             f = Finalized([e EXCEPT !.makerWithdrawn = TRUE])
      PROVE  Goal
  BY <1>4 DEF Finalized
<1>5. ASSUME e.status = FUNDED_BOTH, ~ e.takerWithdrawn,
             f = Finalized([e EXCEPT !.takerWithdrawn = TRUE])
      PROVE  Goal
  BY <1>5 DEF Finalized
<1>6. ASSUME ExpiredForCurrentStage(e), e.makerFunded,
             f = RefundClosed([e EXCEPT !.makerRefunded = TRUE])
      PROVE  Goal
  <2>1. e.status = FUNDED_MAKER
    BY <1>6 DEF ExpiredForCurrentStage
  <2> QED BY <1>6, <2>1 DEF RefundClosed
<1>7. ~ (ExpiredForCurrentStage(e) /\ e.takerFunded)
  BY DEF ExpiredForCurrentStage
<1> HIDE DEF Goal
<1>8. Goal
  BY <1>1, <1>2, <1>3, <1>4, <1>5, <1>6, <1>7 DEF Moves
<1> QED BY <1>8 DEF Goal

LEMMA SwapStep ==
  ASSUME TypeOK, TypeOK', StatusMatchesMoney, [Next]_vars, NEW id \in AllIds
  PROVE  [Swap(id)!Next]_(Swap(id)!legs)
<1> USE DEF Swap!Next, Swap!legs, Swap!DepositMakerLeg, Swap!DepositTakerLeg,
        Swap!ReturnMakerLeg, Swap!PayTaker, Swap!PayMaker
<1>1. CASE id \in Ids
  <2>1. id \in Ids'
    BY <1>1, EscrowSteps
  <2>2. /\ escrows[id] \in Escrow /\ escrows'[id] \in Escrow
        /\ StatusFits(escrows[id]) /\ Moves(escrows[id], escrows'[id])
    BY <1>1, <2>1, EscrowSteps DEF TypeOK, StatusMatchesMoney
  <2>3. /\ MakerLeg(id) = MakerLegOf(escrows[id]) /\ TakerLeg(id) = TakerLegOf(escrows[id])
        /\ MakerLeg(id)' = MakerLegOf(escrows'[id]) /\ TakerLeg(id)' = TakerLegOf(escrows'[id])
    BY <1>1, <2>1 DEF MakerLeg, TakerLeg, MakerLegOf, TakerLegOf
  <2> QED BY <2>2, <2>3, LegsMove
<1>2. CASE id \notin Ids
  <2>1. MakerLeg(id) = "away" /\ TakerLeg(id) = "away"
    BY <1>2 DEF MakerLeg, TakerLeg
  <2>2. MakerLeg(id)' = "away" /\ TakerLeg(id)' = "away"
    <3>1. CASE id \notin Ids'
      BY <3>1 DEF MakerLeg, TakerLeg
    <3>2. CASE id \in Ids'
      <4>1. PICK maker \in Addresses, terms \in Terms, ts \in ExpiryInputs,
                 dt \in Addresses \cup {NoOne} : escrows'[id] = NewEscrow(maker, terms, ts, dt)
        BY <1>2, <3>2, EscrowSteps
      <4>2. ~ escrows'[id].makerFunded /\ ~ escrows'[id].takerFunded
        BY <4>1 DEF NewEscrow
      <4> QED BY <4>2 DEF MakerLeg, TakerLeg
    <3> QED BY <3>1, <3>2
  <2> QED BY <2>1, <2>2
<1> QED BY <1>1, <1>2

(* Every escrow implements an atomic swap. *)
THEOREM SwapsImplementAtomicSwap == Spec => SwapsAreAtomic
<1> DEFINE IInv == TypeOK /\ StatusMatchesMoney /\ TakerIsEntitled
           Steps == \A id \in AllIds : [Swap(id)!Next]_(Swap(id)!legs)
           Starts == \A id \in AllIds : Swap(id)!Init
<1>1. Init => IInv /\ Starts
  <2> SUFFICES ASSUME Init, NEW id \in AllIds PROVE Swap(id)!Init
    BY TypeInit, FitInit
  <2>1. id \notin Ids
    BY DEF Init, Ids
  <2> QED BY <2>1 DEF Swap!Init, MakerLeg, TakerLeg
<1>2. IInv /\ [Next]_vars => IInv'
  BY TypeNext, FitNext
<1>3. IInv /\ [Next]_vars => [Steps]_vars
  BY TypeNext, SwapStep
<1> HIDE DEF IInv, Starts
<1>4. Spec => Starts /\ [][Steps]_vars
  BY <1>1, <1>2, <1>3, PTL DEF Spec
<1> QED BY <1>4 DEF SwapsAreAtomic, Starts

-----------------------------------------------------------------------------
(* Solvency *)

LEMMA IdsFinite == TypeOK => IsFiniteSet(Ids)
BY FS_Interval DEF TypeOK, Ids

LEMMA HeldNat ==
  ASSUME NEW e \in Escrow, NEW t
  PROVE  HeldFor(e, t) \in Nat
BY DEF HeldFor, Escrow

LEMMA AttachedExactly ==
  ASSUME NEW acts, NEW token, NEW amount, Exactly(acts, token, amount), NEW t
  PROVE  Attached(acts, t) = IF t = token THEN amount ELSE 0
BY DEF Exactly, Attached

LEMMA AmountsTyped ==
  ASSUME TypeOK, NEW id \in Ids, NEW t \in Tokens
  PROVE  /\ HeldFor(escrows[id], t) \in Int
         /\ balance[t] \in Int /\ fees[t] \in Int
         /\ escrows[id].makerAmount \in Int /\ escrows[id].takerAmount \in Int
<1>1. HeldFor(escrows[id], t) \in Nat
  BY EscrowTyped, HeldNat
<1>2. balance[t] \in Int /\ fees[t] \in Nat
  BY DEF TypeOK
<1> QED BY <1>1, <1>2, EscrowTyped

(* The custody is a sum over the escrows: changing one of them changes it  *)
(* by what that one holds more or less. *)
LEMMA CustodyAmended ==
  ASSUME TypeOK, NEW id \in Ids, NEW e \in Escrow, Amend(id, e), UNCHANGED nextEscrowId, NEW t
  PROVE  /\ Custody(t) \in Int
         /\ Custody(t)' = Custody(t) - HeldFor(escrows[id], t) + HeldFor(e, t)
<1> DEFINE f == [i \in Ids |-> HeldFor(escrows[i], t)]
           g == [i \in Ids |-> HeldFor(escrows'[i], t)]
<1>1. /\ escrows \in [Ids -> Escrow] /\ escrows' \in [Ids -> Escrow]
      /\ escrows'[id] = e /\ \A i \in Ids \ {id} : escrows'[i] = escrows[i]
  BY Amended DEF TypeOK, Ids
<1>2. f \in [Ids -> Int] /\ g \in [Ids -> Int]
  <2>1. \A i \in Ids : HeldFor(escrows[i], t) \in Nat /\ HeldFor(escrows'[i], t) \in Nat
    BY <1>1, HeldNat
  <2> QED BY <2>1
<1>3. \A i \in Ids \ {id} : g[i] = f[i]
  BY <1>1
<1>4. /\ SumFunctionOnSet(f, Ids) \in Int
      /\ SumFunctionOnSet(g, Ids) = SumFunctionOnSet(f, Ids) - f[id] + g[id]
  <2> HIDE DEF f, g
  <2> QED BY <1>2, <1>3, IdsFinite, SumUpdate
<1>5. f[id] = HeldFor(escrows[id], t) /\ g[id] = HeldFor(e, t)
  BY <1>1
<1>6. Custody(t) = SumFunctionOnSet(f, Ids)
  BY DEF Custody
<1>7. Custody(t)' = SumFunctionOnSet(g, Ids)
  <2>1. Ids' = Ids
    BY DEF Ids
  <2>2. [i \in Ids |-> HeldFor(escrows[i], t)]' = g
    BY <2>1 DEF HeldFor, MakerLegHeld, TakerLegHeld
  <2> QED BY <2>1, <2>2 DEF Custody
<1> HIDE DEF f, g
<1> QED BY <1>4, <1>5, <1>6, <1>7

(* A fresh escrow holds nothing. *)
LEMMA CustodyOpened ==
  ASSUME TypeOK, NEW maker \in Addresses, NEW terms \in Terms, NEW ts \in ExpiryInputs,
         NEW dt \in Addresses \cup {NoOne}, AddEscrow(maker, terms, ts, dt), NEW t
  PROVE  Custody(t) \in Int /\ Custody(t)' = Custody(t)
<1> DEFINE f == [i \in Ids |-> HeldFor(escrows[i], t)]
           g == [i \in Ids \cup {nextEscrowId} |-> HeldFor(escrows'[i], t)]
           e == NewEscrow(maker, terms, ts, dt)
<1>1. /\ escrows \in [Ids -> Escrow] /\ escrows' \in [Ids' -> Escrow]
      /\ escrows'[nextEscrowId] = e /\ \A i \in Ids : escrows'[i] = escrows[i]
      /\ Ids' = Ids \cup {nextEscrowId} /\ nextEscrowId \notin Ids
  BY OpenTypes DEF TypeOK
<1> HIDE DEF e
<1>2. f \in [Ids -> Int] /\ g \in [Ids \cup {nextEscrowId} -> Int]
  <2>1. \A i \in Ids : HeldFor(escrows[i], t) \in Nat
    BY <1>1, HeldNat
  <2>2. \A i \in Ids \cup {nextEscrowId} : HeldFor(escrows'[i], t) \in Nat
    BY <1>1, HeldNat
  <2> QED BY <2>1, <2>2
<1>3. \A i \in Ids : g[i] = f[i]
  BY <1>1
<1>4. /\ SumFunctionOnSet(f, Ids) \in Int
      /\ SumFunctionOnSet(g, Ids \cup {nextEscrowId}) = SumFunctionOnSet(f, Ids) + g[nextEscrowId]
  <2> DEFINE n == nextEscrowId
  <2>1. IsFiniteSet(Ids) /\ n \notin Ids /\ f \in [Ids -> Int] /\ g \in [Ids \cup {n} -> Int]
    BY <1>1, <1>2, IdsFinite
  <2> HIDE DEF f, g, n
  <2>2. /\ SumFunctionOnSet(f, Ids) \in Int
        /\ SumFunctionOnSet(g, Ids \cup {n}) = SumFunctionOnSet(f, Ids) + g[n]
    BY <1>3, <2>1, SumAdd
  <2> QED BY <2>2 DEF n
<1>5. g[nextEscrowId] = 0
  <2>1. HeldFor(e, t) = 0
    BY DEF e, HeldFor, MakerLegHeld, TakerLegHeld, NewEscrow
  <2> QED BY <1>1, <2>1
<1>6. Custody(t) = SumFunctionOnSet(f, Ids)
  BY DEF Custody
<1>7. Custody(t)' = SumFunctionOnSet(g, Ids \cup {nextEscrowId})
  <2>1. [i \in Ids |-> HeldFor(escrows[i], t)]' = g
    BY <1>1 DEF HeldFor, MakerLegHeld, TakerLegHeld
  <2> QED BY <1>1, <2>1 DEF Custody
<1> HIDE DEF f, g
<1> QED BY <1>4, <1>5, <1>6, <1>7

LEMMA CustodyKept ==
  ASSUME UNCHANGED <<nextEscrowId, escrows>>, NEW t
  PROVE  Custody(t)' = Custody(t)
BY DEF Custody, Ids, HeldFor, MakerLegHeld, TakerLegHeld

LEMMA CustodyInt ==
  ASSUME TypeOK, NEW t
  PROVE  Custody(t) \in Int
<1> DEFINE f == [i \in Ids |-> HeldFor(escrows[i], t)]
<1>1. \A i \in Ids : HeldFor(escrows[i], t) \in Nat
  BY HeldNat DEF TypeOK
<1>2. f \in [Ids -> Nat]
  BY <1>1
<1>3. Custody(t) = SumFunctionOnSet(f, Ids)
  BY DEF Custody
<1> HIDE DEF f
<1> QED BY <1>2, <1>3, IdsFinite, SumBounds

LEMMA SolvencyInit == Init => Solvency
<1> SUFFICES ASSUME Init, NEW t \in Tokens PROVE Custody(t) = 0
  BY DEF Solvency, Init
<1>1. Ids = {}
  BY DEF Init, Ids
<1> QED BY <1>1, SumEmpty DEF Custody

(* A call on one escrow keeps the books if the money it moves is the       *)
(* difference it makes to what is held and to the fees owed. *)
LEMMA BooksBalance ==
  ASSUME TypeOK, TypeOK', Solvency, NEW id \in Ids, NEW f \in Escrow, Amend(id, f),
         UNCHANGED nextEscrowId,
         \A t \in Tokens : balance'[t] = balance[t] - HeldFor(escrows[id], t) + HeldFor(f, t)
                                           - fees[t] + fees'[t]
  PROVE  Solvency'
<1> SUFFICES ASSUME NEW t \in Tokens PROVE balance'[t] = Custody(t)' + fees'[t]
  BY DEF Solvency, Custody, Ids, HeldFor, MakerLegHeld, TakerLegHeld
<1>1. /\ balance[t] \in Int /\ fees[t] \in Int /\ fees'[t] \in Int
      /\ HeldFor(escrows[id], t) \in Int /\ HeldFor(f, t) \in Int
  <2>1. escrows[id] \in Escrow
    BY EscrowTyped
  <2>2. HeldFor(escrows[id], t) \in Nat /\ HeldFor(f, t) \in Nat
    BY <2>1, HeldNat
  <2> QED BY <2>2 DEF TypeOK
<1>2. Custody(t) \in Int /\ Custody(t)' = Custody(t) - HeldFor(escrows[id], t) + HeldFor(f, t)
  BY CustodyAmended
<1>3. balance[t] = Custody(t) + fees[t]
  BY DEF Solvency
<1> QED BY <1>1, <1>2, <1>3

\* The flags that say what is in custody, and the tokens and amounts.
SameLegs(e, f) ==
  /\ f.makerToken = e.makerToken /\ f.makerAmount = e.makerAmount
  /\ f.takerToken = e.takerToken /\ f.takerAmount = e.takerAmount
  /\ f.makerFunded = e.makerFunded /\ f.takerFunded = e.takerFunded
  /\ f.makerRefunded = e.makerRefunded /\ f.takerRefunded = e.takerRefunded
  /\ f.makerWithdrawn = e.makerWithdrawn /\ f.takerWithdrawn = e.takerWithdrawn

(* The calls that move no money. *)
LEMMA BooksUntouched ==
  ASSUME TypeOK, TypeOK', Solvency, NEW id \in Ids, NEW f \in Escrow, Amend(id, f),
         SameLegs(escrows[id], f), UNCHANGED <<nextEscrowId, balance, fees>>
  PROVE  Solvency'
<1> SUFFICES ASSUME NEW t \in Tokens
             PROVE  balance[t] = balance[t] - HeldFor(escrows[id], t) + HeldFor(f, t)
                                   - fees[t] + fees[t]
  BY BooksBalance
<1>1. HeldFor(f, t) = HeldFor(escrows[id], t)
  BY DEF SameLegs, HeldFor, MakerLegHeld, TakerLegHeld
<1>2. HeldFor(f, t) \in Int /\ balance[t] \in Int /\ fees[t] \in Int
  <2>1. HeldFor(f, t) \in Nat
    BY HeldNat
  <2> QED BY <2>1 DEF TypeOK
<1> QED BY <1>1, <1>2

LEMMA FundMakerSolvent ==
  ASSUME TypeOK, TypeOK', StatusMatchesMoney, Solvency,
         NEW caller \in Addresses, NEW id \in Ids, NEW acts \in Attachments,
         FundMaker(caller, id, acts)
  PROVE  Solvency'
<1> USE DEF config, index
<1> DEFINE e == escrows[id]
           d == now + expiry.fundedSecs
           f == [e EXCEPT !.makerFunded = TRUE, !.status = FUNDED_MAKER,
                          !.makerFundedExpiry = d]
<1>1. /\ e.status \in {OPEN, ACCEPTED} /\ ~ e.makerFunded /\ Exactly(acts, e.makerToken, e.makerAmount)
      /\ Amend(id, f) /\ Credit(acts) /\ UNCHANGED <<nextEscrowId, fees>>
  BY DEF FundMaker
<1>2. e \in Escrow /\ StatusFits(e)
  BY EscrowTyped DEF StatusMatchesMoney
<1>3. f \in Escrow
  <2>1. d \in Nat
    BY DeadlineTyped
  <2> HIDE DEF d
  <2> QED BY <1>2, <2>1, StatusValues DEF Escrow
<1>4. ~ e.makerRefunded /\ ~ e.takerWithdrawn
  BY <1>1, <1>2 DEF StatusFits, OPEN, ACCEPTED, FUNDED_BOTH, EXECUTED, REFUNDED
<1>5. ASSUME NEW t \in Tokens
      PROVE  balance'[t] = balance[t] - HeldFor(e, t) + HeldFor(f, t) - fees[t] + fees'[t]
  <2> DEFINE x == IF t = e.makerToken THEN e.makerAmount ELSE 0
  <2>1. balance'[t] = balance[t] + x
    BY <1>1, AttachedExactly DEF Credit
  <2>2. HeldFor(f, t) = HeldFor(e, t) + x
    BY <1>1, <1>2, <1>4 DEF HeldFor, MakerLegHeld, TakerLegHeld, Escrow
  <2>3. HeldFor(e, t) \in Int /\ x \in Int /\ balance[t] \in Int /\ fees[t] \in Int
    BY AmountsTyped
  <2> HIDE DEF x, e, f
  <2> QED BY <1>1, <2>1, <2>2, <2>3
<1> HIDE DEF f
<1> QED BY <1>1, <1>3, <1>5, BooksBalance

LEMMA FundTakerSolvent ==
  ASSUME TypeOK, TypeOK', StatusMatchesMoney, Solvency,
         NEW caller \in Addresses, NEW id \in Ids, NEW acts \in Attachments,
         FundTaker(caller, id, acts)
  PROVE  Solvency'
<1> USE DEF config, index
<1> DEFINE e == escrows[id]
           f == [e EXCEPT !.takerFunded = TRUE, !.status = FUNDED_BOTH]
<1>1. /\ e.status = FUNDED_MAKER /\ ~ e.takerFunded /\ Exactly(acts, e.takerToken, e.takerAmount)
      /\ Amend(id, f) /\ Credit(acts) /\ UNCHANGED <<nextEscrowId, fees>>
  BY DEF FundTaker
<1>2. e \in Escrow /\ StatusFits(e)
  BY EscrowTyped DEF StatusMatchesMoney
<1>3. f \in Escrow
  BY <1>2, StatusValues DEF Escrow
<1>4. ~ e.takerRefunded /\ ~ e.makerWithdrawn
  BY <1>1, <1>2 DEF StatusFits, FUNDED_MAKER, FUNDED_BOTH, EXECUTED, REFUNDED
<1>5. ASSUME NEW t \in Tokens
      PROVE  balance'[t] = balance[t] - HeldFor(e, t) + HeldFor(f, t) - fees[t] + fees'[t]
  <2> DEFINE x == IF t = e.takerToken THEN e.takerAmount ELSE 0
  <2>1. balance'[t] = balance[t] + x
    BY <1>1, AttachedExactly DEF Credit
  <2>2. HeldFor(f, t) = HeldFor(e, t) + x
    BY <1>1, <1>2, <1>4 DEF HeldFor, MakerLegHeld, TakerLegHeld, Escrow
  <2>3. HeldFor(e, t) \in Int /\ x \in Int /\ balance[t] \in Int /\ fees[t] \in Int
    BY AmountsTyped
  <2> HIDE DEF x, e, f
  <2> QED BY <1>1, <2>1, <2>2, <2>3
<1> HIDE DEF f
<1> QED BY <1>1, <1>3, <1>5, BooksBalance

LEMMA WithdrawMakerSolvent ==
  ASSUME TypeOK, TypeOK', StatusMatchesMoney, Solvency,
         NEW caller \in Addresses, NEW id \in Ids, NEW acts \in Attachments,
         WithdrawMaker(caller, id, acts)
  PROVE  Solvency'
<1> USE DEF config, index
<1> DEFINE e == escrows[id]
           f == Finalized([e EXCEPT !.makerWithdrawn = TRUE])
           fee == CeilFee(e.takerAmount)
<1>1. /\ e.status = FUNDED_BOTH /\ ~ e.makerWithdrawn
      /\ Exactly(acts, e.takerToken, e.takerAmount - fee)
      /\ Amend(id, f) /\ Debit(acts) /\ UNCHANGED nextEscrowId
      /\ fees' = [fees EXCEPT ![e.takerToken] = @ + fee]
  BY DEF WithdrawMaker
<1>2. e \in Escrow /\ StatusFits(e) /\ fee \in Int
  BY EscrowTyped, FeeTyped DEF StatusMatchesMoney
<1>3. f \in Escrow
  BY <1>2, StatusValues DEF Escrow, Finalized
<1>4. e.takerFunded /\ ~ e.takerRefunded
  BY <1>1, <1>2 DEF StatusFits
<1>5. ASSUME NEW t \in Tokens
      PROVE  balance'[t] = balance[t] - HeldFor(e, t) + HeldFor(f, t) - fees[t] + fees'[t]
  <2> DEFINE mine == t = e.takerToken
             a == e.takerAmount
  <2>1. balance'[t] = balance[t] - (IF mine THEN a - fee ELSE 0)
    BY <1>1, AttachedExactly DEF Debit
  <2>2. fees'[t] = fees[t] + (IF mine THEN fee ELSE 0)
    <3>1. fees \in [Tokens -> Nat]
      BY DEF TypeOK
    <3> HIDE DEF fee
    <3> QED BY <1>1, <1>2, <3>1
  <2>3. HeldFor(f, t) = HeldFor(e, t) - (IF mine THEN a ELSE 0)
    BY <1>1, <1>2, <1>4 DEF HeldFor, MakerLegHeld, TakerLegHeld, Escrow, Finalized
  <2>4. HeldFor(e, t) \in Int /\ a \in Int /\ balance[t] \in Int /\ fees[t] \in Int
    BY AmountsTyped
  <2> HIDE DEF mine, a, e, f, fee
  <2> QED BY <1>2, <2>1, <2>2, <2>3, <2>4
<1> HIDE DEF f
<1> QED BY <1>1, <1>3, <1>5, BooksBalance

LEMMA WithdrawTakerSolvent ==
  ASSUME TypeOK, TypeOK', StatusMatchesMoney, Solvency,
         NEW caller \in Addresses, NEW id \in Ids, NEW acts \in Attachments,
         WithdrawTaker(caller, id, acts)
  PROVE  Solvency'
<1> USE DEF config, index
<1> DEFINE e == escrows[id]
           f == Finalized([e EXCEPT !.takerWithdrawn = TRUE])
           fee == CeilFee(e.makerAmount)
<1>1. /\ e.status = FUNDED_BOTH /\ ~ e.takerWithdrawn
      /\ Exactly(acts, e.makerToken, e.makerAmount - fee)
      /\ Amend(id, f) /\ Debit(acts) /\ UNCHANGED nextEscrowId
      /\ fees' = [fees EXCEPT ![e.makerToken] = @ + fee]
  BY DEF WithdrawTaker
<1>2. e \in Escrow /\ StatusFits(e) /\ fee \in Int
  BY EscrowTyped, FeeTyped DEF StatusMatchesMoney
<1>3. f \in Escrow
  BY <1>2, StatusValues DEF Escrow, Finalized
<1>4. e.makerFunded /\ ~ e.makerRefunded
  BY <1>1, <1>2 DEF StatusFits, FUNDED_BOTH, REFUNDED
<1>5. ASSUME NEW t \in Tokens
      PROVE  balance'[t] = balance[t] - HeldFor(e, t) + HeldFor(f, t) - fees[t] + fees'[t]
  <2> DEFINE mine == t = e.makerToken
             a == e.makerAmount
  <2>1. balance'[t] = balance[t] - (IF mine THEN a - fee ELSE 0)
    BY <1>1, AttachedExactly DEF Debit
  <2>2. fees'[t] = fees[t] + (IF mine THEN fee ELSE 0)
    <3>1. fees \in [Tokens -> Nat]
      BY DEF TypeOK
    <3> HIDE DEF fee
    <3> QED BY <1>1, <1>2, <3>1
  <2>3. HeldFor(f, t) = HeldFor(e, t) - (IF mine THEN a ELSE 0)
    BY <1>1, <1>2, <1>4 DEF HeldFor, MakerLegHeld, TakerLegHeld, Escrow, Finalized
  <2>4. HeldFor(e, t) \in Int /\ a \in Int /\ balance[t] \in Int /\ fees[t] \in Int
    BY AmountsTyped
  <2> HIDE DEF mine, a, e, f, fee
  <2> QED BY <1>2, <2>1, <2>2, <2>3, <2>4
<1> HIDE DEF f
<1> QED BY <1>1, <1>3, <1>5, BooksBalance

(* A refund of the taker never happens, one of the maker pays what is held. *)
LEMMA RefundSolvent ==
  ASSUME TypeOK, TypeOK', StatusMatchesMoney, Solvency,
         NEW caller \in Addresses, NEW id \in Ids, NEW acts \in Attachments,
         Refund(caller, id, acts)
  PROVE  Solvency'
<1> USE DEF config, index
<1> DEFINE e == escrows[id]
           f == RefundClosed([e EXCEPT !.makerRefunded = TRUE])
<1>1. e \in Escrow /\ StatusFits(e)
  BY EscrowTyped DEF StatusMatchesMoney
<1>2. ExpiredForCurrentStage(e) /\ (e.makerFunded \/ e.takerFunded)
  <2>1. ExpiredForCurrentStage(e)
    BY DEF Refund
  <2>2. e.makerFunded \/ e.takerFunded
    BY <1>1 DEF Refund, Escrow
  <2> QED BY <2>1, <2>2
<1>3. /\ e.status = FUNDED_MAKER /\ ~ e.takerFunded
      /\ e.makerFunded /\ ~ e.makerRefunded /\ ~ e.takerWithdrawn
  BY <1>1, <1>2 DEF ExpiredForCurrentStage, StatusFits, OPEN, ACCEPTED, FUNDED_MAKER, FUNDED_BOTH,
                    EXECUTED, REFUNDED
<1>4. /\ Exactly(acts, e.makerToken, e.makerAmount)
      /\ Amend(id, f) /\ Debit(acts) /\ UNCHANGED <<nextEscrowId, fees>>
  <2>1. caller = e.maker
    BY <1>3 DEF Refund
  <2> QED BY <2>1 DEF Refund
<1>5. f \in Escrow
  BY <1>1, StatusValues DEF Escrow, RefundClosed
<1>6. ASSUME NEW t \in Tokens
      PROVE  balance'[t] = balance[t] - HeldFor(e, t) + HeldFor(f, t) - fees[t] + fees'[t]
  <2> DEFINE x == IF t = e.makerToken THEN e.makerAmount ELSE 0
  <2>1. balance'[t] = balance[t] - x
    BY <1>4, AttachedExactly DEF Debit
  <2>2. HeldFor(f, t) = HeldFor(e, t) - x
    BY <1>1, <1>3 DEF HeldFor, MakerLegHeld, TakerLegHeld, Escrow, RefundClosed
  <2>3. HeldFor(e, t) \in Int /\ x \in Int /\ balance[t] \in Int /\ fees[t] \in Int
    BY AmountsTyped
  <2> HIDE DEF x, e, f
  <2> QED BY <1>4, <2>1, <2>2, <2>3
<1> HIDE DEF f
<1> QED BY <1>4, <1>5, <1>6, BooksBalance

LEMMA WithdrawFeesSolvent ==
  ASSUME TypeOK, Solvency, NEW caller, NEW acts, WithdrawFees(caller, acts)
  PROVE  Solvency'
<1>1. PICK u \in Tokens : Exactly(acts, u, fees[u]) /\ fees' = [fees EXCEPT ![u] = 0]
  BY DEF WithdrawFees
<1>2. Debit(acts) /\ UNCHANGED <<nextEscrowId, escrows>>
  BY DEF WithdrawFees, index
<1>3. ASSUME NEW t \in Tokens PROVE balance'[t] = Custody(t)' + fees'[t]
  <2>1. balance'[t] = balance[t] - (IF t = u THEN fees[t] ELSE 0)
    BY <1>1, <1>2, AttachedExactly DEF Debit
  <2>2. fees'[t] = IF t = u THEN 0 ELSE fees[t]
    BY <1>1 DEF TypeOK
  <2>3. balance[t] = Custody(t) + fees[t] /\ balance[t] \in Int /\ fees[t] \in Nat
    BY DEF Solvency, TypeOK
  <2>4. Custody(t) \in Int /\ Custody(t)' = Custody(t)
    BY <1>2, CustodyInt, CustodyKept
  <2> QED BY <2>1, <2>2, <2>3, <2>4
<1> QED BY <1>3 DEF Solvency, Custody, Ids, HeldFor, MakerLegHeld, TakerLegHeld

LEMMA SolvencyNext ==
  ASSUME TypeOK, TypeOK', StatusMatchesMoney, Solvency, [Next]_vars
  PROVE  Solvency'
<1> USE DEF config, index
<1>1. ASSUME UNCHANGED <<nextEscrowId, escrows, balance, fees>> PROVE Solvency'
  BY <1>1 DEF Solvency, Custody, Ids, HeldFor, MakerLegHeld, TakerLegHeld
<1>2. ASSUME NEW caller, NEW r, NEW x,
             UNCHANGED vars \/ Tick \/ SetFeeConfig(caller, r, x) \/ SetExpiryConfig(caller, x)
      PROVE  Solvency'
  BY <1>1, <1>2 DEF vars, Tick, SetFeeConfig, SetExpiryConfig
<1>3. ASSUME NEW maker \in Addresses, NEW terms \in Terms, NEW ts \in ExpiryInputs,
             NEW dt \in Addresses \cup {NoOne}, AddEscrow(maker, terms, ts, dt)
      PROVE  Solvency'
  <2>1. ASSUME NEW t \in Tokens PROVE balance'[t] = Custody(t)' + fees'[t]
    <3>1. Custody(t)' = Custody(t)
      BY <1>3, CustodyOpened
    <3>2. UNCHANGED <<balance, fees>>
      BY <1>3 DEF AddEscrow
    <3> QED BY <3>1, <3>2 DEF Solvency
  <2> QED BY <2>1 DEF Solvency, Custody, Ids, HeldFor, MakerLegHeld, TakerLegHeld
<1>4. ASSUME NEW maker \in Addresses, NEW taker \in Addresses, NEW terms \in Terms,
             NEW ts \in ExpiryInputs,
             OpenEscrow(maker, terms, ts) \/ OpenEscrowDirected(maker, terms, ts, taker)
      PROVE  Solvency'
  BY <1>3, <1>4 DEF OpenEscrow, OpenEscrowDirected
<1>5. ASSUME NEW caller \in Addresses, NEW a \in Addresses, NEW id \in Ids,
             \/ SetDirectedTaker(caller, id, a)
             \/ AcceptEscrow(caller, id) \/ CancelBeforeFunding(caller, id)
      PROVE  Solvency'
  <2> DEFINE e == escrows[id]
  <2>1. e \in Escrow
    BY EscrowTyped
  <2>2. CASE SetDirectedTaker(caller, id, a)
    <3> DEFINE f == [e EXCEPT !.directedTaker = a, !.taker = NoOne]
    <3>1. f \in Escrow /\ SameLegs(e, f)
      BY <2>1 DEF Escrow, SameLegs
    <3>2. Amend(id, f) /\ UNCHANGED <<nextEscrowId, balance, fees>>
      BY <2>2 DEF SetDirectedTaker
    <3> HIDE DEF f
    <3> QED BY <3>1, <3>2, BooksUntouched
  <2>3. CASE AcceptEscrow(caller, id)
    <3> DEFINE f == [e EXCEPT !.taker = caller, !.status = IF @ = OPEN THEN ACCEPTED ELSE @]
    <3>1. f \in Escrow /\ SameLegs(e, f)
      BY <2>1, StatusValues DEF Escrow, SameLegs
    <3>2. Amend(id, f) /\ UNCHANGED <<nextEscrowId, balance, fees>>
      BY <2>3 DEF AcceptEscrow
    <3> HIDE DEF f
    <3> QED BY <3>1, <3>2, BooksUntouched
  <2>4. CASE CancelBeforeFunding(caller, id)
    <3> DEFINE f == [e EXCEPT !.status = CANCELLED]
    <3>1. f \in Escrow /\ SameLegs(e, f)
      BY <2>1, StatusValues DEF Escrow, SameLegs
    <3>2. Amend(id, f) /\ UNCHANGED <<nextEscrowId, balance, fees>>
      BY <2>4 DEF CancelBeforeFunding
    <3> HIDE DEF f
    <3> QED BY <3>1, <3>2, BooksUntouched
  <2> QED BY <1>5, <2>2, <2>3, <2>4
<1>6. ASSUME NEW caller \in Addresses, NEW id \in 0 .. MaxEscrows, NEW acts \in Attachments,
             Withdraw(caller, id, acts)
      PROVE  Solvency'
  <2>1. CASE WithdrawFees(caller, acts)
    BY <2>1, WithdrawFeesSolvent
  <2>2. CASE id \in Ids /\ WithdrawMaker(caller, id, acts)
    BY <2>2, WithdrawMakerSolvent
  <2>3. CASE id \in Ids /\ WithdrawTaker(caller, id, acts)
    BY <2>3, WithdrawTakerSolvent
  <2> QED BY <1>6, <2>1, <2>2, <2>3 DEF Withdraw
<1>7. ASSUME NEW caller \in Addresses, NEW id \in Ids, NEW acts \in Attachments,
             \/ FundMaker(caller, id, acts) \/ FundTaker(caller, id, acts)
             \/ Refund(caller, id, acts)
      PROVE  Solvency'
  BY <1>7, FundMakerSolvent, FundTakerSolvent, RefundSolvent
<1>8. CASE Next
  BY <1>2, <1>4, <1>5, <1>6, <1>7, <1>8 DEF Next
<1> QED BY <1>2, <1>8

(* The contract can always pay what it owes: its balance of each token is  *)
(* what it holds for the parties of all the escrows plus the fees owed. *)
THEOREM AlwaysSolvent == Spec => []Solvency
<1>1. Init => TypeOK /\ StatusMatchesMoney /\ TakerIsEntitled /\ Solvency
  BY TypeInit, FitInit, SolvencyInit
<1>2. TypeOK /\ StatusMatchesMoney /\ TakerIsEntitled /\ Solvency /\ [Next]_vars
        => (TypeOK /\ StatusMatchesMoney /\ TakerIsEntitled /\ Solvency)'
  BY TypeNext, FitNext, SolvencyNext
<1> QED BY <1>1, <1>2, PTL DEF Spec

-----------------------------------------------------------------------------
(* The counters *)

With(s) == {i \in Ids : escrows[i].status = s}
DirectedIds == {i \in Ids : Directed(escrows[i])}

LEMMA CountersAre ==
  CountersAgree <=>
    /\ \A s \in Statuses : statusCount[s] = Cardinality(With(s))
    /\ totals.all = nextEscrowId /\ Len(escrowIds) = nextEscrowId
    /\ totals.directed = Cardinality(DirectedIds)
    /\ totals.public + totals.directed = totals.all
BY DEF CountersAgree, With, DirectedIds

LEMMA CountersAreThen ==
  CountersAgree' <=>
    /\ \A s \in Statuses : statusCount'[s] = Cardinality(With(s)')
    /\ totals'.all = nextEscrowId' /\ Len(escrowIds') = nextEscrowId'
    /\ totals'.directed = Cardinality(DirectedIds')
    /\ totals'.public + totals'.directed = totals'.all
BY DEF CountersAgree, With, DirectedIds, Directed

LEMMA SubsetsFinite ==
  ASSUME TypeOK, NEW S \in SUBSET Ids
  PROVE  IsFiniteSet(S) /\ Cardinality(S) \in Nat
BY IdsFinite, FS_Subset, FS_CardinalityType

(* A call on one escrow moves it from one counter to another, or leaves it *)
(* where it is. *)
LEMMA RecountAgrees ==
  ASSUME TypeOK, CountersAgree, NEW id \in Ids, NEW f \in Escrow, Amend(id, f),
         Directed(f) <=> Directed(escrows[id]), UNCHANGED index
  PROVE  CountersAgree'
<1> USE DEF index
<1> DEFINE old == escrows[id].status
           new == f.status
<1>1. /\ Ids' = Ids /\ escrows'[id] = f
      /\ \A i \in Ids \ {id} : escrows'[i] = escrows[i]
  BY Amended DEF Ids
<1>2. old \in Statuses /\ new \in Statuses /\ statusCount \in [Statuses -> Int]
  BY EscrowTyped DEF Escrow, TypeOK
<1>3. DirectedIds' = DirectedIds
  BY <1>1 DEF DirectedIds, Directed
<1>4. statusCount' = Recount(old, new)
  BY DEF Amend
<1>5. ASSUME NEW s \in Statuses PROVE statusCount'[s] = Cardinality(With(s)')
  <2>1. With(s)' = {i \in Ids : escrows'[i].status = s}
    BY <1>1 DEF With
  <2>2. /\ statusCount[s] = Cardinality(With(s))
        /\ IsFiniteSet(With(s)) /\ Cardinality(With(s)) \in Nat
    BY CountersAre, SubsetsFinite DEF With
  <2>3. CASE (s = old /\ s = new) \/ (s # old /\ s # new)
    <3>1. With(s)' = With(s)
      BY <1>1, <2>1, <2>3 DEF With
    <3>2. statusCount'[s] = statusCount[s]
      BY <1>2, <1>4, <2>3 DEF Recount
    <3> QED BY <2>2, <3>1, <3>2
  <2>4. CASE s = old /\ s # new
    <3>1. With(s)' = With(s) \ {id} /\ id \in With(s)
      BY <1>1, <2>1, <2>4 DEF With
    <3>2. statusCount'[s] = statusCount[s] - 1
      BY <1>2, <1>4, <2>4 DEF Recount
    <3> QED BY <2>2, <3>1, <3>2, FS_RemoveElement
  <2>5. CASE s # old /\ s = new
    <3>1. With(s)' = With(s) \cup {id} /\ id \notin With(s)
      BY <1>1, <2>1, <2>5 DEF With
    <3>2. statusCount'[s] = statusCount[s] + 1
      BY <1>2, <1>4, <2>5 DEF Recount
    <3> QED BY <2>2, <3>1, <3>2, FS_AddElement
  <2> QED BY <2>3, <2>4, <2>5
<1> QED BY <1>3, <1>5, CountersAre, CountersAreThen

(* A new escrow is counted as open, and as public or directed. *)
LEMMA OpenedCounts ==
  ASSUME TypeOK, CountersAgree, NEW maker \in Addresses, NEW terms \in Terms,
         NEW ts \in ExpiryInputs, NEW dt \in Addresses \cup {NoOne},
         AddEscrow(maker, terms, ts, dt),
         totals' = IF dt = NoOne THEN [totals EXCEPT !.all = @ + 1, !.public = @ + 1]
                   ELSE [totals EXCEPT !.all = @ + 1, !.directed = @ + 1]
  PROVE  CountersAgree'
<1> DEFINE n == nextEscrowId
<1>1. /\ Ids' = Ids \cup {n} /\ n \notin Ids
      /\ escrows'[n] = NewEscrow(maker, terms, ts, dt)
      /\ \A i \in Ids : escrows'[i] = escrows[i]
  BY OpenTypes
<1>2. escrows'[n].status = OPEN /\ escrows'[n].directedTaker = dt
  BY <1>1 DEF NewEscrow
<1>3. /\ n \in Nat /\ escrowIds \in Seq(Nat) /\ statusCount \in [Statuses -> Int]
      /\ totals \in [all : Nat, public : Nat, directed : Nat]
  BY DEF TypeOK
<1>4. /\ n' = n + 1 /\ escrowIds' = Append(escrowIds, n)
      /\ statusCount' = [statusCount EXCEPT ![OPEN] = @ + 1]
  BY DEF AddEscrow
<1>5. ASSUME NEW s \in Statuses PROVE statusCount'[s] = Cardinality(With(s)')
  <2>1. With(s)' = {i \in Ids \cup {n} : escrows'[i].status = s}
    BY <1>1 DEF With
  <2>2. /\ statusCount[s] = Cardinality(With(s))
        /\ IsFiniteSet(With(s)) /\ Cardinality(With(s)) \in Nat
    BY CountersAre, SubsetsFinite DEF With
  <2>3. CASE s = OPEN
    <3>1. With(s)' = With(s) \cup {n} /\ n \notin With(s)
      BY <1>1, <1>2, <2>1, <2>3 DEF With
    <3>2. statusCount'[s] = statusCount[s] + 1
      BY <1>3, <1>4, <2>3
    <3> QED BY <2>2, <3>1, <3>2, FS_AddElement
  <2>4. CASE s # OPEN
    <3>1. With(s)' = With(s)
      BY <1>1, <1>2, <2>1, <2>4 DEF With
    <3>2. statusCount'[s] = statusCount[s]
      BY <1>3, <1>4, <2>4
    <3> QED BY <2>2, <3>1, <3>2
  <2> QED BY <2>3, <2>4
<1>6. Len(escrowIds') = n' /\ totals'.all = n'
  BY <1>3, <1>4, CountersAre
<1>7. /\ totals.directed = Cardinality(DirectedIds)
      /\ IsFiniteSet(DirectedIds) /\ Cardinality(DirectedIds) \in Nat
  BY CountersAre, SubsetsFinite DEF DirectedIds
<1>8. DirectedIds' = {i \in Ids \cup {n} : escrows'[i].directedTaker # NoOne}
  BY <1>1 DEF DirectedIds, Directed
<1>9. /\ totals'.directed = Cardinality(DirectedIds')
      /\ totals'.public + totals'.directed = totals'.all
  <2>1. totals.public + totals.directed = totals.all
    BY CountersAre
  <2>2. CASE dt = NoOne
    <3>1. DirectedIds' = DirectedIds
      BY <1>1, <1>2, <1>8, <2>2 DEF DirectedIds, Directed
    <3> QED BY <1>3, <1>7, <2>1, <2>2, <3>1
  <2>3. CASE dt # NoOne
    <3>1. DirectedIds' = DirectedIds \cup {n} /\ n \notin DirectedIds
      BY <1>1, <1>2, <1>8, <2>3 DEF DirectedIds, Directed
    <3>2. Cardinality(DirectedIds') = totals.directed + 1
      BY <1>7, <3>1, FS_AddElement
    <3> QED BY <1>3, <2>1, <2>3, <3>2
  <2> QED BY <2>2, <2>3
<1> QED BY <1>5, <1>6, <1>9, CountersAreThen

LEMMA CountersInit == Init => CountersAgree
<1> SUFFICES ASSUME Init PROVE CountersAgree
  OBVIOUS
<1>1. Ids = {}
  BY DEF Init, Ids
<1>2. DirectedIds = {} /\ \A s \in Statuses : With(s) = {}
  BY <1>1 DEF DirectedIds, With
<1>3. Cardinality(DirectedIds) = 0 /\ \A s \in Statuses : Cardinality(With(s)) = 0
  BY <1>2, FS_EmptySet
<1>4. /\ \A s \in Statuses : statusCount[s] = 0
      /\ totals.all = 0 /\ totals.public = 0 /\ totals.directed = 0
      /\ nextEscrowId = 0 /\ Len(escrowIds) = 0
  BY DEF Init
<1> QED BY <1>3, <1>4, CountersAre

LEMMA CountersNext ==
  ASSUME TypeOK, TypeOK', CountersAgree, [Next]_vars
  PROVE  CountersAgree'
<1> USE DEF config, index
<1>1. ASSUME UNCHANGED <<index, escrows, statusCount>> PROVE CountersAgree'
  BY <1>1 DEF CountersAgree, Ids, Directed
<1>2. ASSUME NEW caller, NEW r, NEW x,
             \/ UNCHANGED vars \/ Tick \/ SetFeeConfig(caller, r, x)
             \/ SetExpiryConfig(caller, x) \/ WithdrawFees(caller, x)
      PROVE  CountersAgree'
  BY <1>1, <1>2 DEF vars, Tick, SetFeeConfig, SetExpiryConfig, WithdrawFees
<1>3. ASSUME NEW maker \in Addresses, NEW taker \in Addresses, NEW terms \in Terms,
             NEW ts \in ExpiryInputs,
             OpenEscrow(maker, terms, ts) \/ OpenEscrowDirected(maker, terms, ts, taker)
      PROVE  CountersAgree'
  <2>1. taker # NoOne
    BY DataAssumption
  <2> QED BY <1>3, <2>1, OpenedCounts DEF OpenEscrow, OpenEscrowDirected
<1>4. ASSUME NEW caller \in Addresses, NEW id \in Ids, NEW acts \in Attachments,
             \/ \E a \in Addresses : SetDirectedTaker(caller, id, a)
             \/ AcceptEscrow(caller, id) \/ CancelBeforeFunding(caller, id)
             \/ FundMaker(caller, id, acts) \/ FundTaker(caller, id, acts)
             \/ WithdrawMaker(caller, id, acts) \/ WithdrawTaker(caller, id, acts)
             \/ Refund(caller, id, acts)
      PROVE  CountersAgree'
  <2> DEFINE e == escrows[id]
  <2>1. e \in Escrow
    BY EscrowTyped
  <2>2. \E f : Amend(id, f) /\ (Directed(f) <=> Directed(e)) /\ UNCHANGED index
    <3>1. ASSUME NEW a \in Addresses, SetDirectedTaker(caller, id, a)
          PROVE  <2>2!:
      <4>1. a # NoOne
        BY DataAssumption
      <4> QED BY <2>1, <3>1, <4>1 DEF SetDirectedTaker, Directed, Escrow
    <3>2. CASE AcceptEscrow(caller, id)
      BY <2>1, <3>2 DEF AcceptEscrow, Directed, Escrow
    <3>3. CASE CancelBeforeFunding(caller, id)
      BY <2>1, <3>3 DEF CancelBeforeFunding, Directed, Escrow
    <3>4. CASE FundMaker(caller, id, acts)
      BY <2>1, <3>4 DEF FundMaker, Directed, Escrow
    <3>5. CASE FundTaker(caller, id, acts)
      BY <2>1, <3>5 DEF FundTaker, Directed, Escrow
    <3>6. CASE WithdrawMaker(caller, id, acts)
      BY <2>1, <3>6 DEF WithdrawMaker, Finalized, Directed, Escrow
    <3>7. CASE WithdrawTaker(caller, id, acts)
      BY <2>1, <3>7 DEF WithdrawTaker, Finalized, Directed, Escrow
    <3>8. CASE Refund(caller, id, acts)
      BY <2>1, <3>8 DEF Refund, RefundClosed, Directed, Escrow
    <3> QED BY <1>4, <3>1, <3>2, <3>3, <3>4, <3>5, <3>6, <3>7, <3>8
  <2>3. PICK f : Amend(id, f) /\ (Directed(f) <=> Directed(e)) /\ UNCHANGED index
    BY <2>2
  <2>4. f \in Escrow
    <3>1. /\ escrows \in [Ids -> Escrow] /\ escrows' \in [Ids -> Escrow]
          /\ escrows' = [escrows EXCEPT ![id] = f]
      BY <2>3 DEF TypeOK, Ids, Amend
    <3>2. escrows'[id] = f
      BY <3>1
    <3> QED BY <3>1, <3>2
  <2> QED BY <2>3, <2>4, RecountAgrees
<1>5. ASSUME NEW caller \in Addresses, NEW id \in 0 .. MaxEscrows, NEW acts \in Attachments,
             Withdraw(caller, id, acts)
      PROVE  CountersAgree'
  BY <1>2, <1>4, <1>5 DEF Withdraw
<1>6. ASSUME NEW caller \in Addresses, NEW a \in Addresses, NEW id \in Ids,
             \/ SetDirectedTaker(caller, id, a)
             \/ AcceptEscrow(caller, id) \/ CancelBeforeFunding(caller, id)
      PROVE  CountersAgree'
  <2>1. [t \in {} |-> 0] \in Attachments
    BY DEF Attachments
  <2> QED BY <1>4, <1>6, <2>1
<1>7. CASE Next
  BY <1>2, <1>3, <1>4, <1>5, <1>6, <1>7 DEF Next
<1> QED BY <1>2, <1>7

(* The counters kept along the way are what a count of the escrows gives.  *)
THEOREM CountersAlwaysAgree == Spec => []CountersAgree
<1>1. Init => TypeOK /\ CountersAgree
  BY TypeInit, CountersInit
<1>2. TypeOK /\ CountersAgree /\ [Next]_vars => (TypeOK /\ CountersAgree)'
  BY TypeNext, CountersNext
<1> QED BY <1>1, <1>2, PTL DEF Spec

-----------------------------------------------------------------------------
(* What the parties received *)

\* The least a party may get of an amount: what the highest rate leaves.
LeastPaid(amount) == amount - FeeAt(MAX_PROTOCOL_FEE_BPS, amount)

\* What has been received of the escrow e, at every stage of its life.
ReceiptsFit(e, l) ==
  /\ e.makerToken # e.takerToken
  /\ \A a \in Addresses, t \in Tokens :
       a \notin {e.maker, e.taker} \/ e.status \in {OPEN, ACCEPTED, REFUNDED, CANCELLED}
         => l[a][t] = 0
  /\ e.status = FUNDED_MAKER =>
       \A a \in Addresses, t \in Tokens :
         l[a][t] = IF a = e.maker /\ t = e.makerToken THEN - e.makerAmount ELSE 0
  /\ e.status \in {FUNDED_BOTH, EXECUTED} =>
       /\ l[e.maker][e.makerToken] = - e.makerAmount
       /\ l[e.taker][e.takerToken] = - e.takerAmount
       /\ IF e.makerWithdrawn THEN l[e.maker][e.takerToken] \in LeastPaid(e.takerAmount) .. e.takerAmount
          ELSE l[e.maker][e.takerToken] = 0
       /\ IF e.takerWithdrawn THEN l[e.taker][e.makerToken] \in LeastPaid(e.makerAmount) .. e.makerAmount
          ELSE l[e.taker][e.makerToken] = 0
AllReceiptsFit == \A i \in Ids : ReceiptsFit(escrows[i], ledger[i])

LEMMA ReceiptsAreFair ==
  ASSUME StatusMatchesMoney, AllReceiptsFit
  PROVE  FairExchange
<1> SUFFICES ASSUME NEW i \in Ids
             PROVE  LET e == escrows[i]
                        least(amount) == amount - FeeAt(MAX_PROTOCOL_FEE_BPS, amount) IN
               /\ \A a \in Addresses, t \in Tokens :
                    a \notin {e.maker, e.taker} \/ e.status \in {OPEN, ACCEPTED, REFUNDED, CANCELLED}
                      => ledger[i][a][t] = 0
               /\ e.status = EXECUTED =>
                    /\ ledger[i][e.maker][e.makerToken] = - e.makerAmount
                    /\ ledger[i][e.taker][e.takerToken] = - e.takerAmount
                    /\ ledger[i][e.maker][e.takerToken] \in least(e.takerAmount) .. e.takerAmount
                    /\ ledger[i][e.taker][e.makerToken] \in least(e.makerAmount) .. e.makerAmount
  BY DEF FairExchange
<1> DEFINE e == escrows[i]
           l == ledger[i]
<1>1. ReceiptsFit(e, l) /\ StatusFits(e)
  BY DEF AllReceiptsFit, StatusMatchesMoney
<1>2. e.status = EXECUTED => e.makerWithdrawn /\ e.takerWithdrawn
  BY <1>1 DEF StatusFits
<1> HIDE DEF e, l
<1>3. /\ \A a \in Addresses, t \in Tokens :
           a \notin {e.maker, e.taker} \/ e.status \in {OPEN, ACCEPTED, REFUNDED, CANCELLED}
             => l[a][t] = 0
      /\ e.status = EXECUTED =>
           /\ l[e.maker][e.makerToken] = - e.makerAmount
           /\ l[e.taker][e.takerToken] = - e.takerAmount
           /\ l[e.maker][e.takerToken] \in LeastPaid(e.takerAmount) .. e.takerAmount
           /\ l[e.taker][e.makerToken] \in LeastPaid(e.makerAmount) .. e.makerAmount
  BY <1>1, <1>2 DEF ReceiptsFit
<1> QED BY <1>3 DEF LeastPaid, e, l

(* A lower rate makes no higher fee. *)
LEMMA FeeGrows ==
  ASSUME NEW bps \in Int, ValidFeeRate(bps), NEW amount \in Nat
  PROVE  /\ FeeAt(bps, amount) <= FeeAt(MAX_PROTOCOL_FEE_BPS, amount)
         /\ FeeAt(bps, amount) \in Nat /\ FeeAt(MAX_PROTOCOL_FEE_BPS, amount) \in Nat
<1> DEFINE x == amount * bps
           y == amount * 200
<1>1. ValidFeeRate(MAX_PROTOCOL_FEE_BPS) /\ MAX_PROTOCOL_FEE_BPS \in Int
  BY DEF ValidFeeRate, MAX_PROTOCOL_FEE_BPS
<1>2. FeeAt(bps, amount) \in 0 .. amount /\ FeeAt(MAX_PROTOCOL_FEE_BPS, amount) \in 0 .. amount
  BY <1>1, FeeInAmount
<1>3. CASE bps <= 0 \/ amount <= 0
  <2>1. FeeAt(bps, amount) = 0
    BY <1>3 DEF FeeAt
  <2> QED BY <1>2, <2>1
<1>4. CASE bps > 0 /\ amount > 0
  <2>1. bps \in 1 .. 200
    BY <1>4 DEF ValidFeeRate, MAX_PROTOCOL_FEE_BPS
  <2>2. x \in Int /\ y \in Int /\ x <= y
    BY <2>1
  <2>3. /\ FeeAt(bps, amount) = (x + 9999) \div 10000
        /\ FeeAt(MAX_PROTOCOL_FEE_BPS, amount) = (y + 9999) \div 10000
    BY <1>4 DEF FeeAt, MAX_PROTOCOL_FEE_BPS
  <2> HIDE DEF x, y
  <2>4. (x + 9999) \div 10000 <= (y + 9999) \div 10000
    BY <2>2
  <2> QED BY <1>2, <2>3, <2>4
<1> QED BY <1>3, <1>4

(* What a withdrawal pays is between the least and the whole amount. *)
LEMMA PaidInRange ==
  ASSUME TypeOK, NEW amount \in Nat
  PROVE  /\ amount - CeilFee(amount) \in Int
         /\ amount - CeilFee(amount) \in LeastPaid(amount) .. amount
<1>1. feeBps \in Int /\ ValidFeeRate(feeBps)
  BY DEF TypeOK
<1>2. /\ CeilFee(amount) <= FeeAt(MAX_PROTOCOL_FEE_BPS, amount)
      /\ CeilFee(amount) \in Nat /\ FeeAt(MAX_PROTOCOL_FEE_BPS, amount) \in Nat
  BY <1>1, FeeGrows DEF CeilFee
<1> QED BY <1>2 DEF LeastPaid

(* A call on one escrow concerns the receipts of that escrow alone. *)
LEMMA ReceiptsAmended ==
  ASSUME TypeOK, AllReceiptsFit, NEW id \in Ids, NEW f \in Escrow, Amend(id, f),
         UNCHANGED nextEscrowId, \A i \in Ids \ {id} : ledger'[i] = ledger[i],
         ReceiptsFit(f, ledger'[id])
  PROVE  AllReceiptsFit'
<1>1. /\ Ids' = Ids /\ escrows'[id] = f
      /\ \A i \in Ids \ {id} : escrows'[i] = escrows[i]
  BY Amended DEF Ids
<1>2. \A i \in Ids : ReceiptsFit(escrows'[i], ledger'[i])
  <2> SUFFICES ASSUME NEW i \in Ids PROVE ReceiptsFit(escrows'[i], ledger'[i])
    OBVIOUS
  <2>1. CASE i = id
    BY <1>1, <2>1
  <2>2. CASE i # id
    <3>1. ReceiptsFit(escrows[i], ledger[i])
      BY DEF AllReceiptsFit
    <3>2. escrows'[i] = escrows[i] /\ ledger'[i] = ledger[i]
      BY <1>1, <2>2
    <3> QED BY <3>1, <3>2
  <2> QED BY <2>1, <2>2
<1> QED BY <1>1, <1>2 DEF AllReceiptsFit, ReceiptsFit, LeastPaid, FeeAt

(* Booking changes one entry of the escrow's receipts. *)
LEMMA BookedAt ==
  ASSUME TypeOK, NEW id \in Ids, NEW who \in Addresses, NEW token \in Tokens,
         NEW amount \in Int, Book(id, who, token, amount)
  PROVE  /\ \A i \in Ids \ {id} : ledger'[i] = ledger[i]
         /\ \A a \in Addresses, t \in Tokens :
              ledger'[id][a][t] = IF a = who /\ t = token THEN ledger[id][a][t] + amount
                                  ELSE ledger[id][a][t]
BY DEF TypeOK, Book

LEMMA FundMakerFair ==
  ASSUME TypeOK, StatusMatchesMoney, AllReceiptsFit, NEW caller \in Addresses,
         NEW id \in Ids, NEW acts, FundMaker(caller, id, acts)
  PROVE  AllReceiptsFit'
<1> DEFINE e == escrows[id]
           l == ledger[id]
           m == ledger'[id]
           d == now + expiry.fundedSecs
           f == [e EXCEPT !.makerFunded = TRUE, !.status = FUNDED_MAKER, !.makerFundedExpiry = d]
<1>1. /\ e.status \in {OPEN, ACCEPTED} /\ caller = e.maker
      /\ Amend(id, f) /\ Book(id, caller, e.makerToken, - e.makerAmount)
      /\ UNCHANGED nextEscrowId
  BY DEF FundMaker, index
<1>2. /\ e \in Escrow /\ ReceiptsFit(e, l)
      /\ e.makerToken \in Tokens /\ - e.makerAmount \in Int /\ e.makerAmount \in Int
  BY EscrowTyped DEF AllReceiptsFit
<1>3. f \in Escrow
  <2>1. d \in Nat
    BY DeadlineTyped
  <2> HIDE DEF d
  <2> QED BY <1>2, <2>1, StatusValues DEF Escrow
<1>4. /\ \A i \in Ids \ {id} : ledger'[i] = ledger[i]
      /\ \A a \in Addresses, t \in Tokens :
           m[a][t] = IF a = e.maker /\ t = e.makerToken THEN l[a][t] + (- e.makerAmount) ELSE l[a][t]
  BY <1>1, <1>2, BookedAt
<1>5. \A a \in Addresses, t \in Tokens : l[a][t] = 0
  BY <1>1, <1>2 DEF ReceiptsFit
<1>6. /\ f.status = FUNDED_MAKER /\ f.maker = e.maker /\ f.taker = e.taker
      /\ f.makerToken = e.makerToken /\ f.takerToken = e.takerToken
      /\ f.makerAmount = e.makerAmount
  BY <1>2 DEF Escrow
<1>7. \A a \in Addresses, t \in Tokens :
        m[a][t] = IF a = e.maker /\ t = e.makerToken THEN - e.makerAmount ELSE 0
  <2> HIDE DEF e, l, m
  <2> QED BY <1>2, <1>4, <1>5
<1>8. ReceiptsFit(f, m)
  <2>1. e.makerToken # e.takerToken
    BY <1>2 DEF ReceiptsFit
  <2> HIDE DEF e, f, l, m
  <2> QED BY <1>6, <1>7, <2>1 DEF ReceiptsFit, OPEN, ACCEPTED, FUNDED_MAKER, FUNDED_BOTH,
             EXECUTED, REFUNDED, CANCELLED
<1> HIDE DEF f
<1> QED BY <1>1, <1>3, <1>4, <1>8, ReceiptsAmended

LEMMA FundTakerFair ==
  ASSUME TypeOK, StatusMatchesMoney, TakerIsEntitled, AllReceiptsFit, NEW caller \in Addresses,
         NEW id \in Ids, NEW acts, FundTaker(caller, id, acts)
  PROVE  AllReceiptsFit'
<1> DEFINE e == escrows[id]
           l == ledger[id]
           m == ledger'[id]
           f == [e EXCEPT !.takerFunded = TRUE, !.status = FUNDED_BOTH]
<1>1. /\ e.status = FUNDED_MAKER /\ caller = e.taker
      /\ Amend(id, f) /\ Book(id, caller, e.takerToken, - e.takerAmount)
      /\ UNCHANGED nextEscrowId
  BY DEF FundTaker, index
<1>2. /\ e \in Escrow /\ ReceiptsFit(e, l) /\ StatusFits(e) /\ TakerFits(e)
      /\ e.makerToken \in Tokens /\ e.takerToken \in Tokens /\ e.maker \in Addresses
      /\ - e.takerAmount \in Int
  BY EscrowTyped DEF AllReceiptsFit, StatusMatchesMoney, TakerIsEntitled, Escrow
<1>3. f \in Escrow
  BY <1>2, StatusValues DEF Escrow
<1>4. /\ \A i \in Ids \ {id} : ledger'[i] = ledger[i]
      /\ \A a \in Addresses, t \in Tokens :
           m[a][t] = IF a = e.taker /\ t = e.takerToken THEN l[a][t] + (- e.takerAmount) ELSE l[a][t]
  BY <1>1, <1>2, BookedAt
<1>5. \A a \in Addresses, t \in Tokens :
        l[a][t] = IF a = e.maker /\ t = e.makerToken THEN - e.makerAmount ELSE 0
  BY <1>1, <1>2 DEF ReceiptsFit
<1>6. /\ f.status = FUNDED_BOTH /\ f.maker = e.maker /\ f.taker = e.taker
      /\ f.makerToken = e.makerToken /\ f.takerToken = e.takerToken
      /\ f.makerAmount = e.makerAmount /\ f.takerAmount = e.takerAmount
      /\ f.makerWithdrawn = e.makerWithdrawn /\ f.takerWithdrawn = e.takerWithdrawn
  BY <1>2 DEF Escrow
<1>7. ~ e.makerWithdrawn /\ ~ e.takerWithdrawn
  BY <1>1, <1>2 DEF StatusFits, FUNDED_MAKER, FUNDED_BOTH, EXECUTED
<1>8. e.taker \in Addresses /\ e.taker # e.maker /\ e.makerToken # e.takerToken
  <2>1. e.taker # NoOne
    BY <1>1, DataAssumption
  <2> QED BY <1>1, <1>2, <2>1 DEF TakerFits, ReceiptsFit
<1>9. ReceiptsFit(f, m)
  <2> HIDE DEF e, f, l, m
  <2>1. /\ m[e.maker][e.makerToken] = - e.makerAmount
        /\ m[e.taker][e.takerToken] = - e.takerAmount
        /\ m[e.maker][e.takerToken] = 0 /\ m[e.taker][e.makerToken] = 0
    BY <1>2, <1>4, <1>5, <1>8
  <2>2. \A a \in Addresses, t \in Tokens : a \notin {e.maker, e.taker} => m[a][t] = 0
    BY <1>4, <1>5
  <2> QED BY <1>6, <1>7, <1>8, <2>1, <2>2 DEF ReceiptsFit, OPEN, ACCEPTED, FUNDED_MAKER,
             FUNDED_BOTH, EXECUTED, REFUNDED, CANCELLED
<1> HIDE DEF f
<1> QED BY <1>1, <1>3, <1>4, <1>9, ReceiptsAmended

LEMMA WithdrawMakerFair ==
  ASSUME TypeOK, StatusMatchesMoney, TakerIsEntitled, AllReceiptsFit, NEW caller \in Addresses,
         NEW id \in Ids, NEW acts, WithdrawMaker(caller, id, acts)
  PROVE  AllReceiptsFit'
<1> DEFINE e == escrows[id]
           l == ledger[id]
           m == ledger'[id]
           x == e.takerAmount - CeilFee(e.takerAmount)
           f == Finalized([e EXCEPT !.makerWithdrawn = TRUE])
<1>1. /\ e.status = FUNDED_BOTH /\ caller = e.maker /\ ~ e.makerWithdrawn
      /\ Amend(id, f) /\ Book(id, caller, e.takerToken, x)
      /\ UNCHANGED nextEscrowId
  BY DEF WithdrawMaker, index
<1>2. /\ e \in Escrow /\ ReceiptsFit(e, l) /\ TakerFits(e)
      /\ e.makerToken \in Tokens /\ e.takerToken \in Tokens /\ e.maker \in Addresses
      /\ e.takerAmount \in Nat
  BY EscrowTyped DEF AllReceiptsFit, TakerIsEntitled, Escrow
<1>3. f \in Escrow
  BY <1>2, StatusValues DEF Escrow, Finalized
<1>4. x \in Int /\ x \in LeastPaid(e.takerAmount) .. e.takerAmount
  BY <1>2, PaidInRange
<1>5. /\ f.status \in {FUNDED_BOTH, EXECUTED} /\ f.maker = e.maker /\ f.taker = e.taker
      /\ f.makerToken = e.makerToken /\ f.takerToken = e.takerToken
      /\ f.makerAmount = e.makerAmount /\ f.takerAmount = e.takerAmount
      /\ f.makerWithdrawn /\ f.takerWithdrawn = e.takerWithdrawn
  BY <1>1, <1>2 DEF Escrow, Finalized
<1>6. e.taker \in Addresses /\ e.taker # e.maker /\ e.makerToken # e.takerToken
  BY <1>1, <1>2 DEF TakerFits, ReceiptsFit, Escrow
<1> HIDE DEF f, x
<1>7. /\ \A i \in Ids \ {id} : ledger'[i] = ledger[i]
      /\ \A a \in Addresses, t \in Tokens :
           m[a][t] = IF a = e.maker /\ t = e.takerToken THEN l[a][t] + x ELSE l[a][t]
  BY <1>1, <1>2, <1>4, BookedAt
<1>8. ReceiptsFit(f, m)
  <2> HIDE DEF e, l, m
  <2>1. l[e.maker][e.takerToken] = 0
    BY <1>1, <1>2 DEF ReceiptsFit
  <2>2. /\ m[e.maker][e.makerToken] = l[e.maker][e.makerToken]
        /\ m[e.taker][e.takerToken] = l[e.taker][e.takerToken]
        /\ m[e.maker][e.takerToken] = x
        /\ m[e.taker][e.makerToken] = l[e.taker][e.makerToken]
    BY <1>2, <1>4, <1>6, <1>7, <2>1
  <2>3. \A a \in Addresses, t \in Tokens : a \notin {e.maker, e.taker} => m[a][t] = 0
    BY <1>2, <1>7 DEF ReceiptsFit
  <2>4. f.status \notin {OPEN, ACCEPTED, FUNDED_MAKER, REFUNDED, CANCELLED}
    BY <1>5 DEF OPEN, ACCEPTED, FUNDED_MAKER, FUNDED_BOTH, EXECUTED, REFUNDED, CANCELLED
  <2> QED BY <1>1, <1>2, <1>4, <1>5, <1>6, <2>2, <2>3, <2>4 DEF ReceiptsFit
<1> QED BY <1>1, <1>3, <1>7, <1>8, ReceiptsAmended

LEMMA WithdrawTakerFair ==
  ASSUME TypeOK, StatusMatchesMoney, TakerIsEntitled, AllReceiptsFit, NEW caller \in Addresses,
         NEW id \in Ids, NEW acts, WithdrawTaker(caller, id, acts)
  PROVE  AllReceiptsFit'
<1> DEFINE e == escrows[id]
           l == ledger[id]
           m == ledger'[id]
           x == e.makerAmount - CeilFee(e.makerAmount)
           f == Finalized([e EXCEPT !.takerWithdrawn = TRUE])
<1>1. /\ e.status = FUNDED_BOTH /\ caller = e.taker /\ ~ e.takerWithdrawn
      /\ Amend(id, f) /\ Book(id, caller, e.makerToken, x)
      /\ UNCHANGED nextEscrowId
  BY DEF WithdrawTaker, index
<1>2. /\ e \in Escrow /\ ReceiptsFit(e, l) /\ TakerFits(e)
      /\ e.makerToken \in Tokens /\ e.takerToken \in Tokens /\ e.maker \in Addresses
      /\ e.makerAmount \in Nat
  BY EscrowTyped DEF AllReceiptsFit, TakerIsEntitled, Escrow
<1>3. f \in Escrow
  BY <1>2, StatusValues DEF Escrow, Finalized
<1>4. x \in Int /\ x \in LeastPaid(e.makerAmount) .. e.makerAmount
  BY <1>2, PaidInRange
<1>5. /\ f.status \in {FUNDED_BOTH, EXECUTED} /\ f.maker = e.maker /\ f.taker = e.taker
      /\ f.makerToken = e.makerToken /\ f.takerToken = e.takerToken
      /\ f.makerAmount = e.makerAmount /\ f.takerAmount = e.takerAmount
      /\ f.takerWithdrawn /\ f.makerWithdrawn = e.makerWithdrawn
  BY <1>1, <1>2 DEF Escrow, Finalized
<1>6. e.taker \in Addresses /\ e.taker # e.maker /\ e.makerToken # e.takerToken
  BY <1>1, <1>2 DEF TakerFits, ReceiptsFit, Escrow
<1> HIDE DEF f, x
<1>7. /\ \A i \in Ids \ {id} : ledger'[i] = ledger[i]
      /\ \A a \in Addresses, t \in Tokens :
           m[a][t] = IF a = e.taker /\ t = e.makerToken THEN l[a][t] + x ELSE l[a][t]
  BY <1>1, <1>2, <1>4, BookedAt
<1>8. ReceiptsFit(f, m)
  <2> HIDE DEF e, l, m
  <2>1. l[e.taker][e.makerToken] = 0
    BY <1>1, <1>2 DEF ReceiptsFit
  <2>2. /\ m[e.maker][e.makerToken] = l[e.maker][e.makerToken]
        /\ m[e.taker][e.takerToken] = l[e.taker][e.takerToken]
        /\ m[e.taker][e.makerToken] = x
        /\ m[e.maker][e.takerToken] = l[e.maker][e.takerToken]
    BY <1>2, <1>4, <1>6, <1>7, <2>1
  <2>3. \A a \in Addresses, t \in Tokens : a \notin {e.maker, e.taker} => m[a][t] = 0
    BY <1>2, <1>7 DEF ReceiptsFit
  <2>4. f.status \notin {OPEN, ACCEPTED, FUNDED_MAKER, REFUNDED, CANCELLED}
    BY <1>5 DEF OPEN, ACCEPTED, FUNDED_MAKER, FUNDED_BOTH, EXECUTED, REFUNDED, CANCELLED
  <2> QED BY <1>1, <1>2, <1>4, <1>5, <1>6, <2>2, <2>3, <2>4 DEF ReceiptsFit
<1> QED BY <1>1, <1>3, <1>7, <1>8, ReceiptsAmended

LEMMA RefundFair ==
  ASSUME TypeOK, StatusMatchesMoney, AllReceiptsFit, NEW caller \in Addresses,
         NEW id \in Ids, NEW acts, Refund(caller, id, acts)
  PROVE  AllReceiptsFit'
<1> DEFINE e == escrows[id]
           l == ledger[id]
           m == ledger'[id]
           f == RefundClosed([e EXCEPT !.makerRefunded = TRUE])
<1>1. e \in Escrow /\ StatusFits(e) /\ ReceiptsFit(e, l)
  BY EscrowTyped DEF StatusMatchesMoney, AllReceiptsFit
<1>2. ExpiredForCurrentStage(e) /\ (e.makerFunded \/ e.takerFunded)
  <2>1. ExpiredForCurrentStage(e)
    BY DEF Refund
  <2>2. e.makerFunded \/ e.takerFunded
    BY <1>1 DEF Refund, Escrow
  <2> QED BY <2>1, <2>2
<1>3. e.status = FUNDED_MAKER /\ e.makerFunded /\ ~ e.takerFunded
  BY <1>1, <1>2 DEF ExpiredForCurrentStage, StatusFits, OPEN, ACCEPTED, FUNDED_MAKER, FUNDED_BOTH,
                    EXECUTED, REFUNDED
<1>4. /\ caller = e.maker /\ Amend(id, f) /\ Book(id, caller, e.makerToken, e.makerAmount)
      /\ UNCHANGED nextEscrowId
  <2>1. caller = e.maker
    BY <1>3 DEF Refund
  <2> QED BY <2>1 DEF Refund, index
<1>5. f \in Escrow
  BY <1>1, StatusValues DEF Escrow, RefundClosed
<1>6. e.makerToken \in Tokens /\ e.makerAmount \in Int
  BY EscrowTyped
<1>7. /\ \A i \in Ids \ {id} : ledger'[i] = ledger[i]
      /\ \A a \in Addresses, t \in Tokens :
           m[a][t] = IF a = e.maker /\ t = e.makerToken THEN l[a][t] + e.makerAmount ELSE l[a][t]
  BY <1>4, <1>6, BookedAt
<1>8. f.status = REFUNDED /\ f.makerToken = e.makerToken /\ f.takerToken = e.takerToken
  BY <1>1, <1>3 DEF Escrow, RefundClosed
<1> HIDE DEF f
<1>9. ReceiptsFit(f, m)
  <2> HIDE DEF e, l, m
  <2>1. /\ e.makerToken # e.takerToken
        /\ \A a \in Addresses, t \in Tokens :
             l[a][t] = IF a = e.maker /\ t = e.makerToken THEN - e.makerAmount ELSE 0
    BY <1>1, <1>3 DEF ReceiptsFit
  <2>2. \A a \in Addresses, t \in Tokens : m[a][t] = 0
    BY <1>6, <1>7, <2>1
  <2> QED BY <1>8, <2>1, <2>2 DEF ReceiptsFit, OPEN, ACCEPTED, FUNDED_MAKER, FUNDED_BOTH,
             EXECUTED, REFUNDED, CANCELLED
<1> QED BY <1>4, <1>5, <1>7, <1>9, ReceiptsAmended

(* The calls that move no money: a taker who comes or goes has received    *)
(* nothing yet. *)
LEMMA UnpaidFair ==
  ASSUME TypeOK, StatusMatchesMoney, AllReceiptsFit, NEW caller \in Addresses, NEW id \in Ids,
         \/ \E a \in Addresses : SetDirectedTaker(caller, id, a)
         \/ AcceptEscrow(caller, id) \/ CancelBeforeFunding(caller, id)
  PROVE  AllReceiptsFit'
<1> DEFINE e == escrows[id]
           l == ledger[id]
<1> USE DEF index
<1>1. /\ e \in Escrow /\ ReceiptsFit(e, l)
  BY EscrowTyped DEF AllReceiptsFit
<1>2. ASSUME NEW f \in Escrow, Amend(id, f), UNCHANGED <<nextEscrowId, ledger>>, ReceiptsFit(f, l)
      PROVE  AllReceiptsFit'
  BY <1>2, ReceiptsAmended
<1>3. ASSUME NEW f, \/ e.status = OPEN /\ f.status = OPEN
                    \/ e.status \in {OPEN, ACCEPTED} /\ f.status \in {ACCEPTED, CANCELLED}
                    \/ /\ e.status = FUNDED_MAKER /\ f.status = FUNDED_MAKER
                       /\ e.maker = f.maker /\ f.makerAmount = e.makerAmount,
             f.makerToken = e.makerToken, f.takerToken = e.takerToken
      PROVE  ReceiptsFit(f, l)
  <2> HIDE DEF e, l
  <2> QED BY <1>1, <1>3 DEF ReceiptsFit, OPEN, ACCEPTED, FUNDED_MAKER, FUNDED_BOTH,
             EXECUTED, REFUNDED, CANCELLED
<1>4. ASSUME NEW a \in Addresses, SetDirectedTaker(caller, id, a)
      PROVE  AllReceiptsFit'
  <2> DEFINE f == [e EXCEPT !.directedTaker = a, !.taker = NoOne]
  <2>1. f \in Escrow
    BY <1>1 DEF Escrow
  <2>2. Amend(id, f) /\ UNCHANGED <<nextEscrowId, ledger>> /\ e.status = OPEN
    BY <1>4 DEF SetDirectedTaker
  <2>3. f.status = e.status /\ f.makerToken = e.makerToken /\ f.takerToken = e.takerToken
    BY <1>1 DEF Escrow
  <2> HIDE DEF f
  <2> QED BY <1>2, <1>3, <2>1, <2>2, <2>3
<1>5. CASE AcceptEscrow(caller, id)
  <2> DEFINE f == [e EXCEPT !.taker = caller, !.status = IF @ = OPEN THEN ACCEPTED ELSE @]
  <2>1. f \in Escrow
    BY <1>1, StatusValues DEF Escrow
  <2>2. /\ Amend(id, f) /\ UNCHANGED <<nextEscrowId, ledger>>
        /\ e.status \in {OPEN, ACCEPTED, FUNDED_MAKER}
    BY <1>5 DEF AcceptEscrow
  <2>3. /\ f.status = IF e.status = OPEN THEN ACCEPTED ELSE e.status
        /\ f.makerToken = e.makerToken /\ f.takerToken = e.takerToken
        /\ f.maker = e.maker /\ f.makerAmount = e.makerAmount
    BY <1>1 DEF Escrow
  <2> HIDE DEF f
  <2> QED BY <1>2, <1>3, <2>1, <2>2, <2>3
<1>6. CASE CancelBeforeFunding(caller, id)
  <2> DEFINE f == [e EXCEPT !.status = CANCELLED]
  <2>1. f \in Escrow
    BY <1>1, StatusValues DEF Escrow
  <2>2. /\ Amend(id, f) /\ UNCHANGED <<nextEscrowId, ledger>>
        /\ e.status \in {OPEN, ACCEPTED}
    BY <1>6 DEF CancelBeforeFunding
  <2>3. f.status = CANCELLED /\ f.makerToken = e.makerToken /\ f.takerToken = e.takerToken
    BY <1>1 DEF Escrow
  <2> HIDE DEF f
  <2> QED BY <1>2, <1>3, <2>1, <2>2, <2>3
<1> QED BY <1>4, <1>5, <1>6

LEMMA OpenedFair ==
  ASSUME TypeOK, AllReceiptsFit, NEW maker \in Addresses, NEW terms \in Terms,
         NEW ts \in ExpiryInputs, NEW dt \in Addresses \cup {NoOne},
         AddEscrow(maker, terms, ts, dt)
  PROVE  AllReceiptsFit'
<1> DEFINE n == nextEscrowId
           e == NewEscrow(maker, terms, ts, dt)
<1>1. /\ Ids' = Ids \cup {n} /\ n \notin Ids /\ escrows'[n] = e
      /\ \A i \in Ids : escrows'[i] = escrows[i]
  BY OpenTypes
<1>2. /\ ledger'[n] = [a \in Addresses |-> [t \in Tokens |-> 0]]
      /\ \A i \in Ids : ledger'[i] = ledger[i]
  <2>1. ledger' = [i \in Ids \cup {n} |->
                    IF i = n THEN [a \in Addresses |-> [t \in Tokens |-> 0]] ELSE ledger[i]]
    BY DEF AddEscrow
  <2> QED BY <1>1, <2>1
<1>3. e.status = OPEN /\ e.makerToken # e.takerToken
  BY DEF NewEscrow, AddEscrow
<1>4. ReceiptsFit(e, ledger'[n])
  <2> HIDE DEF e
  <2> QED BY <1>2, <1>3 DEF ReceiptsFit, OPEN, ACCEPTED, FUNDED_MAKER, FUNDED_BOTH,
             EXECUTED, REFUNDED, CANCELLED
<1>5. \A i \in Ids' : ReceiptsFit(escrows'[i], ledger'[i])
  <2> SUFFICES ASSUME NEW i \in Ids' PROVE ReceiptsFit(escrows'[i], ledger'[i])
    OBVIOUS
  <2>1. CASE i = n
    BY <1>1, <1>4, <2>1
  <2>2. CASE i # n
    <3>1. i \in Ids /\ ReceiptsFit(escrows[i], ledger[i])
      BY <1>1, <2>2 DEF AllReceiptsFit
    <3>2. escrows'[i] = escrows[i] /\ ledger'[i] = ledger[i]
      BY <1>1, <1>2, <3>1
    <3> QED BY <3>1, <3>2
  <2> QED BY <2>1, <2>2
<1> QED BY <1>5 DEF AllReceiptsFit, ReceiptsFit, LeastPaid, FeeAt

LEMMA ReceiptsNext ==
  ASSUME TypeOK, StatusMatchesMoney, TakerIsEntitled, AllReceiptsFit, [Next]_vars
  PROVE  AllReceiptsFit'
<1> USE DEF config, index
<1>1. ASSUME UNCHANGED <<nextEscrowId, escrows, ledger>> PROVE AllReceiptsFit'
  BY <1>1 DEF AllReceiptsFit, ReceiptsFit, LeastPaid, FeeAt, Ids
<1>2. ASSUME NEW caller, NEW r, NEW x,
             \/ UNCHANGED vars \/ Tick \/ SetFeeConfig(caller, r, x)
             \/ SetExpiryConfig(caller, x) \/ WithdrawFees(caller, x)
      PROVE  AllReceiptsFit'
  BY <1>1, <1>2 DEF vars, Tick, SetFeeConfig, SetExpiryConfig, WithdrawFees
<1>3. ASSUME NEW maker \in Addresses, NEW taker \in Addresses, NEW terms \in Terms,
             NEW ts \in ExpiryInputs,
             OpenEscrow(maker, terms, ts) \/ OpenEscrowDirected(maker, terms, ts, taker)
      PROVE  AllReceiptsFit'
  BY <1>3, OpenedFair DEF OpenEscrow, OpenEscrowDirected
<1>4. ASSUME NEW caller \in Addresses, NEW a \in Addresses, NEW id \in Ids,
             \/ SetDirectedTaker(caller, id, a)
             \/ AcceptEscrow(caller, id) \/ CancelBeforeFunding(caller, id)
      PROVE  AllReceiptsFit'
  BY <1>4, UnpaidFair
<1>5. ASSUME NEW caller \in Addresses, NEW id \in 0 .. MaxEscrows, NEW acts \in Attachments,
             Withdraw(caller, id, acts)
      PROVE  AllReceiptsFit'
  <2>1. CASE WithdrawFees(caller, acts)
    BY <1>2, <2>1
  <2>2. CASE id \in Ids /\ WithdrawMaker(caller, id, acts)
    BY <2>2, WithdrawMakerFair
  <2>3. CASE id \in Ids /\ WithdrawTaker(caller, id, acts)
    BY <2>3, WithdrawTakerFair
  <2> QED BY <1>5, <2>1, <2>2, <2>3 DEF Withdraw
<1>6. ASSUME NEW caller \in Addresses, NEW id \in Ids, NEW acts \in Attachments,
             \/ FundMaker(caller, id, acts) \/ FundTaker(caller, id, acts)
             \/ Refund(caller, id, acts)
      PROVE  AllReceiptsFit'
  BY <1>6, FundMakerFair, FundTakerFair, RefundFair
<1>7. CASE Next
  BY <1>2, <1>3, <1>4, <1>5, <1>6, <1>7 DEF Next
<1> QED BY <1>2, <1>7

(* Settled or undone, nobody is short, at any rates and after any number   *)
(* of rate changes. *)
THEOREM ExchangeAlwaysFair == Spec => []FairExchange
<1> DEFINE IInv == TypeOK /\ StatusMatchesMoney /\ TakerIsEntitled /\ AllReceiptsFit
<1>1. Init => IInv
  <2>1. Init => AllReceiptsFit
    BY DEF Init, AllReceiptsFit, Ids
  <2> QED BY <2>1, TypeInit, FitInit
<1>2. IInv /\ [Next]_vars => IInv'
  BY TypeNext, FitNext, ReceiptsNext
<1>3. IInv => FairExchange
  BY ReceiptsAreFair
<1> HIDE DEF IInv
<1> QED BY <1>1, <1>2, <1>3, PTL DEF Spec

-----------------------------------------------------------------------------
(* The pages *)

(* The ids are handed out in order, and the list has all of them: what the *)
(* cursor of a page relies on. *)
IdsInOrder ==
  Len(escrowIds) = nextEscrowId /\ \A k \in 1 .. nextEscrowId : escrowIds[k] = k - 1

\* What a reader at cursor c has still to see.
Rest(c) == SubSeq(escrowIds, c + 1, Len(escrowIds))

\* What a reader sees who follows the cursors, by one step of the recursion.
PageThen(from, c, limit) ==
  LET page == EscrowIdsPage(c, limit) IN
  IF page.nextCursor = 0 THEN page.ids ELSE page.ids \o from[page.nextCursor]

Follows(from, limit) == from = [c \in 0 .. Len(escrowIds) |-> PageThen(from, c, limit)]

Advances(page, c) ==
  \/ page.nextCursor = 0 /\ page.ids = Rest(c)
  \/ /\ page.nextCursor \in (c + 1) .. Len(escrowIds) /\ page.nextCursor # 0
     /\ page.ids \o Rest(page.nextCursor) = Rest(c)

(* A page is the next part of the rest; its cursor, where there is one, is *)
(* further on, and the rest from there is what is missing. *)
LEMMA PageAdvances ==
  ASSUME escrowIds \in Seq(Nat), NEW limit \in Nat \ {0},
         NEW c \in 0 .. Len(escrowIds)
  PROVE  Advances(EscrowIdsPage(c, limit), c)
<1> DEFINE n == Len(escrowIds)
           end == IF c + limit > n THEN n ELSE c + limit
           page == EscrowIdsPage(c, limit)
<1>1. n \in Nat /\ c \in Nat /\ c <= n
  OBVIOUS
<1>2. CASE c >= n
  <2>1. page.nextCursor = 0 /\ page.ids = << >>
    BY <1>2 DEF EscrowIdsPage
  <2>2. Rest(c) = << >>
    BY <1>1, <1>2, SubSeqEmpty DEF Rest
  <2> QED BY <2>1, <2>2 DEF Advances
<1>3. CASE c < n
  <2>1. end \in (c + 1) .. n
    BY <1>1, <1>3
  <2>2. /\ page.ids = SubSeq(escrowIds, c + 1, end)
        /\ page.nextCursor = IF end >= n THEN 0 ELSE end
    BY <1>1, <1>3 DEF EscrowIdsPage
  <2> HIDE DEF end, page
  <2>3. CASE end = n
    BY <1>1, <2>2, <2>3 DEF Rest, page, Advances
  <2>4. CASE end # n
    <3>1. page.nextCursor = end /\ end # 0
      BY <1>1, <2>1, <2>2, <2>4
    <3>2. c + 1 \in 1 .. Len(escrowIds) + 1 /\ end \in (c + 1) - 1 .. Len(escrowIds)
          /\ n \in end .. Len(escrowIds)
      BY <1>1, <2>1
    <3>3. SubSeq(escrowIds, c + 1, end) \o SubSeq(escrowIds, end + 1, n)
            = SubSeq(escrowIds, c + 1, n)
      <4> HIDE DEF n
      <4> QED BY <3>2, ConcatAdjacentSubSeq
    <3> QED BY <2>1, <2>2, <3>1, <3>3 DEF Rest, page, Advances
  <2> QED BY <2>3, <2>4
<1> QED BY <1>1, <1>2, <1>3

(* The rests solve the recursion of the pages. *)
LEMMA RestFollows ==
  ASSUME escrowIds \in Seq(Nat), NEW limit \in Nat \ {0}
  PROVE  Follows([c \in 0 .. Len(escrowIds) |-> Rest(c)], limit)
<1> DEFINE rest == [c \in 0 .. Len(escrowIds) |-> Rest(c)]
<1>1. ASSUME NEW c \in 0 .. Len(escrowIds) PROVE PageThen(rest, c, limit) = Rest(c)
  <2> DEFINE page == EscrowIdsPage(c, limit)
  <2>1. \/ page.nextCursor = 0 /\ page.ids = Rest(c)
        \/ /\ page.nextCursor \in (c + 1) .. Len(escrowIds) /\ page.nextCursor # 0
           /\ page.ids \o Rest(page.nextCursor) = Rest(c)
    BY PageAdvances DEF Advances
  <2>2. PageThen(rest, c, limit)
          = IF page.nextCursor = 0 THEN page.ids ELSE page.ids \o rest[page.nextCursor]
    BY DEF PageThen
  <2> HIDE DEF page
  <2>3. \A d \in (c + 1) .. Len(escrowIds) : rest[d] = Rest(d)
    OBVIOUS
  <2> HIDE DEF rest
  <2> QED BY <2>1, <2>2, <2>3
<1> QED BY <1>1 DEF Follows

(* Whatever solves it is the rests: a last cursor where it were not would *)
(* have a later one where it is not either. *)
LEMMA FollowsRest ==
  ASSUME escrowIds \in Seq(Nat), NEW limit \in Nat \ {0}, NEW from, Follows(from, limit)
  PROVE  \A c \in 0 .. Len(escrowIds) : from[c] = Rest(c)
<1> DEFINE n == Len(escrowIds)
           Bad == {k \in 0 .. n : from[n - k] # Rest(n - k)}
<1>1. n \in Nat
  OBVIOUS
<1>2. ASSUME Bad # {} PROVE FALSE
  <2>1. Bad \in SUBSET Nat
    BY <1>1
  <2>2. PICK k \in Bad : \A j \in Bad : k <= j
    <3> HIDE DEF Bad
    <3> QED BY <1>2, <2>1, Least
  <2> DEFINE c == n - k
  <2>3. k \in 0 .. n /\ c \in 0 .. n /\ from[c] # Rest(c) /\ c \in Int /\ k \in Int
    BY <1>1
  <2> DEFINE page == EscrowIdsPage(c, limit)
  <2>4. from[c] = IF page.nextCursor = 0 THEN page.ids ELSE page.ids \o from[page.nextCursor]
    <3>1. from = [d \in 0 .. n |-> PageThen(from, d, limit)]
      BY DEF Follows
    <3>2. from[c] = PageThen(from, c, limit)
      <4> HIDE DEF n, c
      <4> QED BY <2>3, <3>1
    <3> HIDE DEF c
    <3> QED BY <3>2 DEF PageThen
  <2>5. \/ page.nextCursor = 0 /\ page.ids = Rest(c)
        \/ /\ page.nextCursor \in (c + 1) .. n /\ page.nextCursor # 0
           /\ page.ids \o Rest(page.nextCursor) = Rest(c)
    <3> HIDE DEF c
    <3> QED BY <2>3, PageAdvances DEF Advances
  <2> DEFINE d == page.nextCursor
  <2> HIDE DEF page
  <2>6. d \in (c + 1) .. n /\ from[d] # Rest(d)
    <3> HIDE DEF c
    <3> QED BY <2>3, <2>4, <2>5
  <2> HIDE DEF d
  <2>7. n - d \in 0 .. n /\ n - (n - d) = d /\ n - d < k
    <3> HIDE DEF n
    <3> QED BY <1>1, <2>3, <2>6
  <2>8. n - d \in Bad
    <3> HIDE DEF n, c
    <3> QED BY <2>6, <2>7
  <2>9. k <= n - d
    <3> HIDE DEF Bad
    <3> QED BY <2>2, <2>8
  <2>10. n - d \in Int
    BY <1>1, <2>7
  <2> HIDE DEF n, Bad
  <2> QED BY <2>3, <2>7, <2>9, <2>10
<1>3. ASSUME NEW c \in 0 .. n PROVE from[c] = Rest(c)
  <2>1. n - c \in 0 .. n /\ n - (n - c) = c
    BY <1>1
  <2>2. n - c \notin Bad
    <3> HIDE DEF Bad
    <3> QED BY <1>2
  <2> HIDE DEF n
  <2> QED BY <2>1, <2>2
<1> QED BY <1>3

(* A reader who follows the cursors from 0 sees the list. *)
LEMMA PagesAreTheList ==
  ASSUME escrowIds \in Seq(Nat), NEW limit \in Nat \ {0}
  PROVE  (CHOOSE from : Follows(from, limit))[0] = escrowIds
<1>1. \E from : Follows(from, limit)
  BY RestFollows
<1> DEFINE from == CHOOSE from : Follows(from, limit)
<1>2. Follows(from, limit)
  BY <1>1
<1> HIDE DEF from
<1>3. Len(escrowIds) \in Nat /\ 0 \in 0 .. Len(escrowIds)
  OBVIOUS
<1>4. from[0] = Rest(0)
  BY <1>2, <1>3, FollowsRest
<1>5. Rest(0) = escrowIds
  BY SubSeqFull DEF Rest
<1> QED BY <1>4, <1>5 DEF from

(* Ids in order, the pages list them all. *)
LEMMA PagesInOrder ==
  ASSUME escrowIds \in Seq(Nat), nextEscrowId \in Nat, IdsInOrder
  PROVE  PagesListEveryEscrow
<1>1. escrowIds = [k \in 1 .. nextEscrowId |-> k - 1]
  BY DEF IdsInOrder
<1>2. ASSUME NEW limit \in 1 .. (MaxEscrows + 1)
      PROVE LET from[c \in 0 .. Len(escrowIds)] ==
                  LET page == EscrowIdsPage(c, limit) IN
                  IF page.nextCursor = 0 THEN page.ids ELSE page.ids \o from[page.nextCursor]
            IN from[0] = [k \in 1 .. nextEscrowId |-> k - 1]
  <2>1. limit \in Nat \ {0}
    BY DataAssumption
  <2>2. (CHOOSE from : Follows(from, limit))[0] = escrowIds
    BY <2>1, PagesAreTheList
  <2> QED BY <1>1, <2>2 DEF Follows, PageThen
<1> QED BY <1>2 DEF PagesListEveryEscrow

LEMMA InOrderInit == Init => IdsInOrder
BY DEF Init, IdsInOrder

LEMMA OpenedInOrder ==
  ASSUME TypeOK, IdsInOrder, NEW maker, NEW terms, NEW ts, NEW taker,
         AddEscrow(maker, terms, ts, taker)
  PROVE  IdsInOrder'
<1>1. escrowIds \in Seq(Nat) /\ nextEscrowId \in Nat
  BY DEF TypeOK
<1>2. escrowIds' = Append(escrowIds, nextEscrowId) /\ nextEscrowId' = nextEscrowId + 1
  BY DEF AddEscrow
<1> QED BY <1>1, <1>2, AppendProperties DEF IdsInOrder

LEMMA InOrderNext == TypeOK /\ IdsInOrder /\ [Next]_vars => IdsInOrder'
<1> SUFFICES ASSUME TypeOK, IdsInOrder, [Next]_vars PROVE IdsInOrder'
  OBVIOUS
<1> USE DEF config, index
<1>1. ASSUME UNCHANGED <<nextEscrowId, escrowIds>> PROVE IdsInOrder'
  BY <1>1 DEF IdsInOrder
<1>2. ASSUME NEW caller, NEW r, NEW x,
             \/ UNCHANGED vars \/ Tick \/ SetFeeConfig(caller, r, x)
             \/ SetExpiryConfig(caller, x) \/ WithdrawFees(caller, x)
      PROVE  IdsInOrder'
  BY <1>1, <1>2 DEF vars, Tick, SetFeeConfig, SetExpiryConfig, WithdrawFees
<1>3. ASSUME NEW maker \in Addresses, NEW taker \in Addresses, NEW terms \in Terms,
             NEW ts \in ExpiryInputs,
             OpenEscrow(maker, terms, ts) \/ OpenEscrowDirected(maker, terms, ts, taker)
      PROVE  IdsInOrder'
  BY <1>3, OpenedInOrder DEF OpenEscrow, OpenEscrowDirected
<1>4. ASSUME NEW caller \in Addresses, NEW a \in Addresses, NEW id \in Ids, NEW acts,
             \/ SetDirectedTaker(caller, id, a)
             \/ AcceptEscrow(caller, id) \/ CancelBeforeFunding(caller, id)
             \/ FundMaker(caller, id, acts) \/ FundTaker(caller, id, acts)
             \/ Refund(caller, id, acts)
      PROVE  IdsInOrder'
  BY <1>1, <1>4 DEF SetDirectedTaker, AcceptEscrow, CancelBeforeFunding, FundMaker, FundTaker, Refund
<1>5. ASSUME NEW caller \in Addresses, NEW id \in 0 .. MaxEscrows, NEW acts \in Attachments,
             Withdraw(caller, id, acts)
      PROVE  IdsInOrder'
  BY <1>1, <1>2, <1>5 DEF Withdraw, WithdrawMaker, WithdrawTaker
<1>6. CASE Next
  BY <1>2, <1>3, <1>4, <1>5, <1>6 DEF Next
<1> QED BY <1>2, <1>6

(* Following next_cursor from 0 lists every escrow once and in order, for   *)
(* every page size and however many escrows were opened. *)
THEOREM PagesAlwaysComplete == Spec => []PagesListEveryEscrow
<1> DEFINE IInv == TypeOK /\ IdsInOrder
<1>1. Init => IInv
  BY TypeInit, InOrderInit
<1>2. IInv /\ [Next]_vars => IInv'
  BY TypeNext, InOrderNext
<1>3. IInv => PagesListEveryEscrow
  BY PagesInOrder DEF TypeOK
<1> HIDE DEF IInv
<1> QED BY <1>1, <1>2, <1>3, PTL DEF Spec

=============================================================================
