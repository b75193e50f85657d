------------------------------- MODULE Lottery -------------------------------
(***************************************************************************)
(* The blueprint Lottery (blueprints/lottery): one round.  The creator     *)
(* pays a fee that stays in the contract, participants buy tickets, one    *)
(* ticket is drawn by the creator or, after a timeout, by anybody; then    *)
(* the winner claims the pot less the commission, the creator the          *)
(* commission and the fee, each in as many parts as they like.             *)
(*                                                                         *)
(* One action is one call of a public method; a raise is a guard.          *)
(*                                                                         *)
(* External: the platform adds the deposits to the contract's HTR balance  *)
(* and subtracts the withdrawals; the contract's random generator may      *)
(* return any index.                                                       *)
(*                                                                         *)
(* Abstracted: the thirty days and the ten HTR are the parameters Timeout  *)
(* and CreationFee.  Other tokens in a transaction are neither examined    *)
(* nor accounted for by the code and are left out.                         *)
(***************************************************************************)
EXTENDS Integers, Sequences, SequencesExt, FiniteSets

CONSTANTS
  Addresses,
  NoOne,        \* EMPTY_ADDRESS
  Prices,       \* ticket prices a creator may try
  Commissions,  \* commissions a creator may try, in percent
  Deposits,     \* amounts a transaction may deposit
  Claims,       \* amounts a transaction may withdraw
  CreationFee,
  Timeout,
  MaxTickets,   \* bound: number of tickets sold
  MaxTime       \* bound: last block time

ASSUME LotteryAssumption ==
  /\ NoOne \notin Addresses
  /\ Prices \subseteq Int /\ Commissions \subseteq Int
  /\ Deposits \subseteq Nat \ {0} /\ Claims \subseteq Nat \ {0}
  /\ CreationFee \in Nat /\ Timeout \in Nat
  /\ MaxTickets \in Nat /\ MaxTime \in Nat

VARIABLES
  price, commission, creator,
  pot, state, participants, winner,
  creatorPayout, winnerPayout,
  now,        \* seconds since creation_timestamp
  balance,    \* the platform's HTR balance of the contract
  received,   \* history: HTR claimed by each address
  fee         \* history: the creator's first deposit

terms == <<price, commission, creator, fee>>
vars == <<terms, pot, state, participants, winner, creatorPayout, winnerPayout,
          now, balance, received>>

-----------------------------------------------------------------------------
Init ==
  /\ price \in {p \in Prices : p > 0}
  /\ commission \in Commissions \cap (0 .. 100)
  /\ creator \in Addresses
  /\ fee \in {amount \in Deposits : amount >= CreationFee}
  /\ pot = 0
  /\ state = "OPEN"
  /\ participants = << >>
  /\ winner = NoOne
  /\ creatorPayout = fee
  /\ winnerPayout = 0
  /\ now = 0
  /\ balance = fee
  /\ received = [a \in Addresses |-> 0]

Tick ==
  /\ now < MaxTime
  /\ now' = now + 1
  /\ UNCHANGED <<terms, pot, state, participants, winner, creatorPayout, winnerPayout,
                 balance, received>>

\* The whole deposit goes to the pot, for one ticket.
BuyTicket(buyer, amount) ==
  /\ state = "OPEN"
  /\ amount >= price
  /\ Len(participants) < MaxTickets
  /\ participants' = Append(participants, buyer)
  /\ pot' = pot + amount
  /\ balance' = balance + amount
  /\ UNCHANGED <<terms, state, winner, creatorPayout, winnerPayout, now, received>>

\* Mutant: only the creator draws.
MayDrawCreator(caller) == caller = creator

MayDraw(caller) == caller = creator \/ now > Timeout

\* Mutant: the creator may close without a draw although tickets were sold.
DrawNobodyEarly(caller) ==
  /\ MayDraw(caller)
  /\ state = "OPEN"
  /\ state' = "CLOSED"
  /\ UNCHANGED <<terms, pot, participants, winner, creatorPayout, winnerPayout,
                 now, balance, received>>

\* Nobody bought a ticket: the round closes without a winner.
DrawNobody(caller) ==
  /\ MayDraw(caller)
  /\ state = "OPEN"
  /\ participants = << >>
  /\ state' = "CLOSED"
  /\ UNCHANGED <<terms, pot, participants, winner, creatorPayout, winnerPayout,
                 now, balance, received>>

Commission == (pot * commission) \div 100

DrawWinner(caller) ==
  /\ MayDraw(caller)
  /\ state = "OPEN"
  /\ participants # << >>
  /\ \E i \in DOMAIN participants : winner' = participants[i]
  /\ state' = "CLOSED"
  /\ creatorPayout' = creatorPayout + Commission
  /\ winnerPayout' = pot - Commission
  /\ UNCHANGED <<terms, pot, participants, now, balance, received>>

Available(a) ==
  (IF a = winner THEN winnerPayout ELSE 0) + (IF a = creator THEN creatorPayout ELSE 0)

Smaller(a, b) == IF a <= b THEN a ELSE b

\* What a claim takes out of the winner's payout; the rest is the creator's.
FromWinner(a, amount) == IF a = winner THEN Smaller(amount, winnerPayout) ELSE 0

\* Mutant: both payouts are charged with all of a claim.
ClaimRewardTwice(caller, amount) ==
  /\ state = "CLOSED"
  /\ Available(caller) > 0
  /\ amount <= Available(caller)
  /\ winnerPayout' = winnerPayout - FromWinner(caller, amount)
  /\ creatorPayout' = IF caller = creator THEN creatorPayout - Smaller(amount, creatorPayout)
                      ELSE creatorPayout
  /\ balance' = balance - amount
  /\ received' = [received EXCEPT ![caller] = @ + amount]
  /\ UNCHANGED <<terms, pot, state, participants, winner, now>>

ClaimReward(caller, amount) ==
  /\ state = "CLOSED"
  /\ Available(caller) > 0
  /\ amount <= Available(caller)
  /\ winnerPayout' = winnerPayout - FromWinner(caller, amount)
  /\ creatorPayout' = creatorPayout - (amount - FromWinner(caller, amount))
  /\ balance' = balance - amount
  /\ received' = [received EXCEPT ![caller] = @ + amount]
  /\ UNCHANGED <<terms, pot, state, participants, winner, now>>

Next ==
  \/ Tick
  \/ \E a \in Addresses, amount \in Deposits : BuyTicket(a, amount)
  \/ \E a \in Addresses : DrawNobody(a)
  \/ \E a \in Addresses : DrawWinner(a)
  \/ \E a \in Addresses, amount \in Claims : ClaimReward(a, amount)

Spec == Init /\ [][Next]_vars

\* Time passes; a participant draws when allowed to; who is owed money takes
\* what is left.  The creator owes nobody a draw.
ParticipantDraws == \E a \in ToSet(participants) : DrawWinner(a)
TakesTheRest(a) == \E amount \in Claims : amount = Available(a) /\ ClaimReward(a, amount)

Fairness ==
  /\ WF_vars(Tick)
  /\ WF_vars(ParticipantDraws)
  /\ \A a \in Addresses : WF_vars(TakesTheRest(a))

FairSpec == Spec /\ Fairness

-----------------------------------------------------------------------------
TypeOK ==
  /\ price \in Nat \ {0} /\ commission \in 0 .. 100 /\ creator \in Addresses
  /\ fee \in Nat /\ pot \in Nat
  /\ state \in {"OPEN", "CLOSED"}
  /\ participants \in Seq(Addresses)
  /\ winner \in Addresses \cup {NoOne}
  /\ creatorPayout \in Nat /\ winnerPayout \in Nat
  /\ now \in Nat /\ balance \in Int
  /\ received \in [Addresses -> Nat]

(* The contract holds exactly what it can be asked for: the pot and the    *)
(* creator's fee before the draw, the two payouts after it (buy_ticket,    *)
(* draw_winner, claim_reward). *)
Conservation ==
  balance = creatorPayout + (IF state = "OPEN" THEN pot ELSE winnerPayout)

(* Whoever wins, also the creator, and in however many parts they claim:    *)
(* what an address has received and can still claim is its due, the pot     *)
(* less commission for the winner, fee and commission for the creator, and  *)
(* nothing for anybody else.  The winner bought a ticket. *)
Due(a) ==
  (IF a = winner THEN pot - Commission ELSE 0)
  + (IF a = creator THEN fee + (IF winner = NoOne THEN 0 ELSE Commission) ELSE 0)
EverybodyGetsTheirDue ==
  /\ \A a \in Addresses : received[a] + Available(a) = Due(a)
  /\ winner # NoOne => winner \in ToSet(participants)
  /\ state = "CLOSED" /\ participants # << >> => winner # NoOne

(* A sold ticket is not money lost to a creator who disappears: the pot is  *)
(* drawn and paid out (the timeout of draw_winner). *)
PotIsPaidOut ==
  pot > 0 ~> (\E a \in Addresses : a = winner /\ received[a] >= pot - Commission)

=============================================================================
