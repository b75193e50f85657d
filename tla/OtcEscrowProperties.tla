------------------------- MODULE OtcEscrowProperties -------------------------
(***************************************************************************)
(* What is claimed of OtcEscrow: the state invariants, the action          *)
(* properties, the abstract specification it implements and the liveness   *)
(* properties.  OtcEscrowProofs proves part of them for all constants.     *)
(***************************************************************************)
EXTENDS OtcEscrow

(* The shape of the stored state. *)
TypeOK ==
  /\ owner \in Addresses /\ feeRecipient \in Addresses
  /\ feeBps \in Int /\ ValidFeeRate(feeBps)
  /\ expiry \in ExpiryConfigs /\ ValidExpiry(expiry)
  /\ nextEscrowId \in Nat
  /\ escrowIds \in Seq(Nat)
  /\ escrows \in [Ids -> Escrow]
  /\ statusCount \in [Statuses -> Int]
  /\ totals \in [all : Nat, public : Nat, directed : Nat]
  /\ fees \in [Tokens -> Nat]
  /\ now \in Nat \ {0}
  /\ balance \in [Tokens -> Int]
  /\ ledger \in [Ids -> [Addresses -> [Tokens -> Int]]]

-----------------------------------------------------------------------------
(* Custody.  A leg is in custody from its deposit until it goes back to its *)
(* depositor or on to the other party. *)
MakerLegHeld(e) == e.makerFunded /\ ~ e.makerRefunded /\ ~ e.takerWithdrawn
TakerLegHeld(e) == e.takerFunded /\ ~ e.takerRefunded /\ ~ e.makerWithdrawn

HeldFor(e, t) ==
  (IF MakerLegHeld(e) /\ e.makerToken = t THEN e.makerAmount ELSE 0)
  + (IF TakerLegHeld(e) /\ e.takerToken = t THEN e.takerAmount ELSE 0)

Custody(t) == SumFunctionOnSet([i \in Ids |-> HeldFor(escrows[i], t)], Ids)

(* The contract's balance of every token is exactly what it holds for the  *)
(* parties of all its escrows plus the fees it owes the fee recipient, in  *)
(* spite of rate changes between the two withdrawals of an escrow and of   *)
(* fee claims in between (withdraw, refund, fund_maker, fund_taker). *)
Solvency == \A t \in Tokens : balance[t] = Custody(t) + fees[t]

(* The counters kept by increments along the way are the numbers a scan of *)
(* the escrows would give (_set_status, the totals of open_escrow). *)
CountersAgree ==
  /\ \A s \in Statuses : statusCount[s] = Cardinality({i \in Ids : escrows[i].status = s})
  /\ totals.all = nextEscrowId /\ Len(escrowIds) = nextEscrowId
  /\ totals.directed = Cardinality({i \in Ids : Directed(escrows[i])})
  /\ totals.public + totals.directed = totals.all

(* The status says which money moved: the maker's flag alone until both    *)
(* funded, both withdrawals exactly when EXECUTED, a refund only of the    *)
(* maker, and never anything of the taker after a refund.  In particular   *)
(* the taker branch of refund is never taken. *)
StatusFits(e) ==
  /\ e.makerFunded <=> e.status \in {FUNDED_MAKER, FUNDED_BOTH, EXECUTED, REFUNDED}
  /\ e.takerFunded <=> e.status \in {FUNDED_BOTH, EXECUTED}
  /\ e.makerRefunded <=> e.status = REFUNDED
  /\ ~ e.takerRefunded
  /\ e.makerWithdrawn \/ e.takerWithdrawn => e.status \in {FUNDED_BOTH, EXECUTED}
  /\ e.makerWithdrawn /\ e.takerWithdrawn <=> e.status = EXECUTED
StatusMatchesMoney == \A i \in Ids : StatusFits(escrows[i])

(* Only the directed taker, and never the maker, is ever the taker, though *)
(* the maker may retarget a directed escrow and the taker may come before  *)
(* or after the maker's deposit. *)
TakerFits(e) ==
  /\ e.taker # NoOne => e.taker # e.maker /\ e.directedTaker \in {NoOne, e.taker}
  /\ e.status = OPEN => e.taker = NoOne
  /\ e.status \in {ACCEPTED, FUNDED_BOTH, EXECUTED} => e.taker # NoOne
TakerIsEntitled == \A i \in Ids : TakerFits(escrows[i])

(* Settled or undone, nobody is short: an executed swap took from each side *)
(* its own amount and gave it the other's less at most the capped fee; a    *)
(* refund or a cancellation leaves everybody where they were; nobody but    *)
(* the two parties is ever paid from an escrow. *)
FairExchange ==
  \A i \in Ids : LET e == escrows[i]
                     least(amount) == amount - FeeAt(MAX_PROTOCOL_FEE_BPS, amount) IN
    /\ \A a \in Addresses, t \in Tokens :
         a \notin {e.maker, e.taker} \/ e.status \in {OPEN, ACCEPTED, REFUNDED, CANCELLED}
           => ledger[i][a][t] = 0
    /\ e.status = EXECUTED =>
         /\ ledger[i][e.maker][e.makerToken] = - e.makerAmount
         /\ ledger[i][e.taker][e.takerToken] = - e.takerAmount
         /\ ledger[i][e.maker][e.takerToken] \in least(e.takerAmount) .. e.takerAmount
         /\ ledger[i][e.taker][e.makerToken] \in least(e.makerAmount) .. e.makerAmount

(* Following next_cursor from 0 lists every escrow once, in order, whatever *)
(* the page size (get_escrow_ids_page). *)
PagesListEveryEscrow ==
  \A limit \in 1 .. (MaxEscrows + 1) :
    LET from[c \in 0 .. Len(escrowIds)] ==
          LET page == EscrowIdsPage(c, limit) IN
          IF page.nextCursor = 0 THEN page.ids ELSE page.ids \o from[page.nextCursor]
    IN from[0] = [k \in 1 .. nextEscrowId |-> k - 1]

-----------------------------------------------------------------------------
(* A recorded taker stays the taker: no second acceptance, retargeting or  *)
(* funding call replaces who may fund and be paid. *)
TakerStays ==
  [][\A i \in Ids : escrows[i].taker # NoOne => escrows'[i].taker = escrows[i].taker]_vars

(* After its stage has expired an escrow is only ever closed: no acceptance, *)
(* retargeting or deposit gets in, whatever the owner does to the expiry    *)
(* configuration (_assert_not_expired_for_actions in each method). *)
ExpiredOnlyCloses ==
  [][\A i \in Ids : ExpiredForCurrentStage(escrows[i]) =>
       escrows'[i] = escrows[i] \/ escrows'[i].status \in {CANCELLED, REFUNDED}]_vars

(* Every escrow implements an atomic swap. *)
MakerLeg(id) ==
  IF id \notin Ids \/ ~ escrows[id].makerFunded THEN "away"
  ELSE IF escrows[id].makerRefunded THEN "returned"
  ELSE IF escrows[id].takerWithdrawn THEN "paid" ELSE "held"
TakerLeg(id) ==
  IF id \notin Ids \/ ~ escrows[id].takerFunded THEN "away"
  ELSE IF escrows[id].takerRefunded THEN "returned"
  ELSE IF escrows[id].makerWithdrawn THEN "paid" ELSE "held"

Swap(id) == INSTANCE AtomicSwap WITH makerLeg <- MakerLeg(id), takerLeg <- TakerLeg(id)

\* Swap(id)!Spec for every id.
SwapsAreAtomic ==
  /\ \A id \in AllIds : Swap(id)!Init
  /\ [][\A id \in AllIds : [Swap(id)!Next]_(Swap(id)!legs)]_vars

-----------------------------------------------------------------------------
Is(id, status) == id \in Ids /\ escrows[id].status = status

(* A maker who funded alone is not locked up: a taker joins or the deposit  *)
(* goes back, also if the owner moves the deadlines of later escrows. *)
LoneDepositEnds == \A id \in AllIds : Is(id, FUNDED_MAKER) ~> ~ Is(id, FUNDED_MAKER)

(* A fully funded swap completes, if from then on neither party is the fee  *)
(* recipient. *)
Outsider(id) == id \in Ids => feeRecipient \notin {escrows[id].maker, escrows[id].taker}
FundedSwapSettles ==
  \A id \in AllIds : Is(id, FUNDED_BOTH) /\ []Outsider(id) ~> Is(id, EXECUTED)

(* The same without that proviso, as spec.md:166-167 states it: maker and   *)
(* taker withdraw their amounts. *)
PartiesAlwaysSettle == \A id \in AllIds : Is(id, FUNDED_BOTH) ~> Is(id, EXECUTED)

=============================================================================
