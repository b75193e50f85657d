------------------------------ MODULE OtcEscrow ------------------------------
(***************************************************************************)
(* The blueprint OtcEscrowSwap (blueprints/otc_escrow_swap): bilateral     *)
(* swaps held in custody by a contract.  A maker publishes terms, a taker  *)
(* accepts them, the maker funds, then the taker funds; each side then     *)
(* withdraws the other side's tokens less a protocol fee.  Every stage     *)
(* before the second deposit expires; after expiry the maker can take the  *)
(* deposit back.                                                           *)
(*                                                                         *)
(* One action is one call of a public method.  The platform runs a call as *)
(* one atomic transaction and reverts it when the method raises, so a      *)
(* raise is a guard.  Calls of different addresses interleave freely and   *)
(* the block time `now` only grows.                                        *)
(*                                                                         *)
(* External, as the code uses it: the platform credits the deposits and    *)
(* debits the withdrawals attached to a successful call from the           *)
(* contract's balance of each token.  It refuses to overdraw; here nothing *)
(* stops a withdrawal, so that Solvency shows there is never a need to.    *)
(*                                                                         *)
(* Abstracted: addresses and tokens are opaque values, is_directed is the  *)
(* presence of a directed taker (the code writes both together), the       *)
(* dictionaries keyed by escrow id are one record per escrow.              *)
(***************************************************************************)
EXTENDS Integers, Sequences, FiniteSets, Functions

CONSTANTS
  Addresses,      \* callers: makers, takers, owner, fee recipient
  Tokens,         \* token uids
  NoOne,          \* the missing taker, the missing directed taker
  Amounts,        \* amounts that terms may name
  Payments,       \* amounts a transaction may deposit or withdraw
  FeeRates,       \* protocol_fee_bps values an owner may try
  ExpiryConfigs,  \* expiry configurations an owner may try
  ExpiryInputs,   \* expiry_timestamp arguments (0: use the default)
  MaxEscrows,     \* bound: number of escrows opened
  MaxTime         \* bound: last block time, and last deadline given out

ASSUME DataAssumption ==
  /\ IsFiniteSet(Tokens)
  /\ NoOne \notin Addresses
  /\ Amounts \subseteq Int
  /\ Payments \subseteq Nat
  /\ FeeRates \subseteq Int
  /\ ExpiryConfigs \subseteq
       [openSecs : Int, fundedSecs : Int, minSecs : Int, maxSecs : Int]
  /\ ExpiryInputs \subseteq Nat
  /\ MaxEscrows \in Nat
  /\ MaxTime \in Nat

VARIABLES
  owner, feeRecipient, feeBps, expiry,  \* configuration
  nextEscrowId, escrowIds, escrows,     \* the escrows, by id
  statusCount, totals,                  \* the counters shown on a website
  fees,                                 \* protocol_fee_balances
  now,                                  \* block timestamp of the next call
  balance,                              \* the platform's token balances
  ledger                                \* history: net receipts per escrow

config == <<owner, feeRecipient, feeBps, expiry>>
index == <<nextEscrowId, escrowIds, totals>>
vars == <<config, index, escrows, statusCount, fees, now, balance, ledger>>

-----------------------------------------------------------------------------
MAX_PROTOCOL_FEE_BPS == 200

OPEN == 0
ACCEPTED == 1
FUNDED_MAKER == 2
FUNDED_BOTH == 3
EXECUTED == 4
REFUNDED == 5
CANCELLED == -2

Statuses == {OPEN, ACCEPTED, FUNDED_MAKER, FUNDED_BOTH, EXECUTED, REFUNDED, CANCELLED}
Closed == {EXECUTED, REFUNDED, CANCELLED}

Ids == 0 .. (nextEscrowId - 1)

Terms == [makerToken : Tokens, makerAmount : Amounts,
          takerToken : Tokens, takerAmount : Amounts]

Escrow == [maker : Addresses,
           taker : Addresses \cup {NoOne},
           directedTaker : Addresses \cup {NoOne},
           makerToken : Tokens, makerAmount : Nat \ {0},
           takerToken : Tokens, takerAmount : Nat \ {0},
           makerFunded : BOOLEAN, takerFunded : BOOLEAN,
           makerWithdrawn : BOOLEAN, takerWithdrawn : BOOLEAN,
           makerRefunded : BOOLEAN, takerRefunded : BOOLEAN,
           openExpiry : Nat, makerFundedExpiry : Nat,
           status : Statuses]

\* The actions of a transaction: at most one deposit or withdrawal per token.
Attachments == UNION {[T -> Payments] : T \in SUBSET Tokens}

Directed(e) == e.directedTaker # NoOne

ValidFeeRate(bps) == 0 <= bps /\ bps <= MAX_PROTOCOL_FEE_BPS

ValidExpiry(c) ==
  /\ 0 < c.minSecs /\ c.minSecs <= c.maxSecs
  /\ c.minSecs <= c.openSecs /\ c.openSecs <= c.maxSecs
  /\ c.minSecs <= c.fundedSecs /\ c.fundedSecs <= c.maxSecs

-----------------------------------------------------------------------------
(* Helpers of the code. *)

FeeAt(bps, amount) ==
  IF bps <= 0 \/ amount <= 0 THEN 0 ELSE (amount * bps + 9999) \div 10000

CeilFee(amount) == FeeAt(feeBps, amount)

\* Mutant: only the stage before funding has a deadline.
ExpiredBeforeFunding(e) ==
  e.status \in {OPEN, ACCEPTED} /\ e.openExpiry > 0 /\ now >= e.openExpiry

ExpiredForCurrentStage(e) ==
  \/ e.status \in {OPEN, ACCEPTED} /\ e.openExpiry > 0 /\ now >= e.openExpiry
  \/ e.status = FUNDED_MAKER /\ e.makerFundedExpiry > 0 /\ now >= e.makerFundedExpiry

\* Mutant: the counter of the status left behind is not decremented.
RecountForgetful(old, new) == [statusCount EXCEPT ![new] = @ + 1]

\* _set_status on an existing escrow: nothing happens when the status stays.
Recount(old, new) ==
  IF old = new THEN statusCount
  ELSE [statusCount EXCEPT ![old] = @ - 1, ![new] = @ + 1]

\* _process_withdraw and its deposit twin: exactly this token and amount.
Exactly(acts, token, amount) == DOMAIN acts = {token} /\ acts[token] = amount

Attached(acts, t) == IF t \in DOMAIN acts THEN acts[t] ELSE 0

\* What the platform does with the attachments of a successful call.
Credit(acts) == balance' = [t \in Tokens |-> balance[t] + Attached(acts, t)]
Debit(acts) == balance' = [t \in Tokens |-> balance[t] - Attached(acts, t)]

\* History: `who` received `amount` of `token` on account of escrow id.
Book(id, who, token, amount) ==
  ledger' = [ledger EXCEPT ![id][who][token] = @ + amount]

\* An existing escrow changes to e and its status is recounted.
Amend(id, e) ==
  /\ escrows' = [escrows EXCEPT ![id] = e]
  /\ statusCount' = Recount(escrows[id].status, e.status)

-----------------------------------------------------------------------------
Init ==
  /\ owner \in Addresses
  /\ feeRecipient \in Addresses
  /\ feeBps \in {bps \in FeeRates : ValidFeeRate(bps)}
  /\ expiry \in {c \in ExpiryConfigs : ValidExpiry(c)}
  /\ nextEscrowId = 0
  /\ escrowIds = << >>
  /\ escrows = [i \in {} |-> NoOne]
  /\ statusCount = [s \in Statuses |-> 0]
  /\ totals = [all |-> 0, public |-> 0, directed |-> 0]
  /\ fees = [t \in Tokens |-> 0]
  /\ now = 1
  /\ balance = [t \in Tokens |-> 0]
  /\ ledger = [i \in {} |-> NoOne]

Tick ==
  /\ now < MaxTime
  /\ now' = now + 1
  /\ UNCHANGED <<config, index, escrows, statusCount, fees, balance, ledger>>

SetFeeConfig(caller, recipient, bps) ==
  /\ caller = owner
  /\ ValidFeeRate(bps)
  /\ feeRecipient' = recipient
  /\ feeBps' = bps
  /\ UNCHANGED <<owner, expiry, index, escrows, statusCount, fees, now, balance, ledger>>

SetExpiryConfig(caller, c) ==
  /\ caller = owner
  /\ ValidExpiry(c)
  /\ expiry' = c
  /\ UNCHANGED <<owner, feeRecipient, feeBps>>
  /\ UNCHANGED <<index, escrows, statusCount, fees, now, balance, ledger>>

-----------------------------------------------------------------------------
(* Opening *)

\* _validate_expiry_timestamp_or_default
AcceptableExpiry(ts) ==
  ts = 0 \/ (expiry.minSecs <= ts - now /\ ts - now <= expiry.maxSecs)

OpenExpiry(ts) == IF ts = 0 THEN now + expiry.openSecs ELSE ts

NewEscrow(maker, terms, ts, directedTaker) ==
  [maker |-> maker, taker |-> NoOne, directedTaker |-> directedTaker,
   makerToken |-> terms.makerToken, makerAmount |-> terms.makerAmount,
   takerToken |-> terms.takerToken, takerAmount |-> terms.takerAmount,
   makerFunded |-> FALSE, takerFunded |-> FALSE,
   makerWithdrawn |-> FALSE, takerWithdrawn |-> FALSE,
   makerRefunded |-> FALSE, takerRefunded |-> FALSE,
   openExpiry |-> OpenExpiry(ts), makerFundedExpiry |-> 0,
   status |-> OPEN]

\* The part common to public and directed escrows.
AddEscrow(maker, terms, ts, directedTaker) ==
  /\ terms.makerAmount > 0 /\ terms.takerAmount > 0
  /\ terms.makerToken # terms.takerToken
  /\ AcceptableExpiry(ts)
  /\ nextEscrowId < MaxEscrows
  /\ OpenExpiry(ts) <= MaxTime
  /\ escrows' = [i \in Ids \cup {nextEscrowId} |->
                   IF i = nextEscrowId THEN NewEscrow(maker, terms, ts, directedTaker)
                   ELSE escrows[i]]
  /\ ledger' = [i \in Ids \cup {nextEscrowId} |->
                  IF i = nextEscrowId THEN [a \in Addresses |-> [t \in Tokens |-> 0]]
                  ELSE ledger[i]]
  /\ statusCount' = [statusCount EXCEPT ![OPEN] = @ + 1]
  /\ nextEscrowId' = nextEscrowId + 1
  /\ escrowIds' = Append(escrowIds, nextEscrowId)
  /\ UNCHANGED <<config, fees, now, balance>>

OpenEscrow(maker, terms, ts) ==
  /\ AddEscrow(maker, terms, ts, NoOne)
  /\ totals' = [totals EXCEPT !.all = @ + 1, !.public = @ + 1]

OpenEscrowDirected(maker, terms, ts, directedTaker) ==
  /\ directedTaker # maker
  /\ AddEscrow(maker, terms, ts, directedTaker)
  /\ totals' = [totals EXCEPT !.all = @ + 1, !.directed = @ + 1]

-----------------------------------------------------------------------------
(* Before any money moves *)

\* Mutant: retargeting is not limited to OPEN escrows.
SetDirectedTakerAnytime(caller, id, new) ==
  LET e == escrows[id] IN
  /\ caller = e.maker
  /\ Directed(e)
  /\ ~ ExpiredForCurrentStage(e)
  /\ new # e.maker
  /\ Amend(id, [e EXCEPT !.directedTaker = new])
  /\ UNCHANGED <<config, index, fees, now, balance, ledger>>

SetDirectedTaker(caller, id, new) ==
  LET e == escrows[id] IN
  /\ caller = e.maker
  /\ Directed(e)
  /\ e.status = OPEN
  /\ ~ ExpiredForCurrentStage(e)
  /\ new # e.maker
  /\ Amend(id, [e EXCEPT !.directedTaker = new, !.taker = NoOne])
  /\ UNCHANGED <<config, index, fees, now, balance, ledger>>

\* Accepting twice, or after the maker has funded, is allowed.
AcceptEscrow(taker, id) ==
  LET e == escrows[id] IN
  /\ Directed(e) => taker = e.directedTaker
  /\ taker # e.maker
  /\ ~ ExpiredForCurrentStage(e)
  /\ e.status \in {OPEN, ACCEPTED, FUNDED_MAKER}
  /\ e.taker \in {NoOne, taker}
  /\ Amend(id, [e EXCEPT !.taker = taker,
                         !.status = IF @ = OPEN THEN ACCEPTED ELSE @])
  /\ UNCHANGED <<config, index, fees, now, balance, ledger>>

\* Mutant: a funded escrow can be cancelled as well.
CancelWhileUnmatched(caller, id) ==
  LET e == escrows[id] IN
  /\ caller = e.maker
  /\ e.status \in {OPEN, ACCEPTED, FUNDED_MAKER}
  /\ Amend(id, [e EXCEPT !.status = CANCELLED])
  /\ UNCHANGED <<config, index, fees, now, balance, ledger>>

\* No expiry check: an expired escrow can still be cancelled.
CancelBeforeFunding(caller, id) ==
  LET e == escrows[id] IN
  /\ caller = e.maker
  /\ e.status \in {OPEN, ACCEPTED}
  /\ ~ e.makerFunded /\ ~ e.takerFunded
  /\ Amend(id, [e EXCEPT !.status = CANCELLED])
  /\ UNCHANGED <<config, index, fees, now, balance, ledger>>

-----------------------------------------------------------------------------
(* Funding *)

FundMaker(caller, id, acts) ==
  LET e == escrows[id] IN
  /\ e.status \in {OPEN, ACCEPTED}
  /\ ~ ExpiredForCurrentStage(e)
  /\ ~ e.makerFunded
  /\ caller = e.maker
  /\ Exactly(acts, e.makerToken, e.makerAmount)
  /\ now + expiry.fundedSecs <= MaxTime
  /\ Amend(id, [e EXCEPT !.makerFunded = TRUE,
                         !.status = FUNDED_MAKER,
                         !.makerFundedExpiry = now + expiry.fundedSecs])
  /\ Credit(acts)
  /\ Book(id, caller, e.makerToken, - e.makerAmount)
  /\ UNCHANGED <<config, index, fees, now>>

\* Mutant: a late taker deposit is taken.
FundTakerLate(caller, id, acts) ==
  LET e == escrows[id] IN
  /\ e.status = FUNDED_MAKER
  /\ ~ e.takerFunded
  /\ Directed(e) => caller = e.directedTaker
  /\ caller = e.taker
  /\ Exactly(acts, e.takerToken, e.takerAmount)
  /\ Amend(id, [e EXCEPT !.takerFunded = TRUE, !.status = FUNDED_BOTH])
  /\ Credit(acts)
  /\ Book(id, caller, e.takerToken, - e.takerAmount)
  /\ UNCHANGED <<config, index, fees, now>>

FundTaker(caller, id, acts) ==
  LET e == escrows[id] IN
  /\ e.status = FUNDED_MAKER
  /\ ~ ExpiredForCurrentStage(e)
  /\ ~ e.takerFunded
  /\ Directed(e) => caller = e.directedTaker
  /\ caller = e.taker
  /\ Exactly(acts, e.takerToken, e.takerAmount)
  /\ Amend(id, [e EXCEPT !.takerFunded = TRUE, !.status = FUNDED_BOTH])
  /\ Credit(acts)
  /\ Book(id, caller, e.takerToken, - e.takerAmount)
  /\ UNCHANGED <<config, index, fees, now>>

-----------------------------------------------------------------------------
(* withdraw: the fee recipient's path comes first and shadows the others *)

\* Mutant: the accrued fee survives its payment.
WithdrawFeesAgain(caller, acts) ==
  /\ caller = feeRecipient
  /\ \E t \in Tokens : fees[t] > 0 /\ Exactly(acts, t, fees[t])
  /\ Debit(acts)
  /\ UNCHANGED <<config, index, escrows, statusCount, fees, now, ledger>>

\* All of the accrued fee of one token, whatever escrow id the call names.
WithdrawFees(caller, acts) ==
  /\ caller = feeRecipient
  /\ \E t \in Tokens :
       /\ fees[t] > 0
       /\ Exactly(acts, t, fees[t])
       /\ fees' = [fees EXCEPT ![t] = 0]
  /\ Debit(acts)
  /\ UNCHANGED <<config, index, escrows, statusCount, now, ledger>>

\* Mutant: one withdrawal closes the escrow.
FinalizedEarly(e) ==
  IF e.makerWithdrawn \/ e.takerWithdrawn THEN [e EXCEPT !.status = EXECUTED] ELSE e

\* _maybe_finalize_status
Finalized(e) ==
  IF e.makerWithdrawn /\ e.takerWithdrawn THEN [e EXCEPT !.status = EXECUTED] ELSE e

\* Mutant: the maker's withdrawal forgets to finalize the escrow.
WithdrawMakerUnfinished(caller, id, acts) ==
  LET e == escrows[id]
      fee == CeilFee(e.takerAmount) IN
  /\ caller # feeRecipient
  /\ e.status = FUNDED_BOTH
  /\ caller = e.maker
  /\ ~ e.makerWithdrawn
  /\ Exactly(acts, e.takerToken, e.takerAmount - fee)
  /\ Amend(id, [e EXCEPT !.makerWithdrawn = TRUE])
  /\ fees' = [fees EXCEPT ![e.takerToken] = @ + fee]
  /\ Debit(acts)
  /\ Book(id, caller, e.takerToken, e.takerAmount - fee)
  /\ UNCHANGED <<config, index, now>>

\* The fee is what the rate of the moment makes of it.
WithdrawMaker(caller, id, acts) ==
  LET e == escrows[id]
      fee == CeilFee(e.takerAmount) IN
  /\ caller # feeRecipient
  /\ e.status = FUNDED_BOTH
  /\ caller = e.maker
  /\ ~ e.makerWithdrawn
  /\ e.takerAmount - fee >= 0
  /\ Exactly(acts, e.takerToken, e.takerAmount - fee)
  /\ Amend(id, Finalized([e EXCEPT !.makerWithdrawn = TRUE]))
  /\ fees' = [fees EXCEPT ![e.takerToken] = @ + fee]
  /\ Debit(acts)
  /\ Book(id, caller, e.takerToken, e.takerAmount - fee)
  /\ UNCHANGED <<config, index, now>>

WithdrawTaker(caller, id, acts) ==
  LET e == escrows[id]
      fee == CeilFee(e.makerAmount) IN
  /\ caller # feeRecipient
  /\ e.status = FUNDED_BOTH
  /\ caller # e.maker
  /\ caller = e.taker
  /\ ~ e.takerWithdrawn
  /\ e.makerAmount - fee >= 0
  /\ Exactly(acts, e.makerToken, e.makerAmount - fee)
  /\ Amend(id, Finalized([e EXCEPT !.takerWithdrawn = TRUE]))
  /\ fees' = [fees EXCEPT ![e.makerToken] = @ + fee]
  /\ Debit(acts)
  /\ Book(id, caller, e.makerToken, e.makerAmount - fee)
  /\ UNCHANGED <<config, index, now>>

-----------------------------------------------------------------------------
(* refund *)

\* The status closes once every funded side has been refunded.
RefundClosed(e) ==
  IF (~ e.makerFunded \/ e.makerRefunded) /\ (~ e.takerFunded \/ e.takerRefunded)
  THEN [e EXCEPT !.status = REFUNDED] ELSE e

\* Mutant: the refund does not wait for the expiry.
RefundEarly(caller, id, acts) ==
  LET e == escrows[id] IN
  /\ e.status \notin Closed
  /\ caller = e.maker
  /\ e.makerFunded /\ ~ e.makerRefunded /\ ~ e.makerWithdrawn
  /\ Exactly(acts, e.makerToken, e.makerAmount)
  /\ Amend(id, RefundClosed([e EXCEPT !.makerRefunded = TRUE]))
  /\ Debit(acts)
  /\ Book(id, caller, e.makerToken, e.makerAmount)
  /\ UNCHANGED <<config, index, fees, now>>

\* Each side takes its own deposit back, free of any fee.
Refund(caller, id, acts) ==
  LET e == escrows[id]
      asMaker == caller = e.maker
      token == IF asMaker THEN e.makerToken ELSE e.takerToken
      amount == IF asMaker THEN e.makerAmount ELSE e.takerAmount
      refunded == IF asMaker THEN [e EXCEPT !.makerRefunded = TRUE]
                  ELSE [e EXCEPT !.takerRefunded = TRUE] IN
  /\ e.status \notin Closed
  /\ ExpiredForCurrentStage(e)
  /\ \/ asMaker /\ e.makerFunded /\ ~ e.makerRefunded /\ ~ e.makerWithdrawn
     \/ /\ ~ asMaker /\ caller = e.taker
        /\ e.takerFunded /\ ~ e.takerRefunded /\ ~ e.takerWithdrawn
  /\ Exactly(acts, token, amount)
  /\ Amend(id, RefundClosed(refunded))
  /\ Debit(acts)
  /\ Book(id, caller, token, amount)
  /\ UNCHANGED <<config, index, fees, now>>

-----------------------------------------------------------------------------
(* get_escrow_ids_page: a page of ids and the cursor of the next one, 0 when *)
(* there is none. *)

\* Mutant: the next page starts one entry late.
EscrowIdsPageSkip(cursor, limit) ==
  LET total == Len(escrowIds)
      end == IF cursor + limit > total THEN total ELSE cursor + limit IN
  [ids |-> SubSeq(escrowIds, cursor + 1, end),
   nextCursor |-> IF end + 1 >= total THEN 0 ELSE end + 1]

EscrowIdsPage(cursor, limit) ==
  LET total == Len(escrowIds)
      end == IF cursor + limit > total THEN total ELSE cursor + limit IN
  IF cursor >= total THEN [ids |-> << >>, nextCursor |-> 0]
  ELSE [ids |-> SubSeq(escrowIds, cursor + 1, end),
        nextCursor |-> IF end >= total THEN 0 ELSE end]

-----------------------------------------------------------------------------
Withdraw(caller, id, acts) ==
  \/ WithdrawFees(caller, acts)
  \/ id \in Ids /\ WithdrawMaker(caller, id, acts)
  \/ id \in Ids /\ WithdrawTaker(caller, id, acts)

Next ==
  \/ Tick
  \/ \E caller, recipient \in Addresses, bps \in FeeRates : SetFeeConfig(caller, recipient, bps)
  \/ \E caller \in Addresses, c \in ExpiryConfigs : SetExpiryConfig(caller, c)
  \/ \E maker \in Addresses, terms \in Terms, ts \in ExpiryInputs : OpenEscrow(maker, terms, ts)
  \/ \E maker, taker \in Addresses, terms \in Terms, ts \in ExpiryInputs :
       OpenEscrowDirected(maker, terms, ts, taker)
  \/ \E caller, taker \in Addresses, id \in Ids : SetDirectedTaker(caller, id, taker)
  \/ \E caller \in Addresses, id \in Ids : AcceptEscrow(caller, id)
  \/ \E caller \in Addresses, id \in Ids : CancelBeforeFunding(caller, id)
  \/ \E caller \in Addresses, id \in Ids, acts \in Attachments : FundMaker(caller, id, acts)
  \/ \E caller \in Addresses, id \in Ids, acts \in Attachments : FundTaker(caller, id, acts)
  \/ \E caller \in Addresses, id \in 0 .. MaxEscrows, acts \in Attachments :
       Withdraw(caller, id, acts)
  \/ \E caller \in Addresses, id \in Ids, acts \in Attachments : Refund(caller, id, acts)

Spec == Init /\ [][Next]_vars

\* Time passes, and who can take money out of an escrow eventually does.
AllIds == 0 .. (MaxEscrows - 1)
MakerWithdraws(id) ==
  id \in Ids /\ \E acts \in Attachments : WithdrawMaker(escrows[id].maker, id, acts)
TakerWithdraws(id) ==
  id \in Ids /\ \E acts \in Attachments : WithdrawTaker(escrows[id].taker, id, acts)
MakerRefunds(id) ==
  id \in Ids /\ \E acts \in Attachments : Refund(escrows[id].maker, id, acts)

Fairness ==
  /\ WF_vars(Tick)
  /\ \A id \in AllIds : /\ WF_vars(MakerWithdraws(id))
                        /\ WF_vars(TakerWithdraws(id))
                        /\ WF_vars(MakerRefunds(id))

FairSpec == Spec /\ Fairness

=============================================================================
