# A verification of the community blueprints

This directory models the nano-contract blueprints of this repository in TLA+,
checks the models with TLC and proves their main theorems with TLAPS.  Every
blueprint is a Python class whose public methods run as transactions; what can
go wrong is not a race inside a method but a sequence of calls, by people who do
not trust each other, in an order nobody wrote a test for.

`PROJECT.json` is the index: the components, the runs, for each property a
mutation of the code that breaks it, the source lines of each definition, the
findings, the hazards and the theorems.

## 1. Inventory

### The platform (external)

Not in this repository; the models use what the code relies on.  A public method
runs to its end or, when it raises or an assertion fails, changes nothing: so
**one action is one call, and a raise is a guard**.  The caller attaches deposits
and withdrawals of tokens (`ctx.actions`); after a successful call the platform
adds them to the contract's balances.  Calls of the same block share one
timestamp, and timestamps grow from block to block.  The platform refuses to
overdraw a balance.  The models let the balance go below zero instead, so that
their solvency invariants show that the refusal is never needed.

### The blueprints

| Blueprint | State | Operations | Hard behaviours | Correct when |
|---|---|---|---|---|
| **OtcEscrowSwap** (`otc_escrow_swap.py`) | escrow records by id, with terms, taker, status, money flags and deadlines; counters; fees per token; fee and expiry configuration | open (public, directed), retarget, accept, cancel, fund by maker and by taker, withdraw (parties, fee recipient), refund, set the configurations, page through the ids | two takers race; a deposit races an expiry and a refund; the fee rate changes between two withdrawals; one balance for all escrows and fees | the swap is atomic, the balance covers all escrows and fees, the taker is entitled, money does not stay locked |
| **Lottery** (`lottery.py`) | price, commission, participants, pot, two payouts | buy a ticket, draw, claim in parts | the creator disappears, draws twice, or wins himself | everybody gets their due exactly once, and the pot is drawn |
| **Polls** (`poll.py`) | polls, parallel lists of votes with an index, tallies, creation fees | create, vote by deposit, take the deposit back in parts, take fees | polls share tokens; a vote and a withdrawal at the instant a poll ends; an index into lists that grow | tallies equal a recount, deposits are covered, a result is backed by locked deposits |
| **ThothNamer** (`thoth_namer.py`) | records by name, name list and primary name by manager, fees, custody of NFTs | register, renew, change owner or manager, deposit and withdraw the NFT, set primary name, settings, withdraw fees | expiry and grace boundaries, NFTs traded outside, a name registered anew while in another's list | a paid term is kept, lists and records agree, ownership follows the NFT |
| **DozerPoolManager** (`dozer_pool_manager.py`; `..._cleaned.py` is the same contract without comments) | pools by two tokens and a fee, with reserves, shares, change (cashback), window sums of prices; owner, signers, reservations, pause | create, add and remove liquidity in two tokens or in one, swaps in both forms, routes of up to three hops, cashback, protocol fee, windows, signing, pausing, ownership | integer roundings in every formula; three books (reserves, change, shares) of the same tokens; a price that must ignore its own block; stale amounts along a route | books and balances agree, nobody gains by rounding, K does not fall, the average price is the blocks' |
| **Oasis** (`oasis.py`) | liquidity and deposits by user, balances of two tokens, closed positions, timelocks, rates and fees; calls a Dozer pool | deposit, close, withdraw both or one token, bonus, owner deposit and withdraw, dev fees, configuration | HTR of the vault, the users and closed positions in one balance; the price moves between deposit and close; the vault is taken away meanwhile; rounding of shares and locks | each of the books is covered, everybody can still leave, no timelock is shortened, closed balances are not overwritten |
| **KhensuManager** (`khensu_manager.py`) | bonding curves by token, a list of recently used tokens, user balances, fees; creates Dozer pools | register, buy, sell, migrate, withdraw, set fees, curve parameters and capacity | the buy that fills the curve migrates in the same call; a doubly linked list with pointers and a capacity; rounding on the curve; rates that change | curves are covered, the filling buy can pay for the migration, quotes are honoured, the list is the recency list |
| **Pxiel** (`pxiel.py`) | colours by pixel, list of keys, fees | paint, withdraw fees, page | none beyond a sequence of calls | the list names each painted pixel once |

### Interactions

Oasis calls `add_liquidity`, `remove_liquidity` and the quotes of a Dozer pool;
Khensu creates Dozer pools and moves liquidity into them.  The other blueprints
meet only through the platform's balances.  In `Oasis` the pool is a pair of
reserves with a total and a change that anybody else trades in between two calls,
computed with the operators of `DozerMath`; in `Khensu` Dozer is what the code
sees of it: whether a pool of the pair and fee exists already, and whether the
contract may create one.

## 2. Modules

| Module | What it is |
|---|---|
| `AtomicSwap` | what one escrow promises: the life of its two legs |
| `OtcEscrow` | the contract: one action per method, fairness |
| `OtcEscrowProperties` | invariants, action properties, refinement, liveness |
| `OtcEscrowProofs`, `SumTheorems` | proofs; sums over finite sets |
| `Lottery`, `LotteryProofs` | contract with properties; proofs |
| `Poll`, `PollProofs` | contract with properties; proofs |
| `Thoth`, `ThothProofs` | contract with properties; proofs |
| `DozerMath` | the integer arithmetic of a pool |
| `Dozer`, `DozerProofs` | contract with properties; proofs |
| `BondingCurve` | the integer arithmetic of Khensu's curve: virtual pool, fee, purchase, sale, graduation |
| `RecencyList` | what the list of recently used tokens promises: a sequence, and two steps |
| `PointerList` | that list as the code keeps it: head, tail, previous and next by token |
| `Khensu`, `KhensuProofs` | contract with properties and the refinement of `RecencyList`; proofs |
| `Oasis`, `OasisProofs` | contract with properties; proofs |
| `MC...` | small instances for TLC |

### How state and actions correspond to the code

* **Names.**  An action has the name of its method; constants keep theirs.
  Variables are the fields; dictionaries keyed by the same id are one record per
  id.  Variables marked *history* are not in the code and no action reads them.
* **Atomicity.**  An action is the whole method with every helper it calls: in
  `OtcEscrow`, `Amend` writes the record and recounts the status as `_set_status`
  does; in `Dozer`, every swap and liquidity action updates the average price
  first (`WithTwap`), credits the owner's liquidity (`Exchanged`) and books the
  change (`WithChange`).
* **Actors.**  The caller is any address.  Guards on the caller come from the
  code alone, so an owner may also be a party, a taker or a provider.
* **Amounts** of a transaction are quantified over a constant set independently
  of what the method expects, except where the method's check fixes them: then
  the model computes the only amount that passes, plus or minus a *slack* the
  caller pays too much or leaves (`Dozer`).
* **Literals** of Dozer (1000, 10^20, 10^3, 10^8) are constants, as TLC's integers
  have 32 bits; the proofs hold for any values.
* **Mutants** stand before the definition they alter, named for the slip
  (`WithChangeUnbooked`), and are used by no specification.

Particular abstractions, each named at the head of its module: `Lottery` has HTR
only; `Poll` joins several actions on a token into their total, as `_sum_actions`
does; `Thoth` treats a name as a model value of a length class; `Dozer` drops the
deadline parameter (a late call is one that is not made) and treats the assertion
on K as a guard, which it is for the caller; `Khensu` joins the attributes of a
token that only views read, and a created token's uid is any unused one; `Oasis`
keeps no entry prices, and its months are one unit of time.

## 3. What TLC checks

| Run | Question | Properties | Instance |
|---|---|---|---|
| `otc_one` | one escrow under all terms, deadlines, rates and callers | `StatusMatchesMoney`, `TakerIsEntitled`, `FairExchange`, `ExpiredOnlyCloses`, `SwapsAreAtomic` (refinement of `AtomicSwap`) | one escrow, two tokens, three addresses, amounts up to 2, time up to 4 |
| `otc_two` | two escrows on one balance: covered, counted, paged | `Solvency`, `CountersAgree`, `PagesListEveryEscrow` | two escrows, time up to 2 |
| `otc_live` | lone deposits end, funded swaps settle | `LoneDepositEnds`, `FundedSwapSettles` | as one escrow, under fairness, without symmetry |
| `otc_fee_party` | **violated**: a swap with the fee recipient as a party settles | `PartiesAlwaysSettle` | as `otc_live` |
| `lottery` | the balance is what can be claimed, everybody gets their due once, the pot is paid out | `Conservation`, `EverybodyGetsTheirDue`, `PotIsPaidOut` | three addresses, two tickets, commissions 0, 30, 100 |
| `poll` | tallies are a recount, deposits are covered, a result stays backed | `ResultsRecount`, `DepositsAreCovered`, `ResultIsBacked` | two polls, two tokens, two votes |
| `thoth` | lists and records, custody, paid terms, ownership | `ListsMatchRecords`, `CustodyMatchesRecords`, `PaidTermIsKept`, `OwnerFollowsNft` | two names, two addresses, three mints |
| `thoth_views` | **violated**: two views agree on availability | `ShownAvailableIsAvailable` | one name |
| `dozer_pool` | one pool: books, shares, average price, value of a share | `TypeOK`, `Solvency`, `SharesAddUp`, `TwapIgnoresTheBlock`, `SharesKeepTheirValue` | four calls, up to two block changes |
| `dozer_routes` | three pools: books along routes, swaps on their curve, signers | `Solvency`, `OwnerCanSign`, `SwapsStayOnCurve` | four calls after the three creations |
| `khensu` | tokens bought, sold, graduated and listed while fees, curves and capacities change | `TypeOK`, `Solvency`, `PoolFollowsCurve`, `GraduationIsFunded`, `QuoteIsHonoured`, `ListIsRecencyList` (refinement of `RecencyList`) | up to three tokens, two users, five calls; 0.28 million states |
| `oasis` | positions opened, locked, closed and withdrawn while the price moves and the vault's HTR is taken away | `TypeOK`, `Solvency`, `EveryoneCanClose`, `LockIsKept`, `ClosedIsKept`, `OthersKeepTheirShare` | two users and the developer, four calls; 1.06 million states |

**Bounds and why they are enough.**

* *Escrow.*  An escrow's life has five stages; each call names one escrow, so one
  escrow with every configuration shows what terms, rates and deadlines do, and
  two show what sharing does (the balance, the fees, the counters, the cursor).
  Three addresses allow maker, taker and owner or fee recipient to be different or
  the same.  Amount 1 is the case in which the rounded-up fee is the whole amount;
  a rate of 201 and an invalid expiry configuration try the checks.  Four units of
  time let both stage deadlines pass in either order.
* *Lottery.*  Two tickets allow the creator and another to play, the same buyer
  twice, and every winner.  Deposits above the price, commissions that do not
  divide and claims of every size from 1 to the whole.
* *Polls.*  A poll on HTR beside one on another token, or two on the same; time
  passes the beginning, the end and an instant after it.
* *Thoth.*  Three mints over two names: a name registered anew while the other
  stays.  Years and days are one unit, so that expiry, grace and now coincide in
  every combination.
* *Dozer.*  Reserves of 300 and 4000 with a fee of 1 % leave every rounding
  inexact and put one reserve in each of two tolerance tiers; of the two amounts
  one stays below the 5 % price impact of a single-token deposit and one is
  refused for it; single-token deposits are tried up to a
  reserve of 400 (`MaxSingle`) as the integer square root of larger ones passes 32
  bits.  Four calls are a creation and three more: provide, swap, remove and cash
  in.  The two updates of a window need two block changes.  Blocks are one or two
  seconds apart with a window of two: shorter and not shorter than the window.
  Routes: two pools on the same pair and a third, so that there are one-, two- and
  three-hop paths, one that meets a pool twice, one too long, and unsigned ones.
  `RouteInit` is the state after three creations; a fifth key stays to be created.

* *Khensu.*  Two users, one of them the creator, and three tokens, as the shortest
  list with a middle.  With 10 basis points a rate of 1 is a fee of 10 %, so that
  rounding up shows on the amounts 2 and 9.  The curves are one of twenty units
  for six HTR, one of nine units for less than three, where rounding decides, and one
  that the parameter check refuses.  Capacities 1 and 2 are below the number of tokens, so
  that eviction and shrinking happen; a second initial state (`ListInit`) starts
  with three registered tokens in a list of capacity 2 or 3.  Slack 0 and 1 is the difference
  between what the caller attaches and what the quote names.  Five calls are
  register, buy, change a rate, fill the curve, and use the token afterwards.
* *Oasis.*  The pool holds 500 HTR and 300 of the token, fee 5/1000; deposits of 11
  and 20 are small against it and leave every quotient inexact; 500 is a swap that
  moves the price to less than half or more than double, so that the cover is due
  on closing; an average price of 66 tenths is that after such a swap of HTR, so the
  cover reaches its cap.  Withdrawals take 2 or everything, in one token or both.  A
  step of 9 passes the locks of 6 and 9 months and not that of 12.  Four calls after the developer funds the vault are
  deposit, swap, close and withdraw, or two deposits of one user and what comes
  after them.

`CHECK_DEADLOCK FALSE` stands where a system stops: a closed lottery at the time
bound, polls and names at their bounds, Dozer, Khensu and Oasis at their number of
calls.

**Fairness.**  Only `OtcEscrow` and `Lottery` have liveness properties.  Both assume
weak fairness of time, and of the people who can take *their own* money out: maker
and taker withdrawing, the maker refunding, winner and creator claiming.  It is
the interest the contract is built on; weak fairness is enough as such a call,
once possible, stays possible until made or until the money moved otherwise.
`Lottery` also assumes that some participant draws once allowed.  No fairness is
assumed of the owner, of accepting or funding, or of a lottery's creator drawing:
those people may disappear.  `FundedSwapSettles` has the premise that from then on
neither party is the fee recipient, and `otc_fee_party` shows it is needed.

**Findings.**  Two places where code and documentation disagree:

* `withdraw()` serves the fee recipient's fee claim first and returns or raises
  there.  A party who is the fee recipient, or is made it by the owner, cannot
  take the settlement, and a fully funded escrow neither expires nor can be
  refunded (`otc_fee_party`).
* At the instant a grace period ends, `get_name_expiration_info` says `available`
  while `is_name_available` and registration refuse (`thoth_views`).

Observations that are no findings, as no line of the repository says otherwise:

* `Poll`: withdrawing methods look at one token and ignore the transaction's
  others; `DepositsAreCovered` is therefore stated for histories in which callers
  withdraw only the token in question (variable `foreign`).
* `Dozer`: the tolerance of the ratio check (0.5 %) is finer than one unit where
  fewer than 200 units remain, so a legitimate removal can be refused there; another
  amount passes.  For the same reason a position of Oasis in a very small pool can be
  refused its close; `EveryoneCanClose` is about everything else the close needs.
* `Khensu`: a curve with a market cap or supply below 5 passes the parameter check,
  yet its graduation would bring no liquidity and is refused, so the buy that fills
  it always fails.  Graduation is also refused while the contract is not a signer
  that Dozer authorised, as `test_migration` knows.  Quotes of a graduated token ask
  for the pool of the current default fee instead of the fee its pool was made with.
* `Oasis`: the change (cashback) of a deposit is counted as liquidity, which dilutes
  the others; the slack of `OthersKeepTheirShare`, one unit of HTR and the worth of
  one unit of the token or of the pool's liquidity, whichever is dearer, covers it.  The docstring of `update_protocol_fee` gives
  "500 = 0.5 %" while the code divides by thousands.  `dev_deposit_amount` may
  become negative.  In `close_position` the change is always zero.
* `Thoth`: `max_total_profile_size` is set and shown, and no method enforces it.

## 4. What is proved

For all values of the constants, under the named `ASSUME`s of the modules
(addresses and tokens are sets, amounts and rates are numbers, and the like):

* **Escrow** (`OtcEscrowProofs`).  `TypeCorrect`, `StatusAlwaysMatchesMoney`,
  `TakerAlwaysEntitled`, `TakerNeverReplaced`, `ExpiredIsOnlyClosed`,
  `SwapsImplementAtomicSwap`, `AlwaysSolvent`, `CountersAlwaysAgree`,
  `ExchangeAlwaysFair` and `PagesAlwaysComplete`, for any number of escrows.
  Solvency alone is not inductive: that a withdrawal reduces the custody by what
  it pays out needs the other leg's flags, which the status implies.  So the
  invariant is `TypeOK /\ StatusMatchesMoney /\ TakerIsEntitled /\ Solvency`.  The
  argument: `EscrowSteps` lists once how any action may change one record
  (`Moves`); the action properties and the refinement follow from it by cases.
  Custody is a sum over escrows; `SumTheorems` proves from the definition of the
  library's fold that changing one entry changes the sum by the difference
  (`SumUpdate`) and that a new entry adds its value (`SumAdd`).  The counters are the
  cardinalities of the sets of escrows by status, of which a step moves one escrow
  from one set to another.  For the exchange the invariant says what each party
  received at every stage (`ReceiptsAreFair`), with fees that only grow.  The ids are
  always the numbers from 0 in order, so a page is a segment of them; that the pages
  from a cursor make up the rest of the list is shown without induction over the
  cursor, by taking the greatest cursor from which they would not.
* **Lottery** (`LotteryProofs`).  `LotteryTypes`, `LotteryConserves`,
  `LotteryPaysTheDue`, for any number of participants and claims.  The invariant is
  types, conservation, that a payout is set only when closed, and that everybody's
  receipts and open claims make their due; the creator who wins is charged on two
  payouts, which lemma `ClaimFits` separates.
* **Polls** (`PollProofs`).  `PollTypes`, `PollRecounts`, `PollCovered` and
  `PollBacked`, for any number of polls, votes and tokens.  The invariant is
  `TypeOK /\ IndexFits /\ ResultsRecount /\ DepositsAreCovered`: a tally is the
  recount only as long as the index of a voter names that voter's entry in the
  parallel lists, so `IndexFits` must be carried along.
* **Names** (`ThothProofs`).  `ThothTypes`, `ListsAlwaysMatch`, `CustodyAlwaysMatches`,
  `TermsAreKept` and `OwnersFollowNfts`, for any names and addresses.  The invariant is
  types, lists and custody; a registration anew takes the name out of the former
  manager's list and puts it into the new one, which lemmas about removing from and
  appending to a list without repetition turn into set operations.
* **Dozer** (`DozerProofs`), for any pools, reserves, amounts, fees and users.
  *The arithmetic:* an exact-input swap pays the most its input admits and not one
  unit more (`AmountOutIsOnCurve`), the rounded-up input of an exact-output swap is
  enough and one unit less is not (`AmountInIsOnCurve`), a swap that fits its curve
  does not lower K (`FittingKeepsK`), so that the assertion after it never fires, and
  `_isqrt` is the root rounded down of every number (`IsqrtIsRoot`), from either of
  its first guesses (`NewtonFindsRoot`).  A deposit in one token swaps at most half of
  it, so the `InvalidState` after `_calculate_optimal_swap_amount` is unreachable, and
  its change is only in the deposited token (`SingleTokenChange`).  The ratio check
  admits every addition and removal in proportion that leaves 200 units of each token
  (`ProportionIsAdmitted`): only pools below that can refuse a rounded amount.  What
  the owner is minted for a protocol fee is at most half of what the fee is of its
  reserve, as a part of the root of K, plus one unit of that root
  (`OwnerMintIsBounded`), also when the fee was rounded up to 1.
  *The contract:* `DozerTypes`, `DozerSolvent`, `SharesAlwaysAddUp`,
  `SharesAlwaysKeepTheirValue`, `SwapsAlwaysStayOnCurve`,
  `TwapAlwaysIgnoresTheBlock` and `OwnerCanAlwaysSign`.  The invariant is `IInv`:
  every pool is well typed and its totals are the sums of its users' entries
  (`TableInv`), the balances are what the pools book (`MoneyInv`), and the
  administrative record has its fields (`AdminTypes`).  Solvency needs the table: that
  a withdrawal is covered follows from the user's entry being part of the total.
  Each helper of the model has a lemma that says what it leaves of a pool (`After...`),
  each method a lemma that composes them, and `MoneyStep` turns the change of one
  pool's books into that of the sum over all pools.  A route is a function over its
  hops; it is unrolled for the one, two or three hops the code admits, with what holds
  between two hops (`Carried`) and what the hops so far did to each pool (`Traced`):
  as no pool is met twice, the reserves that an exact-output route was priced by are
  those it is applied to.  The average price has an invariant of its own (`TwapInv`):
  it is within what was seen, and so is the current price unless the pool was already
  brought to this block; every call either does that first or leaves the reserves
  (`Aged`), and the update is an average with weights that add up to the window.
* **Khensu** (`KhensuProofs`).  `KhensuTypes`, `KhensuSolvent`, `PoolOnCurve`,
  `GraduationFunded`, `QuotesHonoured`, `SellersArePaid` (whoever holds tokens can
  sell all of them: the curve has the HTR) and `ListImplementsRecencyList`, for any
  curves, rates and number of tokens.  The invariant is `TypeOK /\ CurveInv /\ FreshInv /\ Solvency`: the balance
  covers the curves only if each curve holds what its supply says, and a token's
  curve only moves by what the balance moves.  `CurveInv` rests on lemmas of integer
  division: a purchase rounds up and a sale down on the same virtual product.
  The refinement of the list relates the entries to the sequence they stand for
  (`Represents`: neighbours point at each other, head and tail at the ends, nothing
  twice); under it each helper of `PointerList` is one operation on the sequence, and
  walking the links gives that sequence back.
* **Oasis** (`OasisProofs`).  `OasisTypes`, `OasisSolvent`, `EveryoneCanCloseAlways`,
  `LocksAreKept`, `ClosedIsNeverLost`, `OthersShareIsKept` and `ClosingIsAdmitted`, for
  any users, rates and reserves.  The
  invariant is `TypeOK /\ Solvency /\ Ledger /\ SomebodyElse`.  `Ledger` says that an
  entry that is overwritten is closed and empty.  `SomebodyElse` says that part of
  the pool belongs to others than the vault, so that a close never empties a
  reserve; from it follows that a share of the vault is at most what the vault can
  take out, by the rounding lemmas of `DozerMath`'s quotients.  That a deposit or a
  close leaves the others their share compares three quotients that are rounded
  apart: the liquidity the pool mints, the vault's own liquidity for it, and the share
  shown.  Each loses at most one unit, and the unit of liquidity that a close burns
  too much is worth `CeilDiv(htr, liquidity)` of HTR; the bound is therefore 1 and the
  dearer of a unit of token_b and a unit of liquidity (`Grain`).  With the worth of
  token_b alone the proof does not go through and the statement is false, in pools
  whose liquidity is small beside their HTR.  `ClosingIsAdmitted` says that the pool's
  ratio check lets every close pass that leaves 200 units of each token.

**Only model-checked.**  Liveness under fairness, for which the prover has no
support: `LoneDepositEnds` and `FundedSwapSettles` of the escrow and `PotIsPaidOut`
of the lottery.  Every other property of a passing run is a theorem.  What a recursive
function computes for every input is an induction over data, out of reach of the
installed provers; the ones that the theorems need are proved without it: a route has
at most three hops, and for Newton's method, the pages of the escrow and the walk
along a list, a least number where the claim fails leads to a contradiction, in
first-order steps.  All theorems
are about the models; that the models are the code's is what `map` is for.

## 5. Not modelled

* Pxiel: one dictionary, one list of its keys and one fee counter, changed by one
  method each.
* Of Thoth: profile data and its limits, the resolving address, `upgrade_contract`.
  They touch neither money nor ownership, and beside the names they multiply the
  states of the run.  Whether a name registered anew shows its former manager's data
  rests on what the platform does when an empty dictionary is assigned over a stored
  one, which the code here does not tell.
* Of Khensu: names, symbols, descriptions and the search over them, the lists that
  only paging views read, the other views, `upgrade_contract`.
* Of Oasis: the entry prices of a position, which only views read, and
  `upgrade_contract`.
* Of Dozer: the reference pool for USD prices and the profits computed with it,
  volumes and transaction counters (only views read them), paged views, the search
  for the best path, `upgrade_contract`.  The protocol fee's rounding up to one unit
  is modelled; what one mint may dilute is bounded by a theorem (`OwnerMintIsBounded`)
  and by no property of a run.
* Of the escrow: views that return a record or a counter as stored.
* Everywhere: logging, formatting, encoding, icons and texts.

## 6. Plan

Done, in this order: escrow (abstract swap, contract, properties, proofs), lottery,
polls, names, Dozer; then Khensu with its list, Oasis, and the proofs about polls,
names, Khensu, Oasis and the whole of Dozer.  What would add most next:

1. A theorem that bounds the owner's mints over a sequence of swaps, where each is now
   bounded by itself.
2. Dozer's reference pool for USD prices and the profits of a provider, in a run of
   their own.
3. The composition of Oasis with Dozer's own pool record in place of the reserves
   others trade in.
4. A run about the tolerance of Dozer's ratio check against its docstring, and one
   about the quotes of graduated tokens of Khensu after a change of the default fee.
5. Thoth's profile data with the limits on them in a run of their own, and Pxiel.
