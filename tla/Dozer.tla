-------------------------------- MODULE Dozer --------------------------------
(***************************************************************************)
(* The Dozer exchange (blueprints/dozer-pool-manager): many constant-      *)
(* product pools in one contract.  A pool is known by its two tokens, in   *)
(* order, and its fee; its providers hold shares of it, the liquidity; a   *)
(* part of each swap fee is minted as liquidity to the owner; what a       *)
(* caller paid too much, or took too little of, is kept as the caller's    *)
(* change (the cashback).  A pool also keeps a windowed average price.     *)
(*                                                                         *)
(* One action is one call of a public method; a raise or a failed assert   *)
(* undoes the call, so it is a guard.                                      *)
(*                                                                         *)
(* External: the platform adds the deposits of a call to the contract's    *)
(* balances and subtracts its withdrawals, none of them zero; blocks carry *)
(* increasing timestamps and several calls share one block.                *)
(*                                                                         *)
(* Abstracted: PoolState and the containers keyed by pool are one record.  *)
(* Left out: what only views read (volumes, counters, accumulated fees,    *)
(* USD profits and their reference pool, registry lists, path finding),    *)
(* the deadline parameter (a late call is a call that is not made) and     *)
(* upgrade_contract.                                                       *)
(***************************************************************************)
EXTENDS DozerMath, Sequences, FiniteSets, FiniteSetsExt, Functions

CONSTANTS
  Addresses,
  Creator,          \* the address that creates the contract
  Tokens,           \* token ids, numbers because the code orders them; HTR is 0
  Keys,             \* the pools a caller may name: <<token_a, token_b, fee>>
  MaxFee,           \* 50: the highest pool fee
  DefaultWindow,    \* 14400
  FirstDeposits,    \* pairs of amounts a creator of a pool may deposit
  Amounts,          \* amounts a caller may deposit, ask for or take
  Slacks,           \* what a caller pays too much or leaves of what is due
  Percentages,      \* of the liquidity, in basis points, to remove
  ProtocolFees,     \* protocol fees an owner may try
  NewWindows,       \* windows an owner may try
  Paths,            \* sequences of keys a caller may try
  MaxSingle,        \* bound: the reserve up to which single-token deposits are tried
  Steps,            \* seconds between two blocks
  MaxTime,          \* bound: last block time
  MaxCalls          \* bound: number of calls

HTR == 0

ASSUME DozerAssumption ==
  /\ IsFiniteSet(Addresses) /\ Creator \in Addresses
  /\ IsFiniteSet(Tokens) /\ Tokens \subseteq Nat
  /\ \A k \in Keys : k \in Tokens \X Tokens \X Nat /\ k[1] < k[2]
  /\ MaxFee \in Nat /\ MaxFee < FeeDenominator /\ DefaultWindow \in Nat \ {0}
  /\ FirstDeposits \subseteq (Nat \ {0}) \X (Nat \ {0})
  /\ Amounts \subseteq Nat \ {0} /\ Slacks \subseteq Nat /\ Percentages \subseteq Int
  /\ ProtocolFees \subseteq Int /\ NewWindows \subseteq Int
  /\ \A path \in Paths : path \in Seq(Keys)
  /\ MaxSingle \in Nat /\ Steps \subseteq Nat \ {0}
  /\ MaxTime \in Nat /\ MaxCalls \in Nat

VARIABLES
  pools,      \* pools and the pool_* containers, by key
  admin,      \* owner, default_protocol_fee, paused, signers, reservations, ...
  held,       \* the platform's balances of the contract
  now,        \* timestamp of the current block
  burnt,      \* history: the liquidity burnt at creation, by pool
  donated,    \* history: what the owner replenished, by token
  seen,       \* history: lowest and highest price of a token at the end of a block
  method,     \* history: the kind of the last call
  calls       \* history: number of calls

vars == <<pools, admin, held, now, burnt, donated, seen, method, calls>>

-----------------------------------------------------------------------------
(* Keys and pools.                                                         *)

Existing == DOMAIN pools

TokensOf(k) == {k[1], k[2]}
Fee(k) == k[3]
Other(k, t) == IF t = k[1] THEN k[2] ELSE k[1]

K(k, p) == p.reserve[k[1]] * p.reserve[k[2]]

Price(k, p, t) == SpotPrice(p.reserve[t], p.reserve[Other(k, t)])

NotPaused(u) == admin.paused => u = admin.owner

\* Mutant: the block is not stamped, so that the next call updates again.
WithTwapUnstamped(k, p) ==
  [p EXCEPT !.windowSum = [t \in TokensOf(k) |->
                             WindowSum(@[t], Price(k, p, t), now - p.stamp, p.window)]]

\* _update_twap: before the reserves change, and once per block.
WithTwap(k, p) ==
  IF p.stamp = now THEN p
  ELSE [p EXCEPT
         !.windowSum = [t \in TokensOf(k) |->
                          WindowSum(@[t], Price(k, p, t), now - p.stamp, p.window)],
         !.stamp = now]

\* Mutant: the total is not updated.
WithChangeUnbooked(p, u, t, amount) == [p EXCEPT !.userChange[u][t] = @ + amount]

WithChange(p, u, t, amount) ==
  [p EXCEPT !.userChange[u][t] = @ + amount, !.change[t] = @ + amount]

\* Mutant: the total is not updated.
WithLiquidityUncounted(p, u, amount) == [p EXCEPT !.userLiquidity[u] = @ + amount]

WithLiquidity(p, u, amount) ==
  [p EXCEPT !.userLiquidity[u] = @ + amount, !.liquidity = @ + amount]

WithReserves(k, p, a, b) ==
  [p EXCEPT !.reserve = [t \in TokensOf(k) |-> IF t = k[1] THEN a ELSE b]]

\* The liquidity minted to the owner for a swap of in units of t.
ProtocolMint(k, p, t, in) ==
  LiquidityIncrease(ProtocolFee(SwapFee(in, Fee(k)), admin.protocolFee),
                    p.reserve[t], p.reserve[Other(k, t)])

\* _process_swap_fees, then the new reserves.
Exchanged(k, p, t, in, out) ==
  [WithLiquidity(p, admin.owner, ProtocolMint(k, p, t, in)) EXCEPT
     !.reserve = [x \in TokensOf(k) |-> IF x = t THEN p.reserve[x] + in ELSE p.reserve[x] - out]]

\* The output and the price impact of a swap in a pool.
OutOf(k, p, t, in) == AmountOut(in, p.reserve[t], p.reserve[Other(k, t)], Fee(k))
ImpactOf(k, p, t, in, out) == PriceImpact(in, out, p.reserve[t], p.reserve[Other(k, t)])

Moved(deposits, withdrawals) ==
  held' = [t \in Tokens |-> held[t] + (IF t \in DOMAIN deposits THEN deposits[t] ELSE 0)
                                    - (IF t \in DOMAIN withdrawals THEN withdrawals[t] ELSE 0)]

Of(t, amount) == [x \in {t} |-> amount]
Pair(k, a, b) == [t \in TokensOf(k) |-> IF t = k[1] THEN a ELSE b]
None == [t \in {} |-> 0]

Called(name) == calls < MaxCalls /\ calls' = calls + 1 /\ method' = name

-----------------------------------------------------------------------------
(* Creation and liquidity in both tokens.                                  *)

NewPool(k, u, a, b, window, time) ==
  LET root == Isqrt(a * b)
  IN  [reserve       |-> Pair(k, a, b),
       change        |-> Pair(k, 0, 0),
       liquidity     |-> root * Precision + root * MinimumLiquidity,
       userLiquidity |-> [x \in Addresses |-> IF x = u THEN root * Precision ELSE 0],
       userChange    |-> [x \in Addresses |-> Pair(k, 0, 0)],
       windowSum     |-> Pair(k, SpotPrice(a, b) * window, SpotPrice(b, a) * window),
       stamp         |-> time,
       window        |-> window]

FirstSeen(k, p) == [t \in TokensOf(k) |-> [lo |-> Price(k, p, t), hi |-> Price(k, p, t)]]

CreatePool(u, k, a, b) ==
  LET pool == NewPool(k, u, a, b, admin.defaultWindow, now)
  IN  /\ Called("create")
      /\ NotPaused(u)
      /\ \A t \in TokensOf(k) \cap DOMAIN admin.reserved : admin.reserved[t] = u
      /\ k \notin Existing /\ Fee(k) <= MaxFee
      /\ Isqrt(a * b) > 0
      /\ pools' = [x \in Existing \cup {k} |-> IF x = k THEN pool ELSE pools[x]]
      /\ burnt' = [x \in Existing \cup {k} |->
                     IF x = k THEN Isqrt(a * b) * MinimumLiquidity ELSE burnt[x]]
      /\ seen' = [x \in Existing \cup {k} |-> IF x = k THEN FirstSeen(k, pool) ELSE seen[x]]
      /\ Moved(Pair(k, a, b), None)
      /\ UNCHANGED <<admin, now, donated>>

AddLiquidity(u, k, a, b) ==
  LET p        == WithTwap(k, pools[k])
      ra       == p.reserve[k[1]]
      rb       == p.reserve[k[2]]
      optimalA == Quote(b, rb, ra)
      optimalB == Quote(a, ra, rb)
      usedA    == IF optimalB <= b THEN a ELSE optimalA
      usedB    == IF optimalB <= b THEN optimalB ELSE b
      changed  == WithChange(WithChange(p, u, k[1], a - usedA), u, k[2], b - usedB)
      minted   == (p.liquidity * usedA) \div ra
  IN  /\ Called("liquidity")
      /\ NotPaused(u) /\ k \in Existing
      /\ usedA <= a
      /\ PriceRatioKept(ra, rb, ra + usedA, rb + usedB)
      /\ pools' = [pools EXCEPT ![k] =
                     WithReserves(k, WithLiquidity(changed, u, minted), ra + usedA, rb + usedB)]
      /\ Moved(Pair(k, a, b), None)
      /\ UNCHANGED <<admin, now, burnt, donated, seen>>

\* Mutants: anybody's share is the whole pool; the liquidity is rounded down.
MaxWithdrawAll(k, p, u) == p.reserve[k[1]]
LiquidityDecreaseFloor(k, p, a) == (p.liquidity * a) \div p.reserve[k[1]]

\* What a provider may take of token_a, and the liquidity that costs.
MaxWithdraw(k, p, u) == (p.userLiquidity[u] * p.reserve[k[1]]) \div p.liquidity
LiquidityDecrease(k, p, a) == CeilDiv(p.liquidity * a, p.reserve[k[1]])

RemoveLiquidity(u, k, a, slack) ==
  LET p        == WithTwap(k, pools[k])
      ra       == p.reserve[k[1]]
      rb       == p.reserve[k[2]]
      optimalB == Quote(a, ra, rb)
      changed  == WithChange(p, u, k[2], slack)
  IN  /\ Called("liquidity")
      /\ NotPaused(u) /\ k \in Existing
      /\ p.userLiquidity[u] # 0
      /\ MaxWithdraw(k, p, u) >= a
      /\ optimalB - slack > 0
      /\ PriceRatioKept(ra, rb, ra - a, rb - optimalB)
      /\ pools' = [pools EXCEPT ![k] =
                     WithReserves(k, WithLiquidity(changed, u, -LiquidityDecrease(k, p, a)),
                                  ra - a, rb - optimalB)]
      /\ Moved(None, Pair(k, a, optimalB - slack))
      /\ UNCHANGED <<admin, now, burnt, donated, seen>>

-----------------------------------------------------------------------------
(* Liquidity in one token: half of it is swapped inside the call.          *)

\* _compute_add_liquidity_single_token: what is swapped, the pool after that, and
\* what of the rest and of the output then enters it in proportion.
AddSingleResult(k, p, t, amount) ==
  LET swapIn  == OptimalSwapAmount(amount, p.reserve[t], Fee(k))
      swapOut == OutOf(k, p, t, swapIn)
      swapped == IF swapIn = 0 THEN p ELSE Exchanged(k, p, t, swapIn, swapOut)
      ra      == swapped.reserve[k[1]]
      rb      == swapped.reserve[k[2]]
      a       == IF t = k[1] THEN amount - swapIn ELSE swapOut
      b       == IF t = k[1] THEN swapOut ELSE amount - swapIn
      byA     == Quote(a, ra, rb) <= b
      usedA   == IF byA THEN a ELSE Quote(b, rb, ra)
      usedB   == IF byA THEN Quote(a, ra, rb) ELSE b
  IN  [swapIn  |-> swapIn, swapOut |-> swapOut, swapped |-> swapped,
       usedA   |-> usedA, usedB |-> usedB, excessA |-> a - usedA, excessB |-> b - usedB,
       minted  |-> IF byA THEN (swapped.liquidity * usedA) \div ra
                          ELSE (swapped.liquidity * usedB) \div rb]

AddLiquiditySingleToken(u, k, t, amount) ==
  LET p       == WithTwap(k, pools[k])
      r       == AddSingleResult(k, p, t, amount)
      ra      == r.swapped.reserve[k[1]]
      rb      == r.swapped.reserve[k[2]]
      changed == WithChange(WithChange(r.swapped, u, k[1], r.excessA), u, k[2], r.excessB)
  IN  /\ Called("single")
      /\ NotPaused(u) /\ k \in Existing /\ t \in TokensOf(k)
      /\ pools[k].reserve[t] <= MaxSingle
      /\ r.swapIn <= amount
      /\ ra > 0 /\ rb > 0
      /\ ImpactOf(k, p, t, r.swapIn, r.swapOut) <= MaxPriceImpact
      /\ KNotDecreased(K(k, p), K(k, r.swapped))
      /\ PriceRatioKept(ra, rb, ra + r.usedA, rb + r.usedB)
      /\ pools' = [pools EXCEPT ![k] = WithReserves(k, WithLiquidity(changed, u, r.minted),
                                                   ra + r.usedA, rb + r.usedB)]
      /\ Moved(Of(t, amount), None)
      /\ UNCHANGED <<admin, now, burnt, donated, seen>>

\* _compute_remove_liquidity_single_token: the pool without the removed part,
\* then with its other half swapped for t.
RemoveSingleResult(k, p, u, t, removed) ==
  LET s       == Other(k, t)
      part    == [x \in TokensOf(k) |-> (p.reserve[x] * removed) \div p.liquidity]
      left    == WithReserves(k, WithLiquidity(p, u, -removed),
                              p.reserve[k[1]] - part[k[1]], p.reserve[k[2]] - part[k[2]])
      swapOut == IF part[s] = 0 THEN 0 ELSE OutOf(k, left, s, part[s])
  IN  [left    |-> left, swapIn |-> part[s], swapOut |-> swapOut,
       swapped |-> IF part[s] = 0 THEN left ELSE Exchanged(k, left, s, part[s], swapOut),
       out     |-> part[t] + swapOut]

\* The part of a provider's liquidity that a percentage of it stands for.
Portion(p, u, percentage) == (p.userLiquidity[u] * percentage) \div 10000

RemoveLiquiditySingleToken(u, k, t, percentage, slack) ==
  LET p    == WithTwap(k, pools[k])
      r    == RemoveSingleResult(k, p, u, t, Portion(p, u, percentage))
      left == r.left.reserve
  IN  /\ Called("single")
      /\ NotPaused(u) /\ k \in Existing /\ t \in TokensOf(k)
      /\ percentage > 0 /\ percentage <= 10000
      /\ p.userLiquidity[u] # 0
      /\ PriceRatioKept(p.reserve[k[1]], p.reserve[k[2]], left[k[1]], left[k[2]])
      /\ ImpactOf(k, r.left, Other(k, t), r.swapIn, r.swapOut) <= MaxPriceImpact
      /\ KNotDecreased(K(k, r.left), K(k, r.swapped))
      /\ r.out - slack > 0
      /\ pools' = [pools EXCEPT ![k] = WithChange(r.swapped, u, t, slack)]
      /\ Moved(None, Of(t, r.out - slack))
      /\ UNCHANGED <<admin, now, burnt, donated, seen>>

-----------------------------------------------------------------------------
(* Swaps, through one pool or along a path.                                *)

\* The token that enters hop i of a path that starts with t, and the last one out.
RouteToken(path, t) ==
  LET hop[i \in 1 .. Len(path) + 1] ==
        IF i = 1 THEN t ELSE Other(path[i - 1], hop[i - 1])
  IN  hop

Connected(path, t) == \A i \in DOMAIN path : RouteToken(path, t)[i] \in TokensOf(path[i])

\* Mutant: a path may use a pool twice.
ValidPathRepeating(path) ==
  /\ Len(path) \in 1 .. 3
  /\ \A i \in DOMAIN path : path[i] \in Existing /\ path[i] \in DOMAIN admin.poolSigners

\* _validate_path_pools_signed and the length check.
ValidPath(path) ==
  /\ Len(path) \in 1 .. 3
  /\ \A i \in DOMAIN path : path[i] \in Existing /\ path[i] \in DOMAIN admin.poolSigners
  /\ IsInjective(path)

\* Mutant: the next hop gets what this one was given.
HopUnchained(state, k, t, in, out) ==
  LET before == WithTwap(k, state.pools[k])
  IN  [pools  |-> [state.pools EXCEPT ![k] = Exchanged(k, before, t, in, out)],
       amount |-> in,
       kept   |-> TRUE]

\* One hop on a state of the pools: the swap and its K check.
Hop(state, k, t, in, out) ==
  LET before == WithTwap(k, state.pools[k])
      after  == Exchanged(k, before, t, in, out)
  IN  [pools  |-> [state.pools EXCEPT ![k] = after],
       amount |-> out,
       kept   |-> state.kept /\ KNotDecreased(K(k, before), K(k, after))]

\* The hops in order, each with what the one before it yields.
RunExactIn(path, t, in) ==
  LET token == RouteToken(path, t)
      run[i \in 0 .. Len(path)] ==
        IF i = 0 THEN [pools |-> pools, amount |-> in, kept |-> TRUE]
        ELSE LET s == run[i - 1]
             IN  Hop(s, path[i], token[i], s.amount,
                     OutOf(path[i], s.pools[path[i]], token[i], s.amount))
  IN  run[Len(path)]

\* The amounts of an exact-output path, computed backwards from the reserves at
\* its start; 0 where a pool has too little.
Needed(path, t, out) ==
  LET token == RouteToken(path, t)
      need[i \in 1 .. Len(path) + 1] ==
        IF i = Len(path) + 1 THEN out
        ELSE LET r == pools[path[i]].reserve
             IN  IF need[i + 1] \in 1 .. (r[token[i + 1]] - 1)
                 THEN AmountIn(need[i + 1], r[token[i]], r[token[i + 1]], Fee(path[i]))
                 ELSE 0
  IN  need

RunExactOut(path, t, need, start) ==
  LET token == RouteToken(path, t)
      run[i \in 0 .. Len(path)] ==
        IF i = 0 THEN [pools |-> start, amount |-> need[1], kept |-> TRUE]
        ELSE Hop(run[i - 1], path[i], token[i], need[i], need[i + 1])
  IN  run[Len(path)]

\* What the caller leaves of the output is kept as change in the last pool.
SwapExactIn(u, path, t, in, slack) ==
  LET run  == RunExactIn(path, t, in)
      last == path[Len(path)]
      out  == RouteToken(path, t)[Len(path) + 1]
  IN  /\ Connected(path, t) /\ out # t
      /\ run.kept
      /\ run.amount - slack > 0
      /\ pools' = [run.pools EXCEPT ![last] = WithChange(@, u, out, slack)]
      /\ Moved(Of(t, in), Of(out, run.amount - slack))

\* What the caller pays too much is kept as change in the first pool.
SwapExactOut(u, path, t, out, slack) ==
  LET need  == Needed(path, t, out)
      start == [pools EXCEPT ![path[1]] = WithChange(@, u, t, slack)]
      run   == RunExactOut(path, t, need, start)
      last  == RouteToken(path, t)[Len(path) + 1]
  IN  /\ Connected(path, t) /\ last # t
      /\ \A i \in 1 .. Len(path) : need[i] > 0
      /\ run.kept
      /\ pools' = run.pools
      /\ Moved(Of(t, need[1] + slack), Of(last, out))

SwapExactTokensForTokens(u, k, t, in, slack) ==
  /\ Called("swap") /\ NotPaused(u) /\ k \in Existing
  /\ SwapExactIn(u, <<k>>, t, in, slack)
  /\ UNCHANGED <<admin, now, burnt, donated, seen>>

SwapTokensForExactTokens(u, k, t, out, slack) ==
  /\ Called("swap") /\ NotPaused(u) /\ k \in Existing
  /\ SwapExactOut(u, <<k>>, t, out, slack)
  /\ UNCHANGED <<admin, now, burnt, donated, seen>>

SwapExactTokensForTokensThroughPath(u, path, t, in, slack) ==
  /\ Called("swap") /\ NotPaused(u) /\ ValidPath(path)
  /\ SwapExactIn(u, path, t, in, slack)
  /\ UNCHANGED <<admin, now, burnt, donated, seen>>

SwapTokensForExactTokensThroughPath(u, path, t, out, slack) ==
  /\ Called("swap") /\ NotPaused(u) /\ ValidPath(path)
  /\ SwapExactOut(u, path, t, out, slack)
  /\ UNCHANGED <<admin, now, burnt, donated, seen>>

\* taken: one token of the pool or both.
WithdrawCashback(u, k, taken) ==
  /\ Called("cashback")
  /\ NotPaused(u) /\ k \in Existing
  /\ DOMAIN taken # {} /\ DOMAIN taken \subseteq TokensOf(k)
  /\ \A t \in DOMAIN taken : taken[t] <= pools[k].userChange[u][t]
  /\ LET rest(table) == [t \in TokensOf(k) |->
                           table[t] - (IF t \in DOMAIN taken THEN taken[t] ELSE 0)]
     IN  pools' = [pools EXCEPT ![k].userChange[u] = rest(@), ![k].change = rest(@)]
  /\ Moved(None, taken)
  /\ UNCHANGED <<admin, now, burnt, donated, seen>>

-----------------------------------------------------------------------------
(* The owner and the signers.                                              *)

OwnerCall(u) == Called("admin") /\ u = admin.owner

\* A call that changes only the administrative state.
Admin(next) == admin' = next /\ UNCHANGED <<pools, held, now, burnt, donated, seen>>

ChangeProtocolFee(u, fee) ==
  OwnerCall(u) /\ fee \in 0 .. 50 /\ Admin([admin EXCEPT !.protocolFee = fee])

UpdateDefaultTwapWindow(u, window) ==
  OwnerCall(u) /\ window > 0 /\ Admin([admin EXCEPT !.defaultWindow = window])

\* The window restarts as if the pool were new, at the price of the moment.
UpdatePoolTwapWindow(u, k, window) ==
  /\ OwnerCall(u) /\ window > 0 /\ k \in Existing
  /\ pools' = [pools EXCEPT
       ![k].windowSum = [t \in TokensOf(k) |-> Price(k, pools[k], t) * window],
       ![k].stamp = now,
       ![k].window = window]
  /\ seen' = [seen EXCEPT ![k] = FirstSeen(k, pools[k])]
  /\ UNCHANGED <<admin, held, now, burnt, donated>>

AddAuthorizedSigner(u, signer) ==
  OwnerCall(u) /\ Admin([admin EXCEPT !.signers = @ \cup {signer}])

RemoveAuthorizedSigner(u, signer) ==
  OwnerCall(u) /\ signer # admin.owner /\ Admin([admin EXCEPT !.signers = @ \ {signer}])

InitializeReservedPools(u) ==
  OwnerCall(u) /\ Admin([admin EXCEPT !.reserved = None])

ReservePoolCreation(u, t) ==
  /\ Called("admin") /\ u \in admin.signers /\ t # HTR
  /\ t \in DOMAIN admin.reserved => admin.reserved[t] = u
  /\ Admin([admin EXCEPT !.reserved =
       [x \in DOMAIN @ \cup {t} |-> IF x = t THEN u ELSE @[x]]])

ReleasePoolReservation(u, t) ==
  /\ Called("admin") /\ t \in DOMAIN admin.reserved
  /\ u \in {admin.reserved[t], admin.owner}
  /\ Admin([admin EXCEPT !.reserved = Restrict(@, DOMAIN @ \ {t})])

SignPool(u, k) ==
  /\ Called("admin") /\ u \in admin.signers /\ k \in Existing
  /\ Admin([admin EXCEPT !.poolSigners =
       [x \in DOMAIN @ \cup {k} |-> IF x = k THEN u ELSE @[x]]])

UnsignPool(u, k) ==
  /\ Called("admin") /\ k \in Existing \cap DOMAIN admin.poolSigners
  /\ u \in {admin.poolSigners[k], admin.owner}
  /\ Admin([admin EXCEPT !.poolSigners = Restrict(@, DOMAIN @ \ {k})])

Pause(u) == OwnerCall(u) /\ Admin([admin EXCEPT !.paused = TRUE])
Unpause(u) == OwnerCall(u) /\ Admin([admin EXCEPT !.paused = FALSE])

\* Mutant: the new owner is added before the old one is dropped.
ChangeOwnerDropLast(u, newOwner) ==
  /\ OwnerCall(u)
  /\ Admin([admin EXCEPT !.owner = newOwner, !.signers = (@ \cup {newOwner}) \ {u}])

\* The right to sign follows the ownership.
ChangeOwner(u, newOwner) ==
  /\ OwnerCall(u)
  /\ Admin([admin EXCEPT !.owner = newOwner, !.signers = (@ \ {u}) \cup {newOwner}])

ReplenishFunds(u, t, amount) ==
  /\ OwnerCall(u)
  /\ donated' = [donated EXCEPT ![t] = @ + amount]
  /\ Moved(Of(t, amount), None)
  /\ UNCHANGED <<pools, admin, now, burnt, seen>>

\* The next block; seen notes the prices the last one ends with.
Tick ==
  \E s \in Steps :
    /\ now + s <= MaxTime /\ calls < MaxCalls
    /\ now' = now + s
    /\ seen' = [k \in Existing |-> [t \in TokensOf(k) |->
         LET price == Price(k, pools[k], t)
         IN  [lo |-> Min({price, seen[k][t].lo}), hi |-> Max({price, seen[k][t].hi})]]]
    /\ UNCHANGED <<pools, admin, held, burnt, donated, method, calls>>

-----------------------------------------------------------------------------
FirstAdmin ==
  [owner |-> Creator, protocolFee |-> 40, paused |-> FALSE, signers |-> {Creator},
   reserved |-> None, poolSigners |-> [k \in {} |-> Creator],
   defaultWindow |-> DefaultWindow]

Init ==
  /\ pools = [k \in {} |-> None] /\ burnt = [k \in {} |-> 0] /\ seen = [k \in {} |-> None]
  /\ admin = FirstAdmin
  /\ held = [t \in Tokens |-> 0] /\ donated = [t \in Tokens |-> 0]
  /\ now = 1 /\ method = "none" /\ calls = 0

LiquidityNext ==
  \E u \in Addresses, k \in Keys :
    \/ \E d \in FirstDeposits : CreatePool(u, k, d[1], d[2])
    \/ \E a, b \in Amounts : k \in Existing /\ AddLiquidity(u, k, a, b)
    \/ \E a \in Amounts, s \in Slacks : k \in Existing /\ RemoveLiquidity(u, k, a, s)
    \/ \E t \in TokensOf(k), a \in Amounts :
         k \in Existing /\ AddLiquiditySingleToken(u, k, t, a)
    \/ \E t \in TokensOf(k), c \in Percentages, s \in Slacks :
         k \in Existing /\ RemoveLiquiditySingleToken(u, k, t, c, s)
    \/ \E ts \in (SUBSET TokensOf(k)) \ {{}}, a \in (Amounts \cup Slacks) \ {0} :
         WithdrawCashback(u, k, [t \in ts |-> a])

SwapNext ==
  \E u \in Addresses, s \in Slacks, a \in Amounts :
    \/ \E k \in Existing, t \in Tokens : SwapExactTokensForTokens(u, k, t, a, s)
    \/ \E k \in Existing, t \in Tokens : SwapTokensForExactTokens(u, k, t, a, s)
    \/ \E path \in Paths, t \in Tokens :
         ValidPath(path) /\ SwapExactTokensForTokensThroughPath(u, path, t, a, s)
    \/ \E path \in Paths, t \in Tokens :
         ValidPath(path) /\ SwapTokensForExactTokensThroughPath(u, path, t, a, s)

OwnerNext ==
  \E u \in Addresses :
    \/ \E fee \in ProtocolFees : ChangeProtocolFee(u, fee)
    \/ \E w \in NewWindows : UpdateDefaultTwapWindow(u, w)
    \/ \E k \in Keys, w \in NewWindows : UpdatePoolTwapWindow(u, k, w)
    \/ \E v \in Addresses : ChangeOwner(u, v)
    \/ \E t \in Tokens, a \in Slacks \ {0} : ReplenishFunds(u, t, a)

ListingNext ==
  \E u \in Addresses :
    \/ \E v \in Addresses : AddAuthorizedSigner(u, v) \/ RemoveAuthorizedSigner(u, v)
    \/ InitializeReservedPools(u)
    \/ \E t \in Tokens : ReservePoolCreation(u, t) \/ ReleasePoolReservation(u, t)
    \/ \E k \in Keys : SignPool(u, k) \/ UnsignPool(u, k)
    \/ Pause(u) \/ Unpause(u)

Next == LiquidityNext \/ SwapNext \/ OwnerNext \/ ListingNext \/ Tick

Spec == Init /\ [][Next]_vars

-----------------------------------------------------------------------------
(* Reserves never run dry, no share, change or balance is ever negative,   *)
(* and no pool is stamped later than the current block (PoolState).        *)
TypeOK ==
  /\ Existing \subseteq Keys
  /\ \A k \in Existing :
       LET p == pools[k]
       IN  /\ p.reserve \in [TokensOf(k) -> Nat \ {0}]
           /\ p.change \in [TokensOf(k) -> Nat]
           /\ p.liquidity \in Nat \ {0}
           /\ p.userLiquidity \in [Addresses -> Nat]
           /\ p.userChange \in [Addresses -> [TokensOf(k) -> Nat]]
           /\ p.windowSum \in [TokensOf(k) -> Nat]
           /\ p.stamp \in 1 .. now /\ p.window \in Nat \ {0}
  /\ admin.owner \in Addresses /\ admin.protocolFee \in 0 .. 50
  /\ admin.signers \subseteq Addresses
  /\ DOMAIN admin.reserved \subseteq Tokens /\ DOMAIN admin.poolSigners \subseteq Existing
  /\ held \in [Tokens -> Nat] /\ now \in Nat \ {0}

\* What pool k, in state p, holds of t: its reserve and its users' change.
InPool(k, p, t) == IF t \in TokensOf(k) THEN p.reserve[t] + p.change[t] ELSE 0

(* The contract holds of each token exactly the reserves and the change    *)
(* of all pools that trade it, and what the owner gave: a route through    *)
(* several pools neither loses nor makes money (every method).             *)
Solvency ==
  \A t \in Tokens :
    held[t] = donated[t]
              + SumFunctionOnSet([k \in Existing |-> InPool(k, pools[k], t)], Existing)

(* The totals of a pool are the sums of what its users have: the shares    *)
(* with those burnt at its creation, the change of each token              *)
(* (total_liquidity, total_change_a, total_change_b).                      *)
SharesAddUp ==
  \A k \in Existing :
    LET p == pools[k]
    IN  /\ p.liquidity = burnt[k] + SumFunctionOnSet(p.userLiquidity, Addresses)
        /\ \A t \in TokensOf(k) :
             p.change[t] = SumFunctionOnSet([u \in Addresses |-> p.userChange[u][t]], Addresses)

(* Who adds or removes liquidity in both tokens takes nothing from the     *)
(* other providers: what one share stands for never shrinks in token_a,    *)
(* and in token_b by less than one unit of the pool, whatever the          *)
(* roundings (add_liquidity, remove_liquidity).                            *)
SharesKeepTheirValue ==
  [][method' = "liquidity" =>
       \A k \in Existing :
         LET p == pools[k]
             q == pools'[k]
         IN  /\ q.reserve[k[1]] * p.liquidity >= p.reserve[k[1]] * q.liquidity
             /\ (q.reserve[k[2]] + 1) * p.liquidity >= p.reserve[k[2]] * q.liquidity]_vars

(* The swap of in for out is admissible at these reserves: the product     *)
(* grows by the fee at least.                                              *)
Fits(in, out, reserveIn, reserveOut, fee) ==
  (reserveIn * FeeDenominator + in * (FeeDenominator - fee)) * (reserveOut - out)
    >= reserveIn * reserveOut * FeeDenominator

(* A swap, also inside a route, leaves each pool on its curve: it pays the *)
(* most its input admits or takes the least its output admits, judged at   *)
(* the reserves before the call (_swap, _swap_exact_out and the paths).    *)
SwapsStayOnCurve ==
  [][method' = "swap" =>
       \A k \in Existing : \A t \in TokensOf(k) :
         LET r   == pools[k].reserve[t]
             s   == pools[k].reserve[Other(k, t)]
             in  == pools'[k].reserve[t] - r
             out == s - pools'[k].reserve[Other(k, t)]
         IN  in > 0 =>
               /\ Fits(in, out, r, s, Fee(k))
               /\ ~ Fits(in, out + 1, r, s, Fee(k)) \/ ~ Fits(in - 1, out, r, s, Fee(k))]_vars

(* No call changes the average price within the block it is made in: the   *)
(* window sums stay between the lowest and highest price that held at the  *)
(* end of a block, or when the owner restarted the window (_update_twap).  *)
TwapIgnoresTheBlock ==
  \A k \in Existing : \A t \in TokensOf(k) :
    LET p == pools[k]
    IN  /\ p.windowSum[t] >= seen[k][t].lo * p.window
        /\ p.windowSum[t] <= seen[k][t].hi * p.window

(* The owner is always an authorized signer, however ownership and signers *)
(* change (change_owner, add_ and remove_authorized_signer).               *)
OwnerCanSign == admin.owner \in admin.signers

=============================================================================
