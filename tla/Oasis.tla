-------------------------------- MODULE Oasis ---------------------------------
(***************************************************************************)
(* The vault of blueprints/oasis: a user deposits token_b for some months, *)
(* the vault adds its own HTR and puts both into a Dozer pool, and pays a  *)
(* bonus at once.  When the lock is over the user closes the position: the *)
(* share of token_b, and HTR of the share for what is missing of the       *)
(* deposit, become the user's; the rest of the HTR is the vault's again.   *)
(*                                                                         *)
(* One action is one call of a public method; a raise undoes the call, so  *)
(* it is a guard.                                                          *)
(*                                                                         *)
(* External: the platform adds the deposits of a call to the contract's    *)
(* balances and subtracts its withdrawals, of which one may be zero beside *)
(* another.  Of Dozer there is one pool, in which others swap, without     *)
(* liquidity for Dozer's owner; its arithmetic is DozerMath's and HTR is   *)
(* its token_a.  The price oracle may answer any of Twaps, and Dozer       *)
(* always knows the price of HTR in USD.                                   *)
(*                                                                         *)
(* Left out: the two prices kept with a position (only views read them)    *)
(* and upgrade_contract.                                                   *)
(***************************************************************************)
EXTENDS DozerMath, FiniteSets, Functions

CONSTANTS
  Users,
  Dev,          \* dev_address, one of the users
  HTR, B,       \* the tokens: HTR and token_b
  Fees,         \* protocol fees the dev may try, in thousandths
  Month,        \* MONTHS_IN_SECONDS
  MinDeposit,   \* MIN_DEPOSIT
  Funds,        \* amounts of HTR the owner may deposit or withdraw
  Amounts,      \* amounts of token_b a user may deposit
  Withdrawals,  \* amounts of either token a user may withdraw, beside everything
  Swaps,        \* amounts of either token somebody may swap
  Twaps,        \* prices of token_b in HTR the oracle may answer
  Pools,        \* <<HTR, token_b, liquidity>> the pool may start with
  PoolFee,      \* pool_fee
  Steps,        \* by how much the block time may advance
  MaxCalls,     \* bound: number of calls and swaps
  MaxTime       \* bound: last block time

ASSUME OasisAssumption ==
  /\ IsFiniteSet(Users) /\ Dev \in Users /\ HTR # B
  /\ Fees \subseteq Int /\ Month \in Nat \ {0} /\ MinDeposit \in Nat
  /\ Funds \cup Amounts \cup Swaps \subseteq Nat \ {0}
  /\ Withdrawals \subseteq Nat /\ Twaps \subseteq Nat
  /\ Pools \subseteq (Nat \ {0}) \X (Nat \ {0}) \X (Nat \ {0})
  /\ PoolFee \in 0 .. FeeDenominator
  /\ Steps \subseteq Nat \ {0} /\ MaxCalls \in Nat /\ MaxTime \in Nat

VARIABLES
  admin,      \* owner_address, protocol_fee, paused
  vault,      \* oasis_htr_balance, dev_deposit_amount, total_liquidity
  position,   \* user_deposit_b, user_liquidity, user_position_entry (0: none),
              \* user_position_closed
  balance,    \* user_balances
  closed,     \* closed_position_balances
  pool,       \* Dozer's pool; mine is the vault's part of its liquidity
  now,        \* the block time
  held,       \* the platform's balances of the contract
  calls       \* history: number of calls and swaps

vars == <<admin, vault, position, balance, closed, pool, now, held, calls>>

Tokens == {HTR, B}

-----------------------------------------------------------------------------
(* What a call starts with.                                                *)

Called == calls < MaxCalls /\ calls' = calls + 1 /\ UNCHANGED now

NotPaused(u) == admin.paused => u = Dev

Pair(htr, b) == [t \in Tokens |-> IF t = HTR THEN htr ELSE b]

Moved(htr, b) == held' = [held EXCEPT ![HTR] = @ + htr, ![B] = @ + b]

Credit(table, u, htr, b) == [table EXCEPT ![u] = Pair(@[HTR] + htr, @[B] + b)]

-----------------------------------------------------------------------------
(* The vault's part of the pool, and a user's part of that.                *)

MineHtr == (pool.htr * pool.mine) \div pool.liquidity
MineB   == (pool.b * pool.mine) \div pool.liquidity

\* user_lp_htr
Share(u) ==
  IF vault.liquidity > 0
  THEN (position[u].liquidity * MineHtr) \div vault.liquidity ELSE 0

\* user_lp_b
ShareB(u) == Quote(Share(u), pool.htr, pool.b)

\* Mutant: the share is not the limit.
LossUncapped(u, twap) ==
  LET missing == position[u].deposit - (ShareB(u) + balance[u][B])
  IN  IF missing > 0 THEN (missing * twap) \div PricePrecision ELSE 0

\* loss_htr: HTR for the token_b that is missing, at most the share.
Loss(u, twap) ==
  LET missing == position[u].deposit - (ShareB(u) + balance[u][B])
      worth   == (missing * twap) \div PricePrecision
  IN  IF missing <= 0 THEN 0 ELSE IF worth > Share(u) THEN Share(u) ELSE worth

\* Mutant: all of the share is the vault's.
ReturnedAll(u, twap) == Share(u)

\* What comes back to the vault.
Returned(u, twap) == Share(u) - Loss(u, twap)

-----------------------------------------------------------------------------
(* Deposits.                                                               *)

Timelocks == {6, 9, 12}
Multiplier == [m \in Timelocks |-> IF m = 6 THEN 1000 ELSE IF m = 9 THEN 1500 ELSE 2000]

Bonus(amount, twap, months) ==
  (((amount * twap) \div PricePrecision) * Multiplier[months]) \div 10000

WeightedAverage(old, oldWeight, new, newWeight) ==
  (old * oldWeight + new * newWeight) \div (oldWeight + newWeight)

\* Mutant: the average is rounded down.
NewUnlockFloor(u, months, amount) ==
  LET p         == position[u]
      remaining == p.unlock - now
      average   == now + WeightedAverage(remaining, p.deposit, months * Month, amount)
  IN  IF p.unlock = 0 \/ remaining <= 0 THEN now + months * Month
      ELSE IF average < now + 4 * Month THEN now + 4 * Month ELSE average

\* _calculate_new_withdrawal_time: locked again for the average of both locks.
NewUnlock(u, months, amount) ==
  LET p         == position[u]
      remaining == p.unlock - now
      average   == now + WeightedAverage(remaining, p.deposit, months * Month, amount) + 1
  IN  IF p.unlock = 0 \/ remaining <= 0 THEN now + months * Month
      ELSE IF average < now + 4 * Month THEN now + 4 * Month ELSE average

\* Mutant: the vault's HTR is counted as the user's.
LiquidityForBoth(amount) ==
  IF vault.liquidity = 0 THEN amount * Precision ELSE (vault.liquidity * 2 * amount) \div MineB

\* liquidity_increase
LiquidityFor(amount) ==
  IF vault.liquidity = 0 THEN amount * Precision ELSE (vault.liquidity * amount) \div MineB

\* A position after a deposit.
Larger(p, net, liquidity, unlock) ==
  [p EXCEPT !.deposit = @ + net, !.liquidity = @ + liquidity, !.unlock = unlock]

\* Mutant: a closed position may be added to before everything is withdrawn.
MayDepositAlways(u) == NotPaused(u)

MayDeposit(u) == NotPaused(u) /\ ~position[u].closed

\* The vault adds htr to the deposit less the fee; what the pool does not take
\* of the deposit is the user's.
UserDeposit(u, amount, months, twap) ==
  LET fee    == CeilDiv(amount * admin.fee, 1000)
      net    == amount - fee
      htr    == Quote(net, pool.b, pool.htr)
      bonus  == Bonus(net, twap, months)
      enters == Quote(htr, pool.htr, pool.b)
      minted == (pool.liquidity * htr) \div pool.htr
  IN  /\ Called
      /\ MayDeposit(u)
      /\ net > 0 /\ htr > 0
      /\ htr + bonus <= vault.htr
      /\ vault.liquidity = 0 \/ MineB > 0
      /\ enters <= net
      /\ PriceRatioKept(pool.htr, pool.b, pool.htr + htr, pool.b + enters)
      /\ position' = [position EXCEPT ![u] =
                        Larger(@, net, LiquidityFor(net), NewUnlock(u, months, net))]
      /\ vault' = [vault EXCEPT !.htr = @ - bonus - htr,
                                !.liquidity = @ + LiquidityFor(net)]
      /\ balance' = Credit(Credit(balance, Dev, 0, fee), u, bonus, net - enters)
      /\ pool' = [pool EXCEPT !.htr = @ + htr, !.b = @ + enters,
                              !.liquidity = @ + minted, !.mine = @ + minted]
      /\ Moved(-htr, amount - enters)
      /\ UNCHANGED <<admin, closed>>

-----------------------------------------------------------------------------
(* Leaving.                                                                *)

\* What leaves the pool is what its own quote says: there is no change.
ClosePosition(u, twap) ==
  LET htr  == Share(u)
      b    == ShareB(u)
      gone == CeilDiv(pool.liquidity * htr, pool.htr)
  IN  /\ Called
      /\ NotPaused(u)
      /\ now >= position[u].unlock
      /\ ~position[u].closed
      /\ position[u].liquidity # 0
      /\ htr <= MineHtr
      /\ PriceRatioKept(pool.htr, pool.b, pool.htr - htr, pool.b - b)
      /\ pool' = [pool EXCEPT !.htr = @ - htr, !.b = @ - b,
                              !.liquidity = @ - gone, !.mine = @ - gone]
      /\ vault' = [vault EXCEPT !.htr = @ + Returned(u, twap),
                                !.liquidity = @ - position[u].liquidity]
      /\ closed' = [closed EXCEPT ![u] = Pair(balance[u][HTR] + Loss(u, twap),
                                              balance[u][B] + b)]
      /\ balance' = [balance EXCEPT ![u] = Pair(0, 0)]
      /\ position' = [position EXCEPT ![u] =
                        [@ EXCEPT !.liquidity = 0, !.unlock = 0, !.closed = TRUE]]
      /\ Moved(htr, b)
      /\ UNCHANGED admin

\* Mutant: a position ends when one of the two balances is empty.
EmptyOne(left) == left[HTR] = 0 \/ left[B] = 0

Empty(left) == left[HTR] = 0 /\ left[B] = 0

NoPosition == [deposit |-> 0, liquidity |-> 0, unlock |-> 0, closed |-> FALSE]

\* One action for token_b (htr is 0), or one for each token.
UserWithdraw(u, htr, b) ==
  LET left == Pair(closed[u][HTR] - htr, closed[u][B] - b)
  IN  /\ Called
      /\ htr + b > 0
      /\ NotPaused(u)
      /\ now >= position[u].unlock
      /\ position[u].liquidity = 0
      /\ left[HTR] >= 0 /\ left[B] >= 0
      /\ closed' = [closed EXCEPT ![u] = left]
      /\ position' = IF Empty(left) THEN [position EXCEPT ![u] = NoPosition] ELSE position
      /\ Moved(-htr, -b)
      /\ UNCHANGED <<admin, vault, balance, pool>>

UserWithdrawBonus(u, amount) ==
  /\ Called
  /\ NotPaused(u)
  /\ amount > 0
  /\ amount <= balance[u][HTR]
  /\ balance' = Credit(balance, u, -amount, 0)
  /\ Moved(-amount, 0)
  /\ UNCHANGED <<admin, vault, position, closed, pool>>

-----------------------------------------------------------------------------
(* The owner and the developer.                                            *)

OwnerDeposit(u, amount) ==
  /\ Called
  /\ NotPaused(u) /\ u \in {Dev, admin.owner}
  /\ vault' = [vault EXCEPT !.htr = @ + amount, !.devDeposit = @ + amount]
  /\ Moved(amount, 0)
  /\ UNCHANGED <<admin, position, balance, closed, pool>>

\* devDeposit may fall below zero.
OwnerWithdraw(u, amount) ==
  /\ Called
  /\ NotPaused(u) /\ u = admin.owner
  /\ amount <= vault.htr
  /\ vault' = [vault EXCEPT !.htr = @ - amount, !.devDeposit = @ - amount]
  /\ Moved(-amount, 0)
  /\ UNCHANGED <<admin, position, balance, closed, pool>>

DevWithdrawFee(amount) ==
  /\ Called
  /\ amount <= balance[Dev][B]
  /\ balance' = Credit(balance, Dev, 0, -amount)
  /\ Moved(0, -amount)
  /\ UNCHANGED <<admin, vault, position, closed, pool>>

Admin(next) ==
  Called /\ admin' = next /\ UNCHANGED <<vault, position, balance, closed, pool, held>>

\* Only dev_address may call these, but for the second.
UpdateProtocolFee(fee) == fee \in 0 .. 500 /\ Admin([admin EXCEPT !.fee = fee])
UpdateOwnerAddress(u, v) == u \in {Dev, admin.owner} /\ Admin([admin EXCEPT !.owner = v])
Pause == Admin([admin EXCEPT !.paused = TRUE])
Unpause == Admin([admin EXCEPT !.paused = FALSE])

-----------------------------------------------------------------------------
(* The pool in other hands (external), and time.                           *)

Swap(dHtr, dB) ==
  /\ Called
  /\ pool.htr + dHtr > 0 /\ pool.b + dB > 0
  /\ pool' = [pool EXCEPT !.htr = @ + dHtr, !.b = @ + dB]
  /\ UNCHANGED <<admin, vault, position, balance, closed, held>>

SwapHtr(in) == Swap(in, -AmountOut(in, pool.htr, pool.b, PoolFee))
SwapB(in) == Swap(-AmountOut(in, pool.b, pool.htr, PoolFee), in)

Tick(step) ==
  /\ now + step <= MaxTime
  /\ now' = now + step
  /\ UNCHANGED <<admin, vault, position, balance, closed, pool, held, calls>>

-----------------------------------------------------------------------------
Init ==
  /\ \E fee \in Fees \cap (0 .. 500) : admin = [owner |-> Dev, fee |-> fee, paused |-> FALSE]
  /\ \E amount \in Funds :
       /\ amount >= MinDeposit
       /\ vault = [htr |-> amount, devDeposit |-> amount, liquidity |-> 0]
       /\ held = Pair(amount, 0)
  /\ position = [u \in Users |-> NoPosition]
  /\ balance = [u \in Users |-> Pair(0, 0)]
  /\ closed = [u \in Users |-> Pair(0, 0)]
  /\ \E p \in Pools : pool = [htr |-> p[1], b |-> p[2], liquidity |-> p[3], mine |-> 0]
  /\ now = 0 /\ calls = 0

UserNext ==
  \E u \in Users :
    \/ \E amount \in Amounts, months \in Timelocks, twap \in Twaps :
         UserDeposit(u, amount, months, twap)
    \/ \E twap \in Twaps : ClosePosition(u, twap)
    \/ \E htr \in Withdrawals \cup {closed[u][HTR]}, b \in Withdrawals \cup {closed[u][B]} :
         UserWithdraw(u, htr, b)
    \/ \E amount \in Withdrawals \cup {balance[u][HTR]} : UserWithdrawBonus(u, amount)

AdminNext ==
  \/ \E u \in Users, amount \in Funds : OwnerDeposit(u, amount)
  \/ \E u \in Users, amount \in Funds : OwnerWithdraw(u, amount)
  \/ \E amount \in Withdrawals : DevWithdrawFee(amount)
  \/ \E fee \in Fees : UpdateProtocolFee(fee)
  \/ \E u, v \in Users : UpdateOwnerAddress(u, v)
  \/ Pause
  \/ Unpause

Next ==
  \/ UserNext
  \/ AdminNext
  \/ \E in \in Swaps : SwapHtr(in)
  \/ \E in \in Swaps : SwapB(in)
  \/ \E step \in Steps : Tick(step)

Spec == Init /\ [][Next]_vars

-----------------------------------------------------------------------------
(* Properties.                                                             *)

\* Types; no amount is negative but devDeposit.
TypeOK ==
  /\ admin \in [owner : Users, fee : 0 .. 500, paused : BOOLEAN]
  /\ vault \in [htr : Nat, devDeposit : Int, liquidity : Nat]
  /\ position \in [Users -> [deposit : Nat, liquidity : Nat, unlock : Nat, closed : BOOLEAN]]
  /\ balance \in [Users -> [Tokens -> Nat]]
  /\ closed \in [Users -> [Tokens -> Nat]]
  /\ pool \in [htr : Nat \ {0}, b : Nat \ {0}, liquidity : Nat \ {0}, mine : Nat]
  /\ now \in Nat /\ calls \in 0 .. MaxCalls
  /\ held \in [Tokens -> Int]

BalanceOf(t) == [u \in Users |-> balance[u][t]]
ClosedOf(t) == [u \in Users |-> closed[u][t]]
LiquidityOf == [u \in Users |-> position[u].liquidity]

\* The contract holds exactly the vault's HTR and what users may withdraw, of
\* both tokens, and the shares of the users are all of the vault's.
Solvency ==
  /\ held[HTR] = vault.htr + SumFunctionOnSet(BalanceOf(HTR), Users)
                           + SumFunctionOnSet(ClosedOf(HTR), Users)
  /\ held[B] = SumFunctionOnSet(BalanceOf(B), Users) + SumFunctionOnSet(ClosedOf(B), Users)
  /\ vault.liquidity = SumFunctionOnSet(LiquidityOf, Users)

\* Whoever deposits more is locked at least as long as both locks, weighted by
\* their amounts, and a deposit added to a locked position at least four months.
LockIsKept ==
  [][\A u \in Users :
       LET p == position[u]
           q == position'[u]
           remaining == p.unlock - now
       IN  q.deposit > p.deposit /\ remaining > 0 =>
             /\ q.unlock >= now + 4 * Month
             /\ \E months \in Timelocks :
                  (q.unlock - now) * q.deposit
                    >= remaining * p.deposit + months * Month * (q.deposit - p.deposit)]_vars

\* What a closed position may withdraw is not overwritten: it shrinks by what
\* leaves, and the position ends when nothing is left.
ClosedIsKept ==
  [][\A u \in Users : position[u].closed =>
       /\ \A t \in Tokens : closed[u][t] - closed'[u][t] = 0
                            \/ (closed'[u][t] < closed[u][t]
                                /\ closed[u][t] - closed'[u][t] = held[t] - held'[t])
       /\ ~position'[u].closed => closed'[u] = Pair(0, 0)]_vars

\* What one unit of token_b or of the pool's liquidity is worth in HTR, the dearer.
Grain ==
  LET unitB         == CeilDiv(pool.htr, pool.b)
      unitLiquidity == CeilDiv(pool.htr, pool.liquidity)
  IN  IF unitB >= unitLiquidity THEN unitB ELSE unitLiquidity

\* No other user's deposit or closing takes more of a user's share than a unit of
\* HTR and what one of token_b, or one of the pool's liquidity, is worth.
OthersKeepTheirShare ==
  [][\A u \in Users :
       pool' # pool /\ held' # held /\ position'[u] = position[u]
         => Share(u)' >= Share(u) - 1 - Grain]_vars

\* Every position can be closed once its lock is over, whatever happened to the
\* pool, and even when the owner has withdrawn all of the vault's HTR.
EveryoneCanClose ==
  \A u \in Users : position[u].liquidity # 0 =>
    /\ ~position[u].closed
    /\ Share(u) <= MineHtr
    /\ CeilDiv(pool.liquidity * Share(u), pool.htr) <= pool.mine
    /\ \A twap \in Twaps : vault.htr + Returned(u, twap) >= 0

=============================================================================
