-------------------------------- MODULE Khensu --------------------------------
(***************************************************************************)
(* The token launcher (blueprints/khensu-manager): a registered token is   *)
(* sold on a bonding curve; the purchase that leaves a fifth of the supply *)
(* moves that fifth and HTR into a new Dozer pool, in the same call, and   *)
(* the token has graduated.  Change of buyers and sellers and the fees of  *)
(* creators are kept as balances; the platform's fees in three buckets;    *)
(* the most recently used tokens in a linked list (PointerList).           *)
(*                                                                         *)
(* One action is one call of a public method; a raise undoes the call, so  *)
(* it is a guard.                                                          *)
(*                                                                         *)
(* External: the platform adds the deposits of a call to the contract's    *)
(* balances and subtracts its withdrawals, none of them zero; creating a   *)
(* token costs one HTR.  The Dozer contract is what Khensu's calls depend  *)
(* on: whether Khensu may sign there, which tokens are reserved for it,    *)
(* and which pools exist.                                                  *)
(*                                                                         *)
(* Left out: metadata and the two search indexes, the lists by creator and *)
(* of balances, volume, counts and times (only views read them), and       *)
(* upgrade_contract.                                                       *)
(***************************************************************************)
EXTENDS BondingCurve, FiniteSets, Functions, Sequences

CONSTANTS
  Users,
  Creator,        \* the address that creates the contract: admin_address
  Ids,            \* tokens that may be registered
  HTR,            \* also lru_null_token
  Curves,         \* <<market cap, supply, graduation fee>> an admin may try
  Rates,          \* fee rates an admin may try
  MAX_FEE_RATE,   \* 1000
  PoolFees,       \* pool fees an admin may try
  MAX_POOL_FEE_RATE,
  Capacities,     \* capacities of the list an admin may try
  Amounts,        \* amounts a caller may deposit or withdraw
  Slacks,         \* what a buyer or seller asks less than is due
  MaxCalls        \* bound: number of calls, of Khensu and of Dozer

PL == INSTANCE PointerList WITH Null <- HTR

ASSUME KhensuAssumption ==
  /\ IsFiniteSet(Users) /\ Creator \in Users
  /\ IsFiniteSet(Ids) /\ HTR \notin Ids
  /\ \A c \in Curves : c \in Int \X Int \X Int
  /\ Rates \subseteq Int /\ MAX_FEE_RATE \in Nat
  /\ PoolFees \subseteq Int /\ MAX_POOL_FEE_RATE \in Nat
  /\ Capacities \subseteq Int
  /\ Amounts \subseteq Nat \ {0} /\ Slacks \subseteq Nat /\ MaxCalls \in Nat

VARIABLES
  config,      \* admin_set, fee rates, the curve and the pool fee of new tokens
  tokens,      \* TokenData by token
  graduated,   \* graduated_tokens
  fees,        \* collected_buy_fees, collected_sell_fees, collected_operation_fees
  balances,    \* user_balances
  recent,      \* lru_prev, lru_next, lru_head, lru_tail, lru_cache_*
  dozer,       \* what Khensu needs of the pool manager
  held,        \* the platform's balances of the contract
  calls        \* history: number of calls

vars == <<config, tokens, graduated, fees, balances, recent, dozer, held, calls>>

-----------------------------------------------------------------------------
Registered == DOMAIN tokens
OnSale == {t \in Registered : ~tokens[t].migrated}

\* How many of a token's units are out.
Sold(tok) == tok.curve.supply - tok.reserve
Room(tok) == tok.reserve - Unsold(tok.curve)

Called == calls < MaxCalls /\ calls' = calls + 1

Credit(table, u, t, amount) == [table EXCEPT ![u][t] = @ + amount]

\* Mutant: what is above the curve stays in it.
CorrectedNot(tok) == tok

\* _correct_curve_deviation, and what it collects.
Deviation(tok) ==
  LET most == HtrOnCurve(tok.curve, Sold(tok))
  IN  IF tok.pool > most THEN tok.pool - most ELSE 0

Corrected(tok) == [tok EXCEPT !.pool = @ - Deviation(tok)]

-----------------------------------------------------------------------------
(* Buying.                                                                 *)

BuyRate == config.buyFee + config.creatorFee

\* Mutant: the buyer who fills the curve gets what the HTR would buy.
PurchaseUncapped(tok, amount) ==
  LET fee == FeeIn(amount, BuyRate)
      net == amount - fee
  IN  [out |-> TokensOut(tok.curve, Sold(tok), net), net |-> net, paid |-> amount,
       buyFee |-> FeeOn(net, config.buyFee), creatorFee |-> fee - FeeOn(net, config.buyFee)]

\* What amount buys: at most what is for sale, and then for what that needs.
Purchase(tok, amount) ==
  LET fee  == FeeIn(amount, BuyRate)
      net  == amount - fee
      out  == TokensOut(tok.curve, Sold(tok), net)
      need == HtrNeeded(tok.curve, Sold(tok), Room(tok))
  IN  IF out > Room(tok)
      THEN [out |-> Room(tok), net |-> need, paid |-> need + FeeOn(need, BuyRate),
            buyFee |-> FeeOn(need, config.buyFee),
            creatorFee |-> FeeOn(need, BuyRate) - FeeOn(need, config.buyFee)]
      ELSE [out |-> out, net |-> net, paid |-> amount,
            buyFee |-> FeeOn(net, config.buyFee),
            creatorFee |-> fee - FeeOn(net, config.buyFee)]

\* The checks of buy_tokens, _increase_user_balance's included.
PurchaseAllowed(tok, amount, wanted) ==
  LET r == Purchase(tok, amount)
  IN  /\ ~tok.migrated
      /\ amount - FeeIn(amount, BuyRate) > 0
      /\ tok.reserve - wanted >= Unsold(tok.curve)
      /\ r.out # 0
      /\ wanted <= r.out
      /\ r.creatorFee >= 0

\* The token after a purchase, before it may graduate.
Purchased(tok, r) == [tok EXCEPT !.pool = @ + r.net, !.reserve = @ - r.out]

Full(tok) ==
  /\ tok.reserve = Unsold(tok.curve)
  /\ MarketCap(tok.curve, Sold(tok)) >= tok.curve.cap

\* The checks of migrate_liquidity on the token itself.
Funded(tok) == Full(tok) /\ tok.pool - tok.curve.graduation >= Liquidity(tok.curve)

\* create_pool, sign_pool and release_pool_reservation succeed.
DozerAccepts(t, tok) ==
  /\ dozer.signer
  /\ t \in dozer.reserved
  /\ <<t, config.poolFee>> \notin dozer.pools
  /\ Liquidity(tok.curve) > 0 /\ tok.reserve > 0

Change(paid, amount) == IF paid < amount THEN amount - paid ELSE 0

\* The balances after a purchase: change of both tokens and the creator's fee.
BalancesAfter(u, t, tok, r, amount, slack) ==
  Credit(Credit(Credit(balances, u, t, slack), u, HTR, Change(r.paid, amount)),
         tok.creator, HTR, r.creatorFee)

\* A purchase that does not graduate the token.
BuyTokens(u, t, amount, slack) ==
  LET tok     == tokens[t]
      r       == Purchase(tok, amount)
      bought  == Purchased(tok, r)
      settled == Corrected(bought)
  IN  /\ Called
      /\ PurchaseAllowed(tok, amount, r.out - slack)
      /\ r.out - slack > 0
      /\ ~Full(settled)
      /\ tokens' = [tokens EXCEPT ![t] = settled]
      /\ fees' = [fees EXCEPT !.buy = @ + r.buyFee, !.operation = @ + Deviation(bought)]
      /\ balances' = BalancesAfter(u, t, tok, r, amount, slack)
      /\ recent' = PL!Used(recent, t)
      /\ held' = [held EXCEPT ![HTR] = @ + amount, ![t] = @ - (r.out - slack)]
      /\ UNCHANGED <<config, graduated, dozer>>

\* migrate_liquidity: the HTR that leaves the contract, pool and platform fee.
Migrated(tok) == Liquidity(tok.curve) + FEE_TOKEN_VALUE

\* The purchase that fills the curve: migrate_liquidity in the same call.
BuyAndGraduate(u, t, amount, slack) ==
  LET tok     == tokens[t]
      r       == Purchase(tok, amount)
      bought  == Purchased(tok, r)
      settled == Corrected(bought)
  IN  /\ Called
      /\ PurchaseAllowed(tok, amount, r.out - slack)
      /\ r.out - slack > 0
      /\ Full(settled) /\ Funded(settled) /\ DozerAccepts(t, settled)
      /\ tokens' = [tokens EXCEPT ![t] =
                      [settled EXCEPT !.migrated = TRUE, !.poolFee = config.poolFee]]
      /\ graduated' = Append(graduated, t)
      /\ fees' = [fees EXCEPT
                    !.buy = @ + r.buyFee,
                    !.operation = @ + Deviation(bought)
                                    + (settled.pool - Liquidity(settled.curve) - FEE_TOKEN_VALUE)]
      /\ balances' = BalancesAfter(u, t, tok, r, amount, slack)
      /\ recent' = PL!Used(recent, t)
      /\ dozer' = [dozer EXCEPT !.pools = @ \cup {<<t, config.poolFee>>}, !.reserved = @ \ {t}]
      /\ held' = [held EXCEPT ![HTR] = @ + amount - Migrated(settled),
                              ![t] = @ - (r.out - slack) - settled.reserve]
      /\ UNCHANGED config

-----------------------------------------------------------------------------
(* Selling.                                                                *)

\* Nobody can deposit more than is out of the contract.
SellTokens(u, t, amount, slack) ==
  LET tok  == tokens[t]
      out  == HtrOut(tok.curve, Sold(tok), amount)
      fee  == FeeOn(out, config.sellFee)
      net  == out - fee
      sold == [tok EXCEPT !.pool = @ - out, !.reserve = @ + amount]
  IN  /\ Called
      /\ ~tok.migrated /\ amount <= tok.curve.supply - held[t]
      /\ out <= tok.pool
      /\ net >= 0 /\ net - slack > 0
      /\ tokens' = [tokens EXCEPT ![t] = Corrected(sold)]
      /\ fees' = [fees EXCEPT !.sell = @ + fee, !.operation = @ + Deviation(sold)]
      /\ balances' = Credit(balances, u, HTR, slack)
      /\ recent' = PL!Used(recent, t)
      /\ held' = [held EXCEPT ![t] = @ + amount, ![HTR] = @ - (net - slack)]
      /\ UNCHANGED <<config, graduated, dozer>>

-----------------------------------------------------------------------------
(* Registering, and taking money out.                                      *)

\* The deposit pays for the token; its pool is reserved at Dozer.
RegisterToken(u, t) ==
  LET tok == [creator |-> u, curve |-> config.curve, pool |-> 0,
              reserve |-> config.curve.supply, migrated |-> FALSE, poolFee |-> -1]
  IN  /\ Called
      /\ t \notin Registered
      /\ dozer.signer
      /\ tokens' = [x \in Registered \cup {t} |-> IF x = t THEN tok ELSE tokens[x]]
      /\ recent' = PL!Used(recent, t)
      /\ dozer' = [dozer EXCEPT !.reserved = @ \cup {t}]
      /\ held' = [held EXCEPT ![t] = @ + config.curve.supply]
      /\ UNCHANGED <<config, graduated, fees, balances>>

Smaller(m, n) == IF m <= n THEN m ELSE n

\* Mutant: each bucket pays the whole amount.
FeesLessEach(amount) ==
  [buy |-> fees.buy - Smaller(amount, fees.buy), sell |-> fees.sell - Smaller(amount, fees.sell),
   operation |-> fees.operation - Smaller(amount, fees.operation)]

\* The three buckets pay in this order.
FeesLess(amount) ==
  LET buy  == Smaller(amount, fees.buy)
      sell == Smaller(amount - buy, fees.sell)
      rest == Smaller(amount - buy - sell, fees.operation)
  IN  [buy |-> fees.buy - buy, sell |-> fees.sell - sell, operation |-> fees.operation - rest]

WithdrawFees(u, amount) ==
  /\ Called
  /\ u \in config.admins
  /\ fees.buy + fees.sell + fees.operation > 0
  /\ amount <= fees.buy + fees.sell + fees.operation
  /\ fees' = FeesLess(amount)
  /\ held' = [held EXCEPT ![HTR] = @ - amount]
  /\ UNCHANGED <<config, tokens, graduated, balances, recent, dozer>>

WithdrawFromBalance(u, t, amount) ==
  /\ Called
  /\ t = HTR \/ t \in Registered
  /\ amount <= balances[u][t]
  /\ balances' = Credit(balances, u, t, -amount)
  /\ held' = [held EXCEPT ![t] = @ - amount]
  /\ UNCHANGED <<config, tokens, graduated, fees, recent, dozer>>

-----------------------------------------------------------------------------
(* Administration.                                                         *)

AdminCall(u) == Called /\ u \in config.admins

Admin(next) ==
  config' = next /\ UNCHANGED <<tokens, graduated, fees, balances, recent, dozer, held>>

ChangeBuyFeeRate(u, rate) ==
  AdminCall(u) /\ rate \in 0 .. MAX_FEE_RATE /\ Admin([config EXCEPT !.buyFee = rate])

ChangeSellFeeRate(u, rate) ==
  AdminCall(u) /\ rate \in 0 .. MAX_FEE_RATE /\ Admin([config EXCEPT !.sellFee = rate])

ChangeCreatorFeeRate(u, rate) ==
  AdminCall(u) /\ rate \in 0 .. MAX_FEE_RATE /\ Admin([config EXCEPT !.creatorFee = rate])

ChangePoolFeeRate(u, fee) ==
  AdminCall(u) /\ fee \in 0 .. MAX_POOL_FEE_RATE /\ Admin([config EXCEPT !.poolFee = fee])

ChangeBondingCurve(u, cap, supply, graduation) ==
  /\ AdminCall(u)
  /\ ValidParameters(cap, supply, graduation)
  /\ Admin([config EXCEPT !.curve = CurveOf(cap, supply, graduation)])

AddAdmin(u, v) == AdminCall(u) /\ Admin([config EXCEPT !.admins = @ \cup {v}])

RemoveAdmin(u, v) ==
  /\ AdminCall(u)
  /\ Cardinality(config.admins) # 1 /\ v # Creator /\ v \in config.admins
  /\ Admin([config EXCEPT !.admins = @ \ {v}])

ChangeLruCapacity(u, capacity) ==
  /\ AdminCall(u)
  /\ capacity > 0
  /\ recent' = PL!Resized(recent, capacity)
  /\ UNCHANGED <<config, tokens, graduated, fees, balances, dozer, held>>

-----------------------------------------------------------------------------
(* The Dozer contract, in other hands (external).                          *)

Dozer(next) ==
  /\ Called
  /\ dozer' = next
  /\ UNCHANGED <<config, tokens, graduated, fees, balances, recent, held>>

\* Its owner adds or removes Khensu as a signer, or drops all reservations.
DozerSigner == Dozer([dozer EXCEPT !.signer = ~@])
DozerForgets == dozer.reserved # {} /\ Dozer([dozer EXCEPT !.reserved = {}])

\* Anybody opens a pool for a token that is not reserved.
DozerPool(t, fee) ==
  /\ t \in Registered \ dozer.reserved
  /\ <<t, fee>> \notin dozer.pools
  /\ Dozer([dozer EXCEPT !.pools = @ \cup {<<t, fee>>}])

-----------------------------------------------------------------------------
Init ==
  /\ \E c \in Curves, buy, sell, creator \in Rates, fee \in PoolFees :
       /\ ValidParameters(c[1], c[2], c[3])
       /\ {buy, sell, creator} \subseteq 0 .. MAX_FEE_RATE
       /\ fee \in 0 .. MAX_POOL_FEE_RATE
       /\ config = [admins |-> {Creator}, buyFee |-> buy, sellFee |-> sell,
                    creatorFee |-> creator, poolFee |-> fee,
                    curve |-> CurveOf(c[1], c[2], c[3])]
  /\ \E capacity \in Capacities : capacity > 0 /\ recent = PL!EmptyList(capacity)
  /\ tokens = [t \in {} |-> HTR] /\ graduated = <<>>
  /\ fees = [buy |-> 0, sell |-> 0, operation |-> 0]
  /\ balances = [u \in Users |-> [t \in Ids \cup {HTR} |-> 0]]
  /\ dozer = [signer |-> TRUE, reserved |-> {}, pools |-> {}]
  /\ held = [t \in Ids \cup {HTR} |-> 0]
  /\ calls = 0

TradeNext ==
  \E u \in Users :
    \/ \E t \in Ids : RegisterToken(u, t)
    \/ \E t \in OnSale, amount \in Amounts, slack \in Slacks : BuyTokens(u, t, amount, slack)
    \/ \E t \in OnSale, amount \in Amounts, slack \in Slacks : BuyAndGraduate(u, t, amount, slack)
    \/ \E t \in OnSale, amount \in Amounts, slack \in Slacks : SellTokens(u, t, amount, slack)
    \/ \E amount \in Amounts : WithdrawFees(u, amount)
    \/ \E t \in Ids \cup {HTR}, amount \in Amounts : WithdrawFromBalance(u, t, amount)

AdminNext ==
  \E u \in Users :
    \/ \E rate \in Rates : ChangeBuyFeeRate(u, rate)
    \/ \E rate \in Rates : ChangeSellFeeRate(u, rate)
    \/ \E rate \in Rates : ChangeCreatorFeeRate(u, rate)
    \/ \E fee \in PoolFees : ChangePoolFeeRate(u, fee)
    \/ \E c \in Curves : ChangeBondingCurve(u, c[1], c[2], c[3])
    \/ \E v \in Users : AddAdmin(u, v)
    \/ \E v \in Users : RemoveAdmin(u, v)
    \/ \E capacity \in Capacities : ChangeLruCapacity(u, capacity)

DozerNext ==
  \/ DozerSigner
  \/ DozerForgets
  \/ \E t \in Ids, fee \in PoolFees : DozerPool(t, fee)

Next == TradeNext \/ AdminNext \/ DozerNext

Spec == Init /\ [][Next]_vars

-----------------------------------------------------------------------------
(* Properties.                                                             *)

Tokens == Ids \cup {HTR}

CurveRecord == [cap : Nat, supply : Nat, graduation : Nat, a : Nat, b : Nat, c : Nat]

TokenRecord ==
  [creator : Users, curve : CurveRecord, pool : Nat, reserve : Nat,
   migrated : BOOLEAN, poolFee : Int]

\* Types; the amounts are not negative, and no more is left than was made.
TypeOK ==
  /\ config \in [admins : SUBSET Users, buyFee : 0 .. MAX_FEE_RATE,
                 sellFee : 0 .. MAX_FEE_RATE, creatorFee : 0 .. MAX_FEE_RATE,
                 poolFee : 0 .. MAX_POOL_FEE_RATE, curve : CurveRecord]
  /\ Registered \subseteq Ids
  /\ \A t \in Registered : /\ tokens[t] \in TokenRecord
                         /\ tokens[t].reserve \in Unsold(tokens[t].curve) .. tokens[t].curve.supply
  /\ graduated \in Seq(Ids)
  /\ fees \in [buy : Nat, sell : Nat, operation : Nat]
  /\ balances \in [Users -> [Tokens -> Nat]]
  /\ dozer \in [signer : BOOLEAN, reserved : SUBSET Ids, pools : SUBSET (Ids \X Int)]
  /\ held \in [Tokens -> Int]
  /\ calls \in 0 .. MaxCalls

\* What the curves hold of HTR, and what users may take of a token.
PoolOf == [t \in Registered |-> IF tokens[t].migrated THEN 0 ELSE tokens[t].pool]
BalanceOf(t) == [u \in Users |-> balances[u][t]]

\* The contract's HTR is exactly that of the curves on sale, the users and the
\* fees, and its units of a token are those still for sale and the users'.
Solvency ==
  /\ held[HTR] = SumFunctionOnSet(PoolOf, Registered) + SumFunctionOnSet(BalanceOf(HTR), Users)
                  + fees.buy + fees.sell + fees.operation
  /\ \A t \in Registered :
       held[t] = (IF tokens[t].migrated THEN 0 ELSE tokens[t].reserve)
                 + SumFunctionOnSet(BalanceOf(t), Users)

\* Whatever was bought and sold in between, a curve holds what it needs for the
\* units that are out, and not one HTR more.
PoolFollowsCurve ==
  \A t \in OnSale : tokens[t].pool = HtrOnCurve(tokens[t].curve, Sold(tokens[t]))

\* A sale of any part of what is out is covered by the token's own curve: the
\* guard of sell_tokens against it never refuses.
SalesAreCovered ==
  \A t \in OnSale : \A n \in 1 .. Sold(tokens[t]) :
    HtrOut(tokens[t].curve, Sold(tokens[t]), n) <= tokens[t].pool

\* A purchase that takes the last unit for sale passes the checks of the
\* migration in the same call, and no token stays on a curve it has emptied.
GraduationIsFunded ==
  \A t \in OnSale :
    /\ tokens[t].reserve > Unsold(tokens[t].curve)
    /\ \A amount \in Amounts :
         LET r == Purchase(tokens[t], amount)
         IN  PurchaseAllowed(tokens[t], amount, r.out) /\ r.out = Room(tokens[t])
               => Funded(Corrected(Purchased(tokens[t], r)))

\* quote_buy: what amount_received costs, and how many units that is.
QuoteBuy(tok, amount) ==
  LET net  == amount - FeeIn(amount, BuyRate)
      out  == TokensOut(tok.curve, Sold(tok), net)
      need == HtrNeeded(tok.curve, Sold(tok), Room(tok))
  IN  IF out >= Room(tok)
      THEN [total |-> need + FeeOn(need, BuyRate), out |-> Room(tok)]
      ELSE [total |-> amount, out |-> out]

\* Paying what the quote says is enough for the units the quote says.
QuoteIsHonoured ==
  \A t \in OnSale, amount \in Amounts :
    LET q == QuoteBuy(tokens[t], amount)
    IN  amount > FeeIn(amount, BuyRate) /\ q.out > 0
          => PurchaseAllowed(tokens[t], q.total, q.out)

\* The linked list implements the recency list.
RL == INSTANCE RecencyList WITH order <- PL!Walk(recent), capacity <- recent.capacity

ListIsRecencyList == RL!Spec

=============================================================================
