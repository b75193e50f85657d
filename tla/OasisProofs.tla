----------------------------- MODULE OasisProofs -----------------------------
(***************************************************************************)
(* The vault is right for every number of users, every pool and every      *)
(* amount: it holds what users and owner may withdraw, every position can  *)
(* be closed, a lock that is prolonged covers both locks, what a closed    *)
(* position may withdraw is not lost, and nobody else's deposit or closing *)
(* takes a user's share, but for what the roundings cost.                  *)
(*                                                                         *)
(* The inductive invariant IInv adds two facts to the types and Solvency.  *)
(*   Ledger        Who has not closed a position has nothing in the table  *)
(*                 of closed positions, who has closed it no liquidity.    *)
(*                 close_position overwrites that table: only an empty     *)
(*                 entry may be overwritten.                               *)
(*   SomebodyElse  A part of the pool is not the vault's, so that closing  *)
(*                 the last position never empties the pool.               *)
(***************************************************************************)
EXTENDS Oasis, SumTheorems, TLAPS

Tables == [Users -> [Tokens -> Nat]]
PositionRecord == [deposit : Nat, liquidity : Nat, unlock : Nat, closed : BOOLEAN]
PoolRecord == [htr : Nat \ {0}, b : Nat \ {0}, liquidity : Nat \ {0}, mine : Nat]
VaultRecord == [htr : Nat, devDeposit : Int, liquidity : Nat]

Column(table, t) == [u \in Users |-> table[u][t]]
Total(table, t) == SumFunctionOnSet(Column(table, t), Users)
Shares(positions) == SumFunctionOnSet([u \in Users |-> positions[u].liquidity], Users)

\* Who has not closed a position has nothing to withdraw from one, and the reverse.
Ledger ==
  \A u \in Users : IF position[u].closed THEN position[u].liquidity = 0
                   ELSE closed[u][HTR] = 0 /\ closed[u][B] = 0

SomebodyElse == pool.mine < pool.liquidity

IInv == TypeOK /\ Solvency /\ Ledger /\ SomebodyElse

-----------------------------------------------------------------------------
(* Arithmetic.                                                             *)

LEMMA Floor ==
  ASSUME NEW n \in Nat, NEW d \in Nat \ {0}
  PROVE  /\ n \div d \in Nat
         /\ (n \div d) * d <= n
         /\ n < (n \div d + 1) * d
BY SMT

LEMMA Product ==
  ASSUME NEW a \in Nat, NEW b \in Nat
  PROVE  a * b \in Nat /\ (a # 0 /\ b # 0 => a * b # 0)
BY SMT

LEMMA LessTimes ==
  ASSUME NEW a \in Nat, NEW b \in Nat, NEW c \in Nat, a < b, c # 0
  PROVE  a * c < b * c
BY SMT

LEMMA AtMostTimes ==
  ASSUME NEW a \in Nat, NEW b \in Nat, NEW c \in Nat, a <= b
  PROVE  a * c <= b * c
BY SMT

\* A rounded-down part of n is at most n, and less than n if the part is proper.
LEMMA PartOf ==
  ASSUME NEW n \in Nat, NEW p \in Nat, NEW w \in Nat \ {0}, p <= w
  PROVE  /\ (n * p) \div w \in Nat
         /\ (n * p) \div w <= n
         /\ n # 0 /\ p < w => (n * p) \div w < n
<1> DEFINE q == (n * p) \div w
<1>1. n * p \in Nat /\ n * w \in Nat BY Product
<1>2. q \in Nat /\ q * w <= n * p BY <1>1, Floor
<1>3. n * p <= n * w
  <2>1. p * n <= w * n BY AtMostTimes
  <2>2. p * n = n * p /\ w * n = n * w BY SMT
  <2>3. QED BY <2>1, <2>2
<1> HIDE DEF q
<1>4. q <= n
  <2>1. SUFFICES ASSUME n < q PROVE FALSE BY <1>2
  <2>2. n * w < q * w BY <1>2, <2>1, LessTimes
  <2>3. q * w \in Nat BY <1>2, Product
  <2>4. QED BY <1>1, <1>2, <1>3, <2>2, <2>3
<1>5. ASSUME n # 0, p < w PROVE q < n
  <2>1. SUFFICES ASSUME n <= q PROVE FALSE BY <1>2
  <2>2. n * w <= q * w BY <1>2, <2>1, AtMostTimes
  <2>3. n * p < n * w
    <3>1. p * n < w * n BY <1>5, LessTimes
    <3>2. p * n = n * p /\ w * n = n * w BY SMT
    <3>3. QED BY <3>1, <3>2
  <2>4. q * w \in Nat BY <1>2, Product
  <2>5. QED BY <1>1, <1>2, <2>2, <2>3, <2>4
<1>6. QED BY <1>2, <1>4, <1>5 DEF q

\* Rounding up what is rounded down to at most n gives at most n.
LEMMA CeilAtMost ==
  ASSUME NEW n \in Nat, NEW d \in Nat \ {0}, NEW m \in Nat, n <= m * d
  PROVE  CeilDiv(n, d) \in Nat /\ CeilDiv(n, d) <= m
<1> DEFINE q == (n + d - 1) \div d
<1>1. n + d - 1 \in Nat BY SMT
<1>2. q \in Nat /\ q * d <= n + d - 1 BY <1>1, Floor
<1> HIDE DEF q
<1>3. q <= m
  <2>1. SUFFICES ASSUME m + 1 <= q PROVE FALSE BY <1>2
  <2>2. (m + 1) * d <= q * d BY <1>2, <2>1, AtMostTimes
  <2>3. (m + 1) * d = m * d + d /\ m * d \in Nat /\ q * d \in Nat BY <1>2, Product, SMT
  <2>4. QED BY <1>2, <2>2, <2>3, SMT
<1>4. QED BY <1>2, <1>3 DEF CeilDiv, q

LEMMA Ceil ==
  ASSUME NEW n \in Nat, NEW d \in Nat \ {0}
  PROVE  CeilDiv(n, d) \in Nat
<1>1. n + d - 1 \in Nat BY SMT
<1>2. QED BY <1>1, Floor DEF CeilDiv

-----------------------------------------------------------------------------
(* Sums over users.                                                        *)

LEMMA TotalType ==
  ASSUME NEW table \in Tables, NEW t \in Tokens
  PROVE  /\ Column(table, t) \in [Users -> Int]
         /\ Total(table, t) \in Int
<1>1. Column(table, t) \in [Users -> Int] BY DEF Column, Tables
<1>2. QED BY <1>1, OasisAssumption, SumCongruence DEF Total

\* One user's entry changes.
LEMMA TotalUpdate ==
  ASSUME NEW table \in Tables, NEW next \in Tables, NEW u \in Users, NEW t \in Tokens,
         \A v \in Users \ {u} : next[v][t] = table[v][t]
  PROVE  Total(next, t) = Total(table, t) - table[u][t] + next[u][t]
<1> DEFINE f == Column(table, t)
           g == Column(next, t)
<1>1. f \in [Users -> Int] /\ g \in [Users -> Int] BY TotalType
<1>2. f[u] = table[u][t] /\ g[u] = next[u][t] BY DEF Column
<1>3. \A v \in Users \ {u} : g[v] = f[v] BY DEF Column
<1> HIDE DEF f, g
<1>4. SumFunctionOnSet(g, Users) = SumFunctionOnSet(f, Users) - f[u] + g[u]
  BY <1>1, <1>3, OasisAssumption, SumUpdate
<1>5. QED BY <1>2, <1>4 DEF Total, f, g

\* Credit adds to one user's two balances, and to the totals.
LEMMA CreditTotal ==
  ASSUME NEW table \in Tables, NEW u \in Users, NEW htr \in Int, NEW b \in Int,
         table[u][HTR] + htr \in Nat, table[u][B] + b \in Nat
  PROVE  /\ Credit(table, u, htr, b) \in Tables
         /\ Total(Credit(table, u, htr, b), HTR) = Total(table, HTR) + htr
         /\ Total(Credit(table, u, htr, b), B) = Total(table, B) + b
         /\ \A v \in Users \ {u} : Credit(table, u, htr, b)[v] = table[v]
         /\ Credit(table, u, htr, b)[u][HTR] = table[u][HTR] + htr
         /\ Credit(table, u, htr, b)[u][B] = table[u][B] + b
<1>1. PICK next : next = Credit(table, u, htr, b) OBVIOUS
<1>2. HTR # B /\ HTR \in Tokens /\ B \in Tokens BY OasisAssumption DEF Tokens
<1>3. PICK pair : pair = Pair(table[u][HTR] + htr, table[u][B] + b) OBVIOUS
<1>4. /\ pair \in [Tokens -> Nat]
      /\ pair[HTR] = table[u][HTR] + htr /\ pair[B] = table[u][B] + b
  BY <1>2, <1>3 DEF Pair, Tokens
<1>5. next = [table EXCEPT ![u] = pair] BY <1>1, <1>3 DEF Credit
<1>6. /\ next \in Tables /\ next[u] = pair
      /\ \A v \in Users \ {u} : next[v] = table[v]
  BY <1>4, <1>5 DEF Tables
<1>7. /\ Total(next, HTR) = Total(table, HTR) - table[u][HTR] + next[u][HTR]
      /\ Total(next, B) = Total(table, B) - table[u][B] + next[u][B]
  BY <1>2, <1>6, TotalUpdate
<1>8. /\ table[u][HTR] \in Nat /\ table[u][B] \in Nat
      /\ Total(table, HTR) \in Int /\ Total(table, B) \in Int
  BY <1>2, TotalType DEF Tables
<1>9. /\ Total(next, HTR) = Total(table, HTR) + htr
      /\ Total(next, B) = Total(table, B) + b
  BY <1>4, <1>6, <1>7, <1>8
<1>10. QED BY <1>1, <1>4, <1>6, <1>9

\* Emptying, or setting, one user's entry.
Put(table, u, htr, b) == [table EXCEPT ![u] = Pair(htr, b)]

LEMMA PutTotal ==
  ASSUME NEW table \in Tables, NEW u \in Users, NEW htr \in Nat, NEW b \in Nat
  PROVE  /\ Put(table, u, htr, b) \in Tables
         /\ Total(Put(table, u, htr, b), HTR) = Total(table, HTR) - table[u][HTR] + htr
         /\ Total(Put(table, u, htr, b), B) = Total(table, B) - table[u][B] + b
         /\ \A v \in Users \ {u} : Put(table, u, htr, b)[v] = table[v]
         /\ Put(table, u, htr, b)[u][HTR] = htr /\ Put(table, u, htr, b)[u][B] = b
<1>0. PICK next : next = Put(table, u, htr, b) OBVIOUS
<1>1. HTR # B /\ HTR \in Tokens /\ B \in Tokens BY OasisAssumption DEF Tokens
<1>2. PICK pair : pair = Pair(htr, b) OBVIOUS
<1>3. pair \in [Tokens -> Nat] /\ pair[HTR] = htr /\ pair[B] = b
  BY <1>1, <1>2 DEF Pair, Tokens
<1>4. /\ next \in Tables /\ next[u] = pair
      /\ \A v \in Users \ {u} : next[v] = table[v]
  BY <1>0, <1>2, <1>3 DEF Tables, Put
<1>5. ASSUME NEW t \in Tokens
      PROVE  Total(next, t) = Total(table, t) - table[u][t] + next[u][t]
  <2>1. \A v \in Users \ {u} : next[v][t] = table[v][t] BY <1>4
  <2>2. next \in Tables BY <1>4
  <2>3. QED BY ONLY <2>1, <2>2, table \in Tables, u \in Users, t \in Tokens, TotalUpdate
<1>6. QED BY <1>0, <1>1, <1>3, <1>4, <1>5


\* One user's liquidity changes.
LEMMA SharesUpdate ==
  ASSUME NEW p \in [Users -> PositionRecord], NEW q \in [Users -> PositionRecord],
         NEW u \in Users, \A v \in Users \ {u} : q[v].liquidity = p[v].liquidity
  PROVE  Shares(q) = Shares(p) - p[u].liquidity + q[u].liquidity
<1> DEFINE f == [v \in Users |-> p[v].liquidity]
           g == [v \in Users |-> q[v].liquidity]
<1>1. f \in [Users -> Int] /\ g \in [Users -> Int] BY DEF PositionRecord
<1>2. f[u] = p[u].liquidity /\ g[u] = q[u].liquidity OBVIOUS
<1>3. \A v \in Users \ {u} : g[v] = f[v] OBVIOUS
<1> HIDE DEF f, g
<1>4. SumFunctionOnSet(g, Users) = SumFunctionOnSet(f, Users) - f[u] + g[u]
  BY <1>1, <1>3, OasisAssumption, SumUpdate
<1>5. QED BY <1>2, <1>4 DEF Shares, f, g

LEMMA SharesBound ==
  ASSUME NEW p \in [Users -> PositionRecord], NEW u \in Users
  PROVE  Shares(p) \in Int /\ p[u].liquidity <= Shares(p)
<1> DEFINE f == [v \in Users |-> p[v].liquidity]
<1>1. f \in [Users -> Nat] /\ f[u] = p[u].liquidity BY DEF PositionRecord
<1> HIDE DEF f
<1>2. f[u] <= SumFunctionOnSet(f, Users) BY <1>1, OasisAssumption, SumBounds
<1>3. f \in [Users -> Int] BY <1>1
<1>4. SumFunctionOnSet(f, Users) \in Int BY <1>3, OasisAssumption, SumCongruence
<1>5. QED BY <1>1, <1>2, <1>4 DEF Shares, f

\* Solvency in terms of the totals, of this state and of the next.
Covers(h, v, bal, clo, pos) ==
  /\ h[HTR] = v.htr + Total(bal, HTR) + Total(clo, HTR)
  /\ h[B] = Total(bal, B) + Total(clo, B)
  /\ v.liquidity = Shares(pos)

LEMMA CoversIff ==
  /\ Solvency <=> Covers(held, vault, balance, closed, position)
  /\ Solvency' <=> Covers(held', vault', balance', closed', position')
BY DEF Solvency, Covers, Total, Column, BalanceOf, ClosedOf, LiquidityOf, Shares

-----------------------------------------------------------------------------
(* Shares of the pool.                                                     *)

LEMMA ShareFacts ==
  ASSUME IInv, NEW u \in Users
  PROVE  /\ MineHtr \in Nat /\ MineHtr < pool.htr
         /\ Share(u) \in Nat /\ Share(u) <= MineHtr
         /\ ShareB(u) \in Nat /\ ShareB(u) < pool.b
         /\ CeilDiv(pool.liquidity * Share(u), pool.htr) \in Nat
         /\ CeilDiv(pool.liquidity * Share(u), pool.htr) <= pool.mine
         /\ position[u].liquidity <= vault.liquidity
<1>1. /\ pool.htr \in Nat \ {0} /\ pool.b \in Nat \ {0} /\ pool.liquidity \in Nat \ {0}
      /\ pool.mine \in Nat /\ pool.mine < pool.liquidity
      /\ position[u].liquidity \in Nat /\ vault.liquidity \in Nat
  BY DEF IInv, TypeOK, SomebodyElse
<1>2. position[u].liquidity <= vault.liquidity
  <2>1. position \in [Users -> PositionRecord] BY DEF IInv, TypeOK, PositionRecord
  <2>2. vault.liquidity = Shares(position) BY CoversIff DEF IInv, Covers
  <2>3. QED BY <2>1, <2>2, SharesBound
<1>3. PICK h \in Nat \ {0}, b \in Nat \ {0}, L \in Nat \ {0}, m \in Nat, l \in Nat, V \in Nat :
         /\ h = pool.htr /\ b = pool.b /\ L = pool.liquidity /\ m = pool.mine
         /\ l = position[u].liquidity /\ V = vault.liquidity
  BY <1>1
<1>4. PICK M : M = (h * m) \div L OBVIOUS
<1>5. PICK s : s = IF V > 0 THEN (l * M) \div V ELSE 0 OBVIOUS
<1>6. M = MineHtr BY <1>3, <1>4 DEF MineHtr
<1>7. s = Share(u) BY <1>3, <1>5, <1>6 DEF Share
<1>8. (s * b) \div h = ShareB(u) BY <1>3, <1>7 DEF ShareB, Quote
<1>9. /\ M \in Nat /\ M < h
      /\ s \in Nat /\ s <= M
      /\ (s * b) \div h \in Nat /\ (s * b) \div h < b
      /\ CeilDiv(L * s, h) \in Nat /\ CeilDiv(L * s, h) <= m
  <2>0. m < L /\ l <= V BY <1>1, <1>2, <1>3
  <2>1. M \in Nat /\ M < h BY <2>0, <1>4, PartOf
  <2>2. s \in Nat /\ s <= M
    <3>1. CASE V > 0
      <4>1. V \in Nat \ {0} BY <3>1
      <4>2. (M * l) \div V \in Nat /\ (M * l) \div V <= M
        BY ONLY <2>1, <4>1, l \in Nat, <2>0, PartOf
      <4>3. M * l = l * M BY <2>1, SMT
      <4>4. QED BY <1>5, <3>1, <4>2, <4>3
    <3>2. CASE ~ (V > 0) BY <1>5, <2>1, <3>2
    <3>3. QED BY <3>1, <3>2
  <2>3. (b * s) \div h \in Nat /\ (b * s) \div h < b
    <3>1. s <= h /\ s < h /\ b # 0 BY <2>1, <2>2
    <3>2. QED BY ONLY <3>1, <2>2, b \in Nat \ {0}, h \in Nat \ {0}, PartOf
  <2>4. b * s = s * b BY <2>2, SMT
  <2>5. L * s <= m * h
    <3>1. h * m \in Nat BY Product
    <3>2. M * L <= h * m BY <1>4, <3>1, Floor
    <3>3. s * L <= M * L BY <2>1, <2>2, AtMostTimes
    <3>4. s * L \in Nat /\ M * L \in Nat BY <2>1, <2>2, Product
    <3>5. s * L = L * s /\ h * m = m * h BY <2>2, SMT
    <3>6. QED BY <3>1, <3>2, <3>3, <3>4, <3>5
  <2>6. L * s \in Nat BY <2>2, Product
  <2>7. CeilDiv(L * s, h) \in Nat /\ CeilDiv(L * s, h) <= m
    BY ONLY <2>5, <2>6, m \in Nat, h \in Nat \ {0}, CeilAtMost
  <2>8. QED BY <2>1, <2>2, <2>3, <2>4, <2>7
<1>10. QED BY ONLY <1>2, <1>3, <1>6, <1>7, <1>8, <1>9

\* What the vault pays for a loss is at most the share.
LEMMA LossFacts ==
  ASSUME IInv, NEW u \in Users, NEW twap \in Nat
  PROVE  Loss(u, twap) \in Nat /\ Loss(u, twap) <= Share(u)
<1>1. Share(u) \in Nat /\ ShareB(u) \in Nat BY ShareFacts
<1>2. position[u].deposit \in Nat /\ balance[u][B] \in Nat
  BY OasisAssumption DEF IInv, TypeOK, Tokens
<1> DEFINE missing == position[u].deposit - (ShareB(u) + balance[u][B])
           worth == (missing * twap) \div PricePrecision
<1>3. missing \in Int BY <1>1, <1>2
<1>4. Loss(u, twap) = IF missing <= 0 THEN 0 ELSE IF worth > Share(u) THEN Share(u) ELSE worth
  BY DEF Loss
<1> HIDE DEF missing
<1>5. ASSUME ~ (missing <= 0) PROVE worth \in Nat
  <2>1. missing \in Nat BY <1>3, <1>5
  <2>2. missing * twap \in Nat BY <2>1, Product
  <2>3. QED BY <2>2, Floor, DozerMathAssumption
<1> HIDE DEF worth
<1>6. CASE missing <= 0 BY <1>1, <1>4, <1>6
<1>7. CASE ~ (missing <= 0)
  <2>1. worth \in Nat BY <1>5, <1>7
  <2>2. CASE worth > Share(u) BY <1>1, <1>4, <1>7, <2>2
  <2>3. CASE ~ (worth > Share(u)) BY <1>1, <1>4, <1>7, <2>1, <2>3
  <2>4. QED BY <2>2, <2>3
<1>8. QED BY <1>6, <1>7

\* The property the runs check, from the invariant.
LEMMA Closable == IInv => EveryoneCanClose
<1> SUFFICES ASSUME IInv, NEW u \in Users, position[u].liquidity # 0
             PROVE  /\ ~ position[u].closed
                    /\ Share(u) <= MineHtr
                    /\ CeilDiv(pool.liquidity * Share(u), pool.htr) <= pool.mine
                    /\ \A twap \in Twaps : vault.htr + Returned(u, twap) >= 0
  BY DEF EveryoneCanClose
<1>1. ~ position[u].closed BY DEF IInv, Ledger
<1>2. vault.htr \in Nat BY DEF IInv, TypeOK
<1>3. ASSUME NEW twap \in Twaps PROVE vault.htr + Returned(u, twap) >= 0
  <2>1. twap \in Nat BY OasisAssumption
  <2>2. Loss(u, twap) \in Nat /\ Loss(u, twap) <= Share(u) BY <2>1, LossFacts
  <2>3. Share(u) \in Nat BY ShareFacts
  <2>4. QED BY <1>2, <2>2, <2>3 DEF Returned
<1>4. QED BY <1>1, <1>3, ShareFacts

-----------------------------------------------------------------------------
(* The first state.                                                        *)

LEMMA InitInv == Init => IInv
<1> SUFFICES ASSUME Init PROVE IInv OBVIOUS
<1>1. HTR # B /\ HTR \in Tokens /\ B \in Tokens BY OasisAssumption DEF Tokens
<1>2. PICK zero : zero = Pair(0, 0) OBVIOUS
<1>3. zero \in [Tokens -> Nat] /\ zero[HTR] = 0 /\ zero[B] = 0
  BY <1>1, <1>2 DEF Pair, Tokens
<1>4. balance = [u \in Users |-> zero] /\ closed = [u \in Users |-> zero]
  BY <1>2 DEF Init
<1>5. balance \in Tables /\ closed \in Tables BY <1>3, <1>4 DEF Tables
<1>6. PICK amount \in Funds :
        /\ vault = [htr |-> amount, devDeposit |-> amount, liquidity |-> 0]
        /\ held = Pair(amount, 0)
  BY DEF Init
<1>7. amount \in Nat BY OasisAssumption
<1>8. held \in [Tokens -> Int] /\ held[HTR] = amount /\ held[B] = 0
  BY <1>1, <1>6, <1>7 DEF Pair, Tokens
<1>9. position = [u \in Users |-> NoPosition] BY DEF Init
<1>10. position \in [Users -> PositionRecord] /\ \A u \in Users : ~ position[u].closed
                                                                  /\ position[u].liquidity = 0
  BY <1>9 DEF NoPosition, PositionRecord
<1>11. PICK p \in Pools : pool = [htr |-> p[1], b |-> p[2], liquidity |-> p[3], mine |-> 0]
  BY DEF Init
<1>12. p[1] \in Nat \ {0} /\ p[2] \in Nat \ {0} /\ p[3] \in Nat \ {0} BY OasisAssumption
<1>13. TypeOK
  <2>1. admin \in [owner : Users, fee : 0 .. 500, paused : BOOLEAN]
    <3>1. PICK fee \in 0 .. 500 : admin = [owner |-> Dev, fee |-> fee, paused |-> FALSE]
      BY DEF Init
    <3>2. QED BY <3>1, OasisAssumption
  <2>2. vault \in [htr : Nat, devDeposit : Int, liquidity : Nat] BY <1>6, <1>7
  <2>3. pool \in [htr : Nat \ {0}, b : Nat \ {0}, liquidity : Nat \ {0}, mine : Nat]
    BY <1>11, <1>12
  <2>4. now \in Nat /\ calls \in 0 .. MaxCalls BY OasisAssumption DEF Init
  <2>5. QED BY <1>5, <1>8, <1>10, <2>1, <2>2, <2>3, <2>4 DEF TypeOK, Tables, PositionRecord
<1>14. Solvency
  <2>1. ASSUME NEW table \in Tables, NEW t \in Tokens, table = [u \in Users |-> zero]
        PROVE  Total(table, t) = 0
    <3>1. Column(table, t) = [u \in Users |-> 0] BY <1>1, <1>3, <2>1 DEF Column, Tokens
    <3>2. QED BY <3>1, OasisAssumption, SumZero DEF Total
  <2>2. /\ Total(balance, HTR) = 0 /\ Total(closed, HTR) = 0
        /\ Total(balance, B) = 0 /\ Total(closed, B) = 0
    BY <1>1, <1>4, <1>5, <2>1
  <2>3. Shares(position) = 0
    <3>1. [u \in Users |-> position[u].liquidity] = [u \in Users |-> 0] BY <1>10
    <3>2. QED BY <3>1, OasisAssumption, SumZero DEF Shares
  <2>4. QED BY <1>6, <1>7, <1>8, <2>2, <2>3, CoversIff DEF Covers
<1>15. Ledger BY <1>3, <1>4, <1>10 DEF Ledger
<1>16. SomebodyElse BY <1>11, <1>12 DEF SomebodyElse
<1>17. QED BY <1>13, <1>14, <1>15, <1>16 DEF IInv

-----------------------------------------------------------------------------
(* The steps.  What each starts from, in one place.                        *)

LEMMA StateFacts ==
  ASSUME IInv
  PROVE  /\ HTR # B /\ HTR \in Tokens /\ B \in Tokens
         /\ balance \in Tables /\ closed \in Tables
         /\ \A u \in Users : /\ balance[u][HTR] \in Nat /\ balance[u][B] \in Nat
                             /\ closed[u][HTR] \in Nat /\ closed[u][B] \in Nat
                             /\ position[u] \in PositionRecord
         /\ \A t \in Tokens : /\ Total(balance, t) \in Int /\ Total(closed, t) \in Int
                              /\ held[t] \in Int
         /\ position \in [Users -> PositionRecord] /\ Shares(position) \in Int
         /\ pool \in PoolRecord /\ vault \in VaultRecord /\ held \in [Tokens -> Int]
         /\ Covers(held, vault, balance, closed, position)
<1>1. HTR # B /\ HTR \in Tokens /\ B \in Tokens BY OasisAssumption DEF Tokens
<1>2. balance \in Tables /\ closed \in Tables BY DEF IInv, TypeOK, Tables
<1>3. position \in [Users -> PositionRecord] BY DEF IInv, TypeOK, PositionRecord
<1>4. pool \in PoolRecord /\ vault \in VaultRecord /\ held \in [Tokens -> Int]
  BY DEF IInv, TypeOK, PoolRecord, VaultRecord
<1>5. Covers(held, vault, balance, closed, position) BY CoversIff DEF IInv
<1>6. Shares(position) \in Int
  <2>1. vault.liquidity \in Nat /\ vault.liquidity = Shares(position)
    BY <1>4, <1>5 DEF Covers, VaultRecord
  <2>2. QED BY <2>1
<1>7. \A t \in Tokens : /\ Total(balance, t) \in Int /\ Total(closed, t) \in Int
                        /\ held[t] \in Int
  BY <1>2, <1>4, TotalType
<1>8. \A u \in Users : /\ balance[u][HTR] \in Nat /\ balance[u][B] \in Nat
                       /\ closed[u][HTR] \in Nat /\ closed[u][B] \in Nat
                       /\ position[u] \in PositionRecord
  BY <1>1, <1>2, <1>3 DEF Tables
<1>9. QED BY <1>1, <1>2, <1>3, <1>4, <1>5, <1>6, <1>7, <1>8

\* What a step has to show.
LEMMA Assemble ==
  ASSUME admin' \in [owner : Users, fee : 0 .. 500, paused : BOOLEAN],
         vault' \in VaultRecord, position' \in [Users -> PositionRecord],
         balance' \in Tables, closed' \in Tables, pool' \in PoolRecord,
         now' \in Nat, calls' \in 0 .. MaxCalls, held' \in [Tokens -> Int],
         Covers(held', vault', balance', closed', position'),
         Ledger', SomebodyElse'
  PROVE  IInv'
BY CoversIff DEF IInv, TypeOK, VaultRecord, PositionRecord, Tables, PoolRecord

LEMMA CalledFacts ==
  ASSUME IInv, Called PROVE now' \in Nat /\ calls' \in 0 .. MaxCalls
BY OasisAssumption DEF IInv, TypeOK, Called

LEMMA MovedFacts ==
  ASSUME IInv, NEW htr \in Int, NEW b \in Int, Moved(htr, b)
  PROVE  /\ held' \in [Tokens -> Int]
         /\ held'[HTR] = held[HTR] + htr /\ held'[B] = held[B] + b
BY StateFacts DEF Moved

\* Nothing of the users, of the vault or of the pool changes.
LEMMA AdminStep ==
  ASSUME IInv, NEW next \in [owner : Users, fee : 0 .. 500, paused : BOOLEAN], Admin(next)
  PROVE  IInv'
BY CalledFacts DEF Admin, IInv, TypeOK, Solvency, Ledger, SomebodyElse, BalanceOf, ClosedOf,
   LiquidityOf

LEMMA TickStep ==
  ASSUME IInv, NEW step \in Steps, Tick(step) PROVE IInv'
<1>1. now' \in Nat BY OasisAssumption DEF Tick, IInv, TypeOK
<1>2. QED BY <1>1 DEF Tick, IInv, TypeOK, Solvency, Ledger, SomebodyElse, BalanceOf, ClosedOf,
             LiquidityOf

LEMMA SwapStep ==
  ASSUME IInv, NEW dHtr \in Int, NEW dB \in Int, Swap(dHtr, dB) PROVE IInv'
<1>1. now' \in Nat /\ calls' \in 0 .. MaxCalls BY CalledFacts DEF Swap
<1>2. pool \in PoolRecord BY StateFacts
<1>3. pool' \in PoolRecord /\ pool'.mine = pool.mine /\ pool'.liquidity = pool.liquidity
  <2>1. pool.htr + dHtr \in Nat \ {0} /\ pool.b + dB \in Nat \ {0}
    BY <1>2 DEF Swap, PoolRecord
  <2>2. PICK h \in Nat \ {0}, b \in Nat \ {0} : h = pool.htr + dHtr /\ b = pool.b + dB
    BY <2>1
  <2>3. pool' = [pool EXCEPT !.htr = h, !.b = b] BY <2>2 DEF Swap
  <2>4. QED BY ONLY <1>2, <2>2, <2>3 DEF PoolRecord
<1>4. SomebodyElse' BY <1>3 DEF IInv, SomebodyElse
<1>5. UNCHANGED <<admin, vault, position, balance, closed, held>> BY DEF Swap
<1>6. QED BY <1>1, <1>3, <1>4, <1>5 DEF IInv, TypeOK, Solvency, Ledger, BalanceOf, ClosedOf,
             LiquidityOf, PoolRecord

\* What somebody gets in a swap is a natural number.
LEMMA SwapOutput ==
  ASSUME NEW in \in Nat, NEW ri \in Nat \ {0}, NEW ro \in Nat
  PROVE  AmountOut(in, ri, ro, PoolFee) \in Int
<1>1. FeeDenominator \in Nat \ {0} /\ FeeDenominator - PoolFee \in Nat
  BY OasisAssumption, DozerMathAssumption
<1>2. PICK net : net = in * (FeeDenominator - PoolFee) OBVIOUS
<1>3. PICK base : base = ri * FeeDenominator OBVIOUS
<1>4. net \in Nat BY <1>1, <1>2, Product
<1>5. base \in Nat /\ base # 0 BY <1>1, <1>3, Product
<1>6. ro * net \in Nat BY <1>4, Product
<1>7. base + net \in Nat \ {0} BY <1>4, <1>5
<1>8. (ro * net) \div (base + net) \in Nat BY <1>6, <1>7, Floor
<1>9. AmountOut(in, ri, ro, PoolFee) = (ro * net) \div (base + net)
  BY <1>2, <1>3 DEF AmountOut
<1>10. QED BY <1>8, <1>9

LEMMA OwnerDepositStep ==
  ASSUME IInv, NEW u \in Users, NEW amount \in Funds, OwnerDeposit(u, amount) PROVE IInv'
<1>1. now' \in Nat /\ calls' \in 0 .. MaxCalls BY CalledFacts DEF OwnerDeposit
<1>2. amount \in Nat BY OasisAssumption
<1>3. held' \in [Tokens -> Int] /\ held'[HTR] = held[HTR] + amount /\ held'[B] = held[B] + 0
  BY <1>2, MovedFacts DEF OwnerDeposit
<1>4. /\ vault' \in VaultRecord /\ vault'.htr = vault.htr + amount
      /\ vault'.liquidity = vault.liquidity
  <2>1. vault \in VaultRecord BY StateFacts
  <2>2. PICK h \in Nat, d \in Int : h = vault.htr + amount /\ d = vault.devDeposit + amount
    BY <1>2, <2>1 DEF OwnerDeposit, VaultRecord
  <2>3. vault' = [vault EXCEPT !.htr = h, !.devDeposit = d] BY <2>2 DEF OwnerDeposit
  <2>4. QED BY ONLY <2>1, <2>2, <2>3 DEF VaultRecord
<1>5. UNCHANGED <<admin, position, balance, closed, pool>> BY DEF OwnerDeposit
<1>6. Covers(held', vault', balance', closed', position')
  BY <1>2, <1>3, <1>4, <1>5, StateFacts DEF Covers, VaultRecord
<1>7. Ledger' /\ SomebodyElse' BY <1>5 DEF IInv, Ledger, SomebodyElse
<1>8. admin' \in [owner : Users, fee : 0 .. 500, paused : BOOLEAN] BY <1>5 DEF IInv, TypeOK
<1>9. QED BY <1>1, <1>3, <1>4, <1>5, <1>6, <1>7, <1>8, StateFacts, Assemble

LEMMA OwnerWithdrawStep ==
  ASSUME IInv, NEW u \in Users, NEW amount \in Funds, OwnerWithdraw(u, amount) PROVE IInv'
<1>1. now' \in Nat /\ calls' \in 0 .. MaxCalls BY CalledFacts DEF OwnerWithdraw
<1>2. amount \in Nat BY OasisAssumption
<1>3. held' \in [Tokens -> Int] /\ held'[HTR] = held[HTR] - amount /\ held'[B] = held[B] + 0
  <2>1. -amount \in Int BY <1>2
  <2>2. Moved(-amount, 0) BY DEF OwnerWithdraw
  <2>3. held'[HTR] = held[HTR] + (-amount) /\ held' \in [Tokens -> Int] /\ held'[B] = held[B] + 0
    BY <2>1, <2>2, MovedFacts
  <2>4. QED BY <1>2, <2>3, StateFacts
<1>4. /\ vault' \in VaultRecord /\ vault'.htr = vault.htr - amount
      /\ vault'.liquidity = vault.liquidity
  <2>1. vault \in VaultRecord BY StateFacts
  <2>2. PICK h \in Nat, d \in Int : h = vault.htr - amount /\ d = vault.devDeposit - amount
    BY <1>2, <2>1 DEF OwnerWithdraw, VaultRecord
  <2>3. vault' = [vault EXCEPT !.htr = h, !.devDeposit = d] BY <2>2 DEF OwnerWithdraw
  <2>4. QED BY ONLY <2>1, <2>2, <2>3 DEF VaultRecord
<1>5. UNCHANGED <<admin, position, balance, closed, pool>> BY DEF OwnerWithdraw
<1>6. Covers(held', vault', balance', closed', position')
  BY <1>2, <1>3, <1>4, <1>5, StateFacts DEF Covers, VaultRecord
<1>7. Ledger' /\ SomebodyElse' BY <1>5 DEF IInv, Ledger, SomebodyElse
<1>8. admin' \in [owner : Users, fee : 0 .. 500, paused : BOOLEAN] BY <1>5 DEF IInv, TypeOK
<1>9. QED BY <1>1, <1>3, <1>4, <1>5, <1>6, <1>7, <1>8, StateFacts, Assemble

\* A credit, negative or not, that the contract's balances follow.
LEMMA CreditStep ==
  ASSUME IInv, NEW u \in Users, NEW htr \in Int, NEW b \in Int,
         balance[u][HTR] + htr \in Nat, balance[u][B] + b \in Nat,
         Called, balance' = Credit(balance, u, htr, b), Moved(htr, b),
         UNCHANGED <<admin, vault, position, closed, pool>>
  PROVE  IInv'
<1>1. now' \in Nat /\ calls' \in 0 .. MaxCalls BY CalledFacts
<1>2. held' \in [Tokens -> Int] /\ held'[HTR] = held[HTR] + htr /\ held'[B] = held[B] + b
  BY MovedFacts
<1>3. balance \in Tables BY StateFacts
<1>4. /\ balance' \in Tables
      /\ Total(balance', HTR) = Total(balance, HTR) + htr
      /\ Total(balance', B) = Total(balance, B) + b
  BY <1>3, CreditTotal
<1>5. Covers(held', vault', balance', closed', position')
  BY <1>2, <1>4, StateFacts DEF Covers, VaultRecord
<1>6. Ledger' /\ SomebodyElse' BY DEF IInv, Ledger, SomebodyElse
<1>7. admin' \in [owner : Users, fee : 0 .. 500, paused : BOOLEAN] BY DEF IInv, TypeOK
<1>8. QED BY <1>1, <1>2, <1>4, <1>5, <1>6, <1>7, StateFacts, Assemble

LEMMA WithdrawBonusStep ==
  ASSUME IInv, NEW u \in Users, NEW amount \in Nat, UserWithdrawBonus(u, amount) PROVE IInv'
<1>1. balance[u][HTR] \in Nat /\ balance[u][B] \in Nat BY StateFacts
<1>2. -amount \in Int /\ balance[u][HTR] + (-amount) \in Nat /\ balance[u][B] + 0 \in Nat
  BY <1>1 DEF UserWithdrawBonus
<1>3. /\ Called /\ balance' = Credit(balance, u, -amount, 0) /\ Moved(-amount, 0)
      /\ UNCHANGED <<admin, vault, position, closed, pool>>
  BY DEF UserWithdrawBonus
<1>4. QED BY <1>2, <1>3, CreditStep

LEMMA WithdrawFeeStep ==
  ASSUME IInv, NEW amount \in Nat, DevWithdrawFee(amount) PROVE IInv'
<1>1. Dev \in Users BY OasisAssumption
<1>2. balance[Dev][HTR] \in Nat /\ balance[Dev][B] \in Nat BY <1>1, StateFacts
<1>3. -amount \in Int /\ balance[Dev][B] + (-amount) \in Nat /\ balance[Dev][HTR] + 0 \in Nat
  BY <1>2 DEF DevWithdrawFee
<1>4. /\ Called /\ balance' = Credit(balance, Dev, 0, -amount) /\ Moved(0, -amount)
      /\ UNCHANGED <<admin, vault, position, closed, pool>>
  BY DEF DevWithdrawFee
<1>5. QED BY <1>1, <1>3, <1>4, CreditStep

\* What u withdraws was closed before, and nothing of it is left when the position ends.
LEMMA WithdrawFacts ==
  ASSUME IInv, NEW u \in Users, NEW htr \in Nat, NEW b \in Nat, UserWithdraw(u, htr, b)
  PROVE  /\ closed' \in Tables
         /\ Total(closed', HTR) = Total(closed, HTR) - htr
         /\ Total(closed', B) = Total(closed, B) - b
         /\ \A v \in Users \ {u} : closed'[v] = closed[v] /\ position'[v] = position[v]
         /\ closed'[u][HTR] = closed[u][HTR] - htr /\ closed'[u][B] = closed[u][B] - b
         /\ position[u].closed /\ position[u].liquidity = 0
         /\ position' \in [Users -> PositionRecord]
         /\ \/ position'[u] = position[u]
            \/ position'[u] = NoPosition /\ closed'[u][HTR] = 0 /\ closed'[u][B] = 0
<1>1. PICK left : left = Pair(closed[u][HTR] - htr, closed[u][B] - b) OBVIOUS
<1>2. /\ htr + b > 0 /\ position[u].liquidity = 0
      /\ left[HTR] >= 0 /\ left[B] >= 0
      /\ closed' = [closed EXCEPT ![u] = left]
      /\ position' = IF Empty(left) THEN [position EXCEPT ![u] = NoPosition] ELSE position
  BY <1>1 DEF UserWithdraw
<1>3. /\ HTR # B /\ HTR \in Tokens /\ B \in Tokens
      /\ closed[u][HTR] \in Nat /\ closed[u][B] \in Nat
      /\ closed \in Tables /\ position \in [Users -> PositionRecord]
      /\ Total(closed, HTR) \in Int /\ Total(closed, B) \in Int
  BY StateFacts
<1>4. left[HTR] = closed[u][HTR] - htr /\ left[B] = closed[u][B] - b
  BY <1>1, <1>3 DEF Pair
<1>5. PICK h \in Nat, c \in Nat : h = closed[u][HTR] - htr /\ c = closed[u][B] - b
  BY <1>2, <1>3, <1>4
<1>6. closed' = Put(closed, u, h, c) BY <1>1, <1>2, <1>5 DEF Put
<1>7. /\ closed' \in Tables
      /\ Total(closed', HTR) = Total(closed, HTR) - closed[u][HTR] + h
      /\ Total(closed', B) = Total(closed, B) - closed[u][B] + c
      /\ \A v \in Users \ {u} : closed'[v] = closed[v]
      /\ closed'[u][HTR] = h /\ closed'[u][B] = c
  <2>1. closed \in Tables BY <1>3
  <2>2. PICK next : next = Put(closed, u, h, c) OBVIOUS
  <2>3. /\ next \in Tables
        /\ Total(next, HTR) = Total(closed, HTR) - closed[u][HTR] + h
        /\ Total(next, B) = Total(closed, B) - closed[u][B] + c
        /\ \A v \in Users \ {u} : next[v] = closed[v]
        /\ next[u][HTR] = h /\ next[u][B] = c
    BY ONLY <2>1, <2>2, u \in Users, h \in Nat, c \in Nat, PutTotal
  <2>4. closed' = next BY <1>6, <2>2
  <2>5. QED BY ONLY <2>3, <2>4
<1>8. /\ Total(closed', HTR) = Total(closed, HTR) - htr
      /\ Total(closed', B) = Total(closed, B) - b
  BY <1>3, <1>5, <1>7
<1>9. position[u].closed
  <2>1. SUFFICES ASSUME ~ position[u].closed PROVE FALSE OBVIOUS
  <2>2. closed[u][HTR] = 0 /\ closed[u][B] = 0 BY <2>1 DEF IInv, Ledger
  <2>3. QED BY <1>2, <1>4, <2>2
<1>10. NoPosition \in PositionRecord BY DEF NoPosition, PositionRecord
<1>11. /\ position' \in [Users -> PositionRecord]
       /\ \A v \in Users \ {u} : position'[v] = position[v]
       /\ position'[u] = position[u] \/ (position'[u] = NoPosition /\ Empty(left))
  <2>1. CASE Empty(left)
    <3>1. PICK none : none = NoPosition OBVIOUS
    <3>2. position' = [position EXCEPT ![u] = none] BY <1>2, <2>1, <3>1
    <3>3. QED BY <1>3, <1>10, <2>1, <3>1, <3>2
  <2>2. CASE ~ Empty(left)
    <3>1. position' = position BY ONLY <1>2, <2>2
    <3>2. QED BY ONLY <1>3, <3>1
  <2>3. QED BY <2>1, <2>2
<1>12. Empty(left) => closed'[u][HTR] = 0 /\ closed'[u][B] = 0
  BY <1>4, <1>5, <1>7 DEF Empty
<1>13. QED BY <1>2, <1>5, <1>7, <1>8, <1>9, <1>11, <1>12

LEMMA WithdrawStep ==
  ASSUME IInv, NEW u \in Users, NEW htr \in Nat, NEW b \in Nat, UserWithdraw(u, htr, b)
  PROVE  IInv'
<1>1. now' \in Nat /\ calls' \in 0 .. MaxCalls BY CalledFacts DEF UserWithdraw
<1>2. held' \in [Tokens -> Int] /\ held'[HTR] = held[HTR] - htr /\ held'[B] = held[B] - b
  <2>1. -htr \in Int /\ -b \in Int /\ Moved(-htr, -b) BY DEF UserWithdraw
  <2>2. /\ held' \in [Tokens -> Int]
        /\ held'[HTR] = held[HTR] + (-htr) /\ held'[B] = held[B] + (-b)
    BY <2>1, MovedFacts
  <2>3. QED BY <2>2, StateFacts
<1>3. UNCHANGED <<admin, vault, balance, pool>> BY DEF UserWithdraw
<1>4. Shares(position') = Shares(position)
  <2>1. NoPosition.liquidity = 0 BY DEF NoPosition
  <2>2. position'[u].liquidity = position[u].liquidity /\ position[u].liquidity = 0
    BY <2>1, WithdrawFacts
  <2>3. \A v \in Users \ {u} : position'[v].liquidity = position[v].liquidity
    BY WithdrawFacts
  <2>4. position \in [Users -> PositionRecord] /\ Shares(position) \in Int BY StateFacts
  <2>5. position' \in [Users -> PositionRecord] BY WithdrawFacts
  <2>6. Shares(position') = Shares(position) - position[u].liquidity + position'[u].liquidity
    BY ONLY <2>3, <2>4, <2>5, u \in Users, SharesUpdate
  <2>7. QED BY <2>2, <2>4, <2>6
<1>5. Covers(held', vault', balance', closed', position')
  BY <1>2, <1>3, <1>4, StateFacts, WithdrawFacts DEF Covers, VaultRecord
<1>6. Ledger'
  <2>1. ASSUME NEW v \in Users
        PROVE  IF position'[v].closed THEN position'[v].liquidity = 0
               ELSE closed'[v][HTR] = 0 /\ closed'[v][B] = 0
    <3>1. CASE v = u
      <4>1. ~ NoPosition.closed BY DEF NoPosition
      <4>2. QED BY <3>1, <4>1, WithdrawFacts
    <3>2. CASE v # u BY <3>2, WithdrawFacts DEF IInv, Ledger
    <3>3. QED BY <3>1, <3>2
  <2>2. QED BY <2>1 DEF Ledger
<1>7. SomebodyElse' BY <1>3 DEF IInv, SomebodyElse
<1>8. admin' \in [owner : Users, fee : 0 .. 500, paused : BOOLEAN] BY <1>3 DEF IInv, TypeOK
<1>9. QED BY <1>1, <1>2, <1>3, <1>5, <1>6, <1>7, <1>8, StateFacts, WithdrawFacts, Assemble

-----------------------------------------------------------------------------
(* close_position.                                                         *)

LEMMA CloseFacts ==
  ASSUME IInv, NEW u \in Users, NEW twap \in Nat, ClosePosition(u, twap)
  PROVE  /\ ~ position[u].closed
         /\ closed' \in Tables /\ balance' \in Tables
         /\ Total(closed', HTR) = Total(closed, HTR) + balance[u][HTR] + Loss(u, twap)
         /\ Total(closed', B) = Total(closed, B) + balance[u][B] + ShareB(u)
         /\ Total(balance', HTR) = Total(balance, HTR) - balance[u][HTR]
         /\ Total(balance', B) = Total(balance, B) - balance[u][B]
         /\ \A v \in Users \ {u} : closed'[v] = closed[v] /\ position'[v] = position[v]
         /\ position' \in [Users -> PositionRecord]
         /\ position'[u].deposit = position[u].deposit
         /\ position'[u].liquidity = 0 /\ position'[u].closed
<1>1. /\ ~ position[u].closed
      /\ closed' = [closed EXCEPT ![u] = Pair(balance[u][HTR] + Loss(u, twap),
                                              balance[u][B] + ShareB(u))]
      /\ balance' = [balance EXCEPT ![u] = Pair(0, 0)]
      /\ position' = [position EXCEPT ![u] =
                        [@ EXCEPT !.liquidity = 0, !.unlock = 0, !.closed = TRUE]]
  BY DEF ClosePosition
<1>2. /\ closed \in Tables /\ balance \in Tables
      /\ balance[u][HTR] \in Nat /\ balance[u][B] \in Nat
      /\ position \in [Users -> PositionRecord] /\ position[u] \in PositionRecord
  BY StateFacts
<1>3. /\ Total(closed, HTR) \in Int /\ Total(closed, B) \in Int
      /\ Total(balance, HTR) \in Int /\ Total(balance, B) \in Int
  BY StateFacts
<1>4. Loss(u, twap) \in Nat /\ ShareB(u) \in Nat BY LossFacts, ShareFacts
<1>5. closed[u][HTR] = 0 /\ closed[u][B] = 0 BY <1>1 DEF IInv, Ledger
<1>6. PICK h \in Nat, c \in Nat : h = balance[u][HTR] + Loss(u, twap)
                                  /\ c = balance[u][B] + ShareB(u)
  BY <1>2, <1>4
<1>7. closed' = Put(closed, u, h, c) BY <1>1, <1>6 DEF Put
<1>8. /\ closed' \in Tables
      /\ Total(closed', HTR) = Total(closed, HTR) - closed[u][HTR] + h
      /\ Total(closed', B) = Total(closed, B) - closed[u][B] + c
      /\ \A v \in Users \ {u} : closed'[v] = closed[v]
  <2>1. closed \in Tables BY <1>2
  <2>2. PICK next : next = Put(closed, u, h, c) OBVIOUS
  <2>3. /\ next \in Tables
        /\ Total(next, HTR) = Total(closed, HTR) - closed[u][HTR] + h
        /\ Total(next, B) = Total(closed, B) - closed[u][B] + c
        /\ \A v \in Users \ {u} : next[v] = closed[v]
    BY ONLY <2>1, <2>2, u \in Users, h \in Nat, c \in Nat, PutTotal
  <2>4. closed' = next BY <1>7, <2>2
  <2>5. QED BY ONLY <2>3, <2>4
<1>9. /\ balance' \in Tables
      /\ Total(balance', HTR) = Total(balance, HTR) - balance[u][HTR] + 0
      /\ Total(balance', B) = Total(balance, B) - balance[u][B] + 0
  <2>1. 0 \in Nat OBVIOUS
  <2>2. balance' = Put(balance, u, 0, 0) BY <1>1 DEF Put
  <2>3. QED BY ONLY <1>2, <2>1, <2>2, u \in Users, PutTotal
<1>10. PICK p : p = [position[u] EXCEPT !.liquidity = 0, !.unlock = 0, !.closed = TRUE]
  OBVIOUS
<1>11. p \in PositionRecord /\ p.liquidity = 0 /\ p.closed /\ p.deposit = position[u].deposit
  BY <1>2, <1>10 DEF PositionRecord
<1>12. position' = [position EXCEPT ![u] = p] BY <1>1, <1>10
<1>13. /\ position' \in [Users -> PositionRecord] /\ position'[u] = p
       /\ \A v \in Users \ {u} : position'[v] = position[v]
  BY <1>2, <1>11, <1>12
<1>14. /\ Total(closed', HTR) = Total(closed, HTR) + balance[u][HTR] + Loss(u, twap)
       /\ Total(closed', B) = Total(closed, B) + balance[u][B] + ShareB(u)
       /\ Total(balance', HTR) = Total(balance, HTR) - balance[u][HTR]
       /\ Total(balance', B) = Total(balance, B) - balance[u][B]
  BY <1>2, <1>3, <1>4, <1>5, <1>6, <1>8, <1>9
<1>15. QED BY <1>1, <1>8, <1>9, <1>11, <1>13, <1>14

LEMMA CloseStep ==
  ASSUME IInv, NEW u \in Users, NEW twap \in Nat, ClosePosition(u, twap) PROVE IInv'
<1>1. now' \in Nat /\ calls' \in 0 .. MaxCalls BY CalledFacts DEF ClosePosition
<1>2. PICK htr \in Nat, b \in Nat, gone \in Nat, loss \in Nat :
        /\ htr = Share(u) /\ b = ShareB(u)
        /\ gone = CeilDiv(pool.liquidity * Share(u), pool.htr)
        /\ loss = Loss(u, twap)
  BY ShareFacts, LossFacts
<1>3. /\ htr < pool.htr /\ b < pool.b /\ gone <= pool.mine /\ loss <= htr
      /\ position[u].liquidity <= vault.liquidity
  <2>1. Share(u) <= MineHtr /\ MineHtr < pool.htr /\ MineHtr \in Nat BY ShareFacts
  <2>2. pool.htr \in Nat BY StateFacts DEF PoolRecord
  <2>3. htr < pool.htr BY <1>2, <2>1, <2>2
  <2>4. QED BY <1>2, <2>3, ShareFacts, LossFacts
<1>4. held' \in [Tokens -> Int] /\ held'[HTR] = held[HTR] + htr /\ held'[B] = held[B] + b
  <2>1. Moved(htr, b) BY <1>2 DEF ClosePosition
  <2>2. QED BY <2>1, MovedFacts
<1>5. pool' = [pool EXCEPT !.htr = @ - htr, !.b = @ - b,
                           !.liquidity = @ - gone, !.mine = @ - gone]
  BY <1>2 DEF ClosePosition
<1>6. /\ pool' \in PoolRecord
      /\ pool'.mine = pool.mine - gone /\ pool'.liquidity = pool.liquidity - gone
  <2>1. pool \in PoolRecord BY StateFacts
  <2>2. pool.mine < pool.liquidity BY DEF IInv, SomebodyElse
  <2>3. PICK h \in Nat \ {0}, c \in Nat \ {0}, l \in Nat \ {0}, m \in Nat :
          /\ h = pool.htr - htr /\ c = pool.b - b
          /\ l = pool.liquidity - gone /\ m = pool.mine - gone
    BY <1>3, <2>1, <2>2 DEF PoolRecord
  <2>4. pool' = [pool EXCEPT !.htr = h, !.b = c, !.liquidity = l, !.mine = m]
    BY <1>5, <2>3
  <2>5. QED BY ONLY <2>1, <2>3, <2>4 DEF PoolRecord
<1>7. /\ vault' \in VaultRecord /\ vault'.htr = vault.htr + htr - loss
      /\ vault'.liquidity = vault.liquidity - position[u].liquidity
  <2>1. vault \in VaultRecord /\ position[u] \in PositionRecord BY StateFacts
  <2>2. PICK h \in Nat, l \in Nat :
          h = vault.htr + (htr - loss) /\ l = vault.liquidity - position[u].liquidity
    BY <1>3, <2>1 DEF VaultRecord, PositionRecord
  <2>3. vault' = [vault EXCEPT !.htr = h, !.liquidity = l]
    BY <1>2, <2>2 DEF ClosePosition, Returned
  <2>4. vault' \in VaultRecord /\ vault'.htr = h /\ vault'.liquidity = l
    BY ONLY <2>1, <2>2, <2>3 DEF VaultRecord
  <2>5. vault.htr \in Nat BY <2>1 DEF VaultRecord
  <2>6. QED BY <2>2, <2>4, <2>5
<1>8. Shares(position') = Shares(position) - position[u].liquidity
  <2>1. \A v \in Users \ {u} : position'[v].liquidity = position[v].liquidity BY CloseFacts
  <2>2. position \in [Users -> PositionRecord] /\ Shares(position) \in Int
        /\ position[u] \in PositionRecord
    BY StateFacts
  <2>3. position' \in [Users -> PositionRecord] /\ position'[u].liquidity = 0 BY CloseFacts
  <2>4. Shares(position') = Shares(position) - position[u].liquidity + position'[u].liquidity
    BY ONLY <2>1, <2>2, <2>3, u \in Users, SharesUpdate
  <2>5. QED BY <2>2, <2>3, <2>4 DEF PositionRecord
<1>9. Covers(held', vault', balance', closed', position')
  <2>1. /\ Total(closed', HTR) = Total(closed, HTR) + balance[u][HTR] + loss
        /\ Total(closed', B) = Total(closed, B) + balance[u][B] + b
        /\ Total(balance', HTR) = Total(balance, HTR) - balance[u][HTR]
        /\ Total(balance', B) = Total(balance, B) - balance[u][B]
    BY <1>2, CloseFacts
  <2>2. /\ Total(closed, HTR) \in Int /\ Total(closed, B) \in Int
        /\ Total(balance, HTR) \in Int /\ Total(balance, B) \in Int
        /\ balance[u][HTR] \in Nat /\ balance[u][B] \in Nat
        /\ vault.htr \in Nat
    BY StateFacts DEF VaultRecord
  <2>3. Covers(held, vault, balance, closed, position) BY StateFacts
  <2>4. held'[HTR] = vault'.htr + Total(balance', HTR) + Total(closed', HTR)
    BY <1>4, <1>7, <2>1, <2>2, <2>3 DEF Covers
  <2>5. held'[B] = Total(balance', B) + Total(closed', B)
    BY <1>4, <2>1, <2>2, <2>3 DEF Covers
  <2>6. vault'.liquidity = Shares(position') BY <1>7, <1>8, <2>3 DEF Covers
  <2>7. QED BY <2>4, <2>5, <2>6 DEF Covers
<1>10. Ledger'
  <2>1. ASSUME NEW v \in Users
        PROVE  IF position'[v].closed THEN position'[v].liquidity = 0
               ELSE closed'[v][HTR] = 0 /\ closed'[v][B] = 0
    <3>1. CASE v = u BY <3>1, CloseFacts
    <3>2. CASE v # u BY <3>2, CloseFacts DEF IInv, Ledger
    <3>3. QED BY <3>1, <3>2
  <2>2. QED BY <2>1 DEF Ledger
<1>11. SomebodyElse'
  <2>1. pool.mine < pool.liquidity BY DEF IInv, SomebodyElse
  <2>2. pool.mine \in Nat /\ pool.liquidity \in Nat BY StateFacts DEF PoolRecord
  <2>3. QED BY <1>6, <2>1, <2>2 DEF SomebodyElse
<1>12. admin' \in [owner : Users, fee : 0 .. 500, paused : BOOLEAN]
  BY DEF ClosePosition, IInv, TypeOK
<1>13. QED BY <1>1, <1>4, <1>6, <1>7, <1>9, <1>10, <1>11, <1>12, CloseFacts, Assemble

-----------------------------------------------------------------------------
(* user_deposit.                                                           *)

\* A lock that is prolonged is at least the average of both, and four months.
LEMMA UnlockFacts ==
  ASSUME IInv, NEW u \in Users, NEW months \in Timelocks, NEW net \in Nat \ {0}
  PROVE  /\ NewUnlock(u, months, net) \in Nat
         /\ position[u].unlock - now > 0 =>
              /\ NewUnlock(u, months, net) >= now + 4 * Month
              /\ (NewUnlock(u, months, net) - now) * (position[u].deposit + net)
                   >= (position[u].unlock - now) * position[u].deposit + months * Month * net
<1>1. PICK unlock \in Nat, deposit \in Nat, time \in Nat, month \in Nat, n \in Nat :
        /\ unlock = position[u].unlock /\ deposit = position[u].deposit
        /\ time = now /\ month = Month /\ n = months
  BY StateFacts, OasisAssumption DEF IInv, TypeOK, PositionRecord, Timelocks
<1>2. PICK new : new = NewUnlock(u, months, net) OBVIOUS
<1>3. PICK rest \in Int : rest = unlock - time BY <1>1
<1>4. PICK average : average = (rest * deposit + n * month * net) \div (deposit + net)
  OBVIOUS
<1>5. n * month \in Nat BY <1>1, Product
<1>6. new = IF unlock = 0 \/ rest <= 0 THEN time + n * month
            ELSE IF time + average + 1 < time + 4 * month THEN time + 4 * month
            ELSE time + average + 1
  BY <1>1, <1>2, <1>3, <1>4 DEF NewUnlock, WeightedAverage
<1>7. CASE unlock = 0 \/ rest <= 0
  <2>1. new = time + n * month BY ONLY <1>6, <1>7
  <2>2. new \in Nat BY <1>5, <2>1
  <2>3. ~ (unlock - time > 0) BY <1>3, <1>7
  <2>4. QED BY <1>1, <1>2, <2>2, <2>3
<1>8. CASE ~ (unlock = 0 \/ rest <= 0)
  <2>1. rest \in Nat BY <1>3, <1>8
  <2>2. PICK x \in Nat : x = rest * deposit BY <2>1, Product
  <2>3. PICK y \in Nat : y = n * month * net BY <1>5, Product
  <2>4. PICK w \in Nat \ {0} : w = deposit + net OBVIOUS
  <2>5. average = (x + y) \div w BY <1>4, <2>2, <2>3, <2>4
  <2>6. /\ average \in Nat /\ x + y < (average + 1) * w BY <2>5, Floor
  <2>7. new = IF time + average + 1 < time + 4 * month THEN time + 4 * month
              ELSE time + average + 1
    BY ONLY <1>6, <1>8
  <2>8. PICK lock \in Nat : lock = new - time /\ average + 1 <= lock /\ 4 * month <= lock
                            /\ new = time + lock
    <3>1. 4 * month \in Nat BY SMT
    <3>2. CASE time + average + 1 < time + 4 * month BY <2>6, <2>7, <3>1, <3>2
    <3>3. CASE ~ (time + average + 1 < time + 4 * month) BY <2>6, <2>7, <3>1, <3>3
    <3>4. QED BY <3>2, <3>3
  <2>9. (average + 1) * w <= lock * w BY <2>6, <2>8, AtMostTimes
  <2>10. lock * w \in Nat /\ (average + 1) * w \in Nat BY <2>6, Product
  <2>11. lock * w >= x + y BY <2>6, <2>9, <2>10
  <2>12. new \in Nat /\ new >= time + 4 * month BY <2>8
  <2>13. (new - time) * (deposit + net) >= rest * deposit + n * month * net
    BY ONLY <2>2, <2>3, <2>4, <2>8, <2>11
  <2>14. QED BY ONLY <1>1, <1>2, <1>3, <2>12, <2>13
<1>9. QED BY <1>7, <1>8

LEMMA LiquidityType ==
  ASSUME IInv, NEW net \in Nat, vault.liquidity = 0 \/ MineB > 0
  PROVE  LiquidityFor(net) \in Nat
<1>1. pool \in PoolRecord /\ vault \in VaultRecord BY StateFacts
<1>2. MineB \in Nat
  <2>1. pool.b * pool.mine \in Nat BY <1>1, Product DEF PoolRecord
  <2>2. pool.liquidity \in Nat \ {0} BY <1>1 DEF PoolRecord
  <2>3. QED BY <2>1, <2>2, Floor DEF MineB
<1>3. CASE vault.liquidity = 0
  <2>1. net * Precision \in Nat BY DozerMathAssumption, Product
  <2>2. QED BY <1>3, <2>1 DEF LiquidityFor
<1>4. CASE vault.liquidity # 0
  <2>1. MineB \in Nat \ {0} BY <1>2, <1>4
  <2>2. vault.liquidity * net \in Nat BY <1>1, Product DEF VaultRecord
  <2>3. (vault.liquidity * net) \div MineB \in Nat BY <2>1, <2>2, Floor
  <2>4. QED BY <1>4, <2>3 DEF LiquidityFor
<1>5. QED BY <1>3, <1>4

LEMMA BonusType ==
  ASSUME NEW net \in Nat, NEW twap \in Nat, NEW months \in Timelocks
  PROVE  Bonus(net, twap, months) \in Nat
<1>1. PICK m \in Nat : m = Multiplier[months] BY DEF Multiplier, Timelocks
<1>2. PICK x \in Nat : x = net * twap BY Product
<1>3. PICK y \in Nat : y = x \div PricePrecision BY DozerMathAssumption, Floor
<1>4. PICK z \in Nat : z = y * m BY Product
<1>5. z \div 10000 \in Nat BY Floor
<1>6. QED BY <1>1, <1>2, <1>3, <1>4, <1>5 DEF Bonus

\* The amounts of a deposit, named once.
Entered(u, amount, months, fee, net, htr, bonus, enters, minted, liquidity, unlock) ==
  /\ fee + net = amount /\ enters <= net /\ htr + bonus <= vault.htr
  /\ unlock = NewUnlock(u, months, net)
  /\ htr = Quote(net, pool.b, pool.htr) /\ minted = (pool.liquidity * htr) \div pool.htr
  /\ liquidity = LiquidityFor(net) /\ (vault.liquidity = 0 \/ MineB > 0)
  /\ ~ position[u].closed
  /\ position' = [position EXCEPT ![u] = Larger(position[u], net, liquidity, unlock)]
  /\ vault' = [vault EXCEPT !.htr = @ - bonus - htr, !.liquidity = @ + liquidity]
  /\ balance' = Credit(Credit(balance, Dev, 0, fee), u, bonus, net - enters)
  /\ pool' = [pool EXCEPT !.htr = @ + htr, !.b = @ + enters,
                          !.liquidity = @ + minted, !.mine = @ + minted]
  /\ Moved(-htr, amount - enters)

LEMMA DepositFacts ==
  ASSUME IInv, NEW u \in Users, NEW amount \in Nat, NEW months \in Timelocks, NEW twap \in Nat,
         UserDeposit(u, amount, months, twap)
  PROVE  \E fee \in Nat, net \in Nat \ {0}, htr \in Nat, bonus \in Nat, enters \in Nat,
            minted \in Nat, liquidity \in Nat, unlock \in Nat :
           Entered(u, amount, months, fee, net, htr, bonus, enters, minted, liquidity, unlock)
<1>1. PICK fee : fee = CeilDiv(amount * admin.fee, 1000) OBVIOUS
<1>2. PICK net : net = amount - fee OBVIOUS
<1>3. PICK htr : htr = Quote(net, pool.b, pool.htr) OBVIOUS
<1>4. PICK bonus : bonus = Bonus(net, twap, months) OBVIOUS
<1>5. PICK enters : enters = Quote(htr, pool.htr, pool.b) OBVIOUS
<1>6. PICK minted : minted = (pool.liquidity * htr) \div pool.htr OBVIOUS
<1>7. PICK liquidity : liquidity = LiquidityFor(net) OBVIOUS
<1>8. PICK unlock : unlock = NewUnlock(u, months, net) OBVIOUS
<1>9. /\ net > 0 /\ htr > 0 /\ htr + bonus <= vault.htr
      /\ vault.liquidity = 0 \/ MineB > 0
      /\ enters <= net /\ ~ position[u].closed
      /\ position' = [position EXCEPT ![u] = Larger(position[u], net, liquidity, unlock)]
      /\ vault' = [vault EXCEPT !.htr = @ - bonus - htr, !.liquidity = @ + liquidity]
      /\ balance' = Credit(Credit(balance, Dev, 0, fee), u, bonus, net - enters)
      /\ pool' = [pool EXCEPT !.htr = @ + htr, !.b = @ + enters,
                              !.liquidity = @ + minted, !.mine = @ + minted]
      /\ Moved(-htr, amount - enters)
  BY <1>1, <1>2, <1>3, <1>4, <1>5, <1>6, <1>7, <1>8 DEF UserDeposit, MayDeposit
<1>10. /\ pool.htr \in Nat \ {0} /\ pool.b \in Nat \ {0} /\ pool.liquidity \in Nat
  BY StateFacts DEF PoolRecord
<1>11. fee \in Nat
  <2>1. admin.fee \in Nat BY DEF IInv, TypeOK
  <2>2. amount * admin.fee \in Nat BY <2>1, Product
  <2>3. QED BY <1>1, <2>2, Ceil
<1>12. net \in Nat \ {0} /\ fee + net = amount BY <1>2, <1>9, <1>11
<1>13. htr \in Nat
  <2>1. net * pool.htr \in Nat BY <1>10, <1>12, Product
  <2>2. (net * pool.htr) \div pool.b \in Nat BY <1>10, <2>1, Floor
  <2>3. QED BY <1>3, <2>2 DEF Quote
<1>14. bonus \in Nat BY <1>4, <1>12, BonusType
<1>15. enters \in Nat
  <2>1. htr * pool.b \in Nat BY <1>10, <1>13, Product
  <2>2. (htr * pool.b) \div pool.htr \in Nat BY <1>10, <2>1, Floor
  <2>3. QED BY <1>5, <2>2 DEF Quote
<1>16. minted \in Nat
  <2>1. pool.liquidity * htr \in Nat BY <1>10, <1>13, Product
  <2>2. QED BY <1>6, <1>10, <2>1, Floor
<1>17. liquidity \in Nat BY <1>7, <1>9, <1>12, LiquidityType
<1>18. unlock \in Nat BY <1>8, <1>12, UnlockFacts
<1>19. Entered(u, amount, months, fee, net, htr, bonus, enters, minted, liquidity, unlock)
  BY <1>3, <1>6, <1>7, <1>8, <1>9, <1>12 DEF Entered
<1>20. QED BY ONLY <1>11, <1>12, <1>13, <1>14, <1>15, <1>16, <1>17, <1>18, <1>19

LEMMA DepositStep ==
  ASSUME IInv, NEW u \in Users, NEW amount \in Nat, NEW months \in Timelocks, NEW twap \in Nat,
         UserDeposit(u, amount, months, twap)
  PROVE  IInv'
<1>1. PICK fee \in Nat, net \in Nat \ {0}, htr \in Nat, bonus \in Nat, enters \in Nat,
           minted \in Nat, liquidity \in Nat, unlock \in Nat :
        Entered(u, amount, months, fee, net, htr, bonus, enters, minted, liquidity, unlock)
  BY DepositFacts
<1>2. now' \in Nat /\ calls' \in 0 .. MaxCalls BY CalledFacts DEF UserDeposit
<1>3. UNCHANGED <<admin, closed>> BY DEF UserDeposit
<1>4. held' \in [Tokens -> Int] /\ held'[HTR] = held[HTR] - htr
      /\ held'[B] = held[B] + amount - enters
  <2>1. PICK h \in Int, b \in Int : h = -htr /\ b = amount - enters OBVIOUS
  <2>2. Moved(h, b) BY <1>1, <2>1 DEF Entered
  <2>3. held' \in [Tokens -> Int] /\ held'[HTR] = held[HTR] + h /\ held'[B] = held[B] + b
    BY <2>2, MovedFacts
  <2>4. held[HTR] \in Int /\ held[B] \in Int BY StateFacts
  <2>5. QED BY <2>1, <2>3, <2>4
<1>5. /\ balance' \in Tables
      /\ Total(balance', HTR) = Total(balance, HTR) + bonus
      /\ Total(balance', B) = Total(balance, B) + fee + (net - enters)
  <2>1. PICK mid : mid = Credit(balance, Dev, 0, fee) OBVIOUS
  <2>2. PICK rest \in Nat : rest = net - enters BY <1>1 DEF Entered
  <2>3. /\ balance \in Tables /\ Dev \in Users
        /\ balance[Dev][HTR] + 0 \in Nat /\ balance[Dev][B] + fee \in Nat
        /\ HTR \in Tokens /\ B \in Tokens
        /\ Total(balance, HTR) \in Int /\ Total(balance, B) \in Int
    BY StateFacts, OasisAssumption
  <2>4. /\ mid \in Tables /\ Total(mid, HTR) = Total(balance, HTR) + 0
        /\ Total(mid, B) = Total(balance, B) + fee
    <3>1. 0 \in Int /\ fee \in Int OBVIOUS
    <3>2. QED BY ONLY <2>1, <2>3, <3>1, CreditTotal
  <2>5. mid[u][HTR] + bonus \in Nat /\ mid[u][B] + rest \in Nat
    BY <2>2, <2>3, <2>4 DEF Tables
  <2>6. balance' = Credit(mid, u, bonus, rest) BY <1>1, <2>1, <2>2 DEF Entered
  <2>7. PICK next : next = Credit(mid, u, bonus, rest) OBVIOUS
  <2>8. /\ next \in Tables /\ Total(next, HTR) = Total(mid, HTR) + bonus
        /\ Total(next, B) = Total(mid, B) + rest
    <3>1. bonus \in Int /\ rest \in Int OBVIOUS
    <3>2. QED BY ONLY <2>4, <2>5, <2>7, <3>1, u \in Users, CreditTotal
  <2>9. QED BY ONLY <2>2, <2>3, <2>4, <2>6, <2>7, <2>8
<1>6. /\ pool' \in PoolRecord
      /\ pool'.mine = pool.mine + minted /\ pool'.liquidity = pool.liquidity + minted
  <2>1. pool \in PoolRecord BY StateFacts
  <2>2. PICK h \in Nat \ {0}, c \in Nat \ {0}, l \in Nat \ {0}, m \in Nat :
          /\ h = pool.htr + htr /\ c = pool.b + enters
          /\ l = pool.liquidity + minted /\ m = pool.mine + minted
    BY <2>1 DEF PoolRecord
  <2>3. pool' = [pool EXCEPT !.htr = h, !.b = c, !.liquidity = l, !.mine = m]
    BY <1>1, <2>2 DEF Entered
  <2>4. QED BY ONLY <2>1, <2>2, <2>3 DEF PoolRecord
<1>7. /\ vault' \in VaultRecord /\ vault'.htr = vault.htr - bonus - htr
      /\ vault'.liquidity = vault.liquidity + liquidity
  <2>1. vault \in VaultRecord BY StateFacts
  <2>2. PICK h \in Nat, l \in Nat :
          h = vault.htr - bonus - htr /\ l = vault.liquidity + liquidity
    BY <1>1, <2>1 DEF VaultRecord, Entered
  <2>3. vault' = [vault EXCEPT !.htr = h, !.liquidity = l] BY <1>1, <2>2 DEF Entered
  <2>4. vault' \in VaultRecord /\ vault'.htr = h /\ vault'.liquidity = l
    BY ONLY <2>1, <2>2, <2>3 DEF VaultRecord
  <2>5. QED BY ONLY <2>2, <2>4
<1>8. /\ position' \in [Users -> PositionRecord]
      /\ \A v \in Users \ {u} : position'[v] = position[v]
      /\ position'[u].liquidity = position[u].liquidity + liquidity
      /\ ~ position'[u].closed
  <2>1. position[u] \in PositionRecord /\ position \in [Users -> PositionRecord]
    BY StateFacts
  <2>2. PICK d \in Nat, l \in Nat :
          d = position[u].deposit + net /\ l = position[u].liquidity + liquidity
    BY <2>1 DEF PositionRecord
  <2>3. PICK p : p = Larger(position[u], net, liquidity, unlock) OBVIOUS
  <2>4. p \in PositionRecord /\ p.liquidity = l /\ p.closed = position[u].closed
    <3>1. p = [position[u] EXCEPT !.deposit = d, !.liquidity = l, !.unlock = unlock]
      BY <2>2, <2>3 DEF Larger
    <3>2. QED BY ONLY <2>1, <2>2, <3>1, unlock \in Nat DEF PositionRecord
  <2>5. position' = [position EXCEPT ![u] = p] BY <1>1, <2>3 DEF Entered
  <2>6. /\ position' \in [Users -> PositionRecord] /\ position'[u] = p
        /\ \A v \in Users \ {u} : position'[v] = position[v]
    BY ONLY <2>1, <2>4, <2>5, u \in Users
  <2>7. QED BY <1>1, <2>2, <2>4, <2>6 DEF Entered
<1>9. Shares(position') = Shares(position) + liquidity
  <2>1. \A v \in Users \ {u} : position'[v].liquidity = position[v].liquidity BY <1>8
  <2>2. position \in [Users -> PositionRecord] /\ Shares(position) \in Int
        /\ position[u].liquidity \in Nat
    BY StateFacts DEF PositionRecord
  <2>3. position' \in [Users -> PositionRecord] BY <1>8
  <2>4. Shares(position') = Shares(position) - position[u].liquidity + position'[u].liquidity
    BY ONLY <2>1, <2>2, <2>3, u \in Users, SharesUpdate
  <2>5. position'[u].liquidity = position[u].liquidity + liquidity BY <1>8
  <2>6. QED BY <2>2, <2>4, <2>5
<1>10. Covers(held', vault', balance', closed', position')
  <2>1. /\ Total(closed, HTR) \in Int /\ Total(closed, B) \in Int
        /\ Total(balance, HTR) \in Int /\ Total(balance, B) \in Int
        /\ vault.htr \in Nat
    BY StateFacts DEF VaultRecord
  <2>2. Covers(held, vault, balance, closed, position) BY StateFacts
  <2>3. held'[HTR] = vault'.htr + Total(balance', HTR) + Total(closed', HTR)
    BY <1>3, <1>4, <1>5, <1>7, <2>1, <2>2 DEF Covers
  <2>4. held'[B] = Total(balance', B) + Total(closed', B)
    BY <1>1, <1>3, <1>4, <1>5, <2>1, <2>2 DEF Covers, Entered
  <2>5. vault'.liquidity = Shares(position') BY <1>7, <1>9, <2>2 DEF Covers
  <2>6. QED BY <2>3, <2>4, <2>5 DEF Covers
<1>11. Ledger'
  <2>1. ASSUME NEW v \in Users
        PROVE  IF position'[v].closed THEN position'[v].liquidity = 0
               ELSE closed'[v][HTR] = 0 /\ closed'[v][B] = 0
    <3>1. CASE v = u BY <1>1, <1>3, <1>8, <3>1 DEF IInv, Ledger, Entered
    <3>2. CASE v # u BY <1>3, <1>8, <3>2 DEF IInv, Ledger
    <3>3. QED BY <3>1, <3>2
  <2>2. QED BY <2>1 DEF Ledger
<1>12. SomebodyElse'
  <2>1. pool.mine < pool.liquidity BY DEF IInv, SomebodyElse
  <2>2. pool.mine \in Nat /\ pool.liquidity \in Nat BY StateFacts DEF PoolRecord
  <2>3. QED BY <1>6, <2>1, <2>2 DEF SomebodyElse
<1>13. admin' \in [owner : Users, fee : 0 .. 500, paused : BOOLEAN]
  BY <1>3 DEF IInv, TypeOK
<1>14. closed' \in Tables BY <1>3, StateFacts
<1>15. QED BY <1>2, <1>4, <1>5, <1>6, <1>7, <1>8, <1>10, <1>11, <1>12, <1>13, <1>14, Assemble

-----------------------------------------------------------------------------
(* Every step.                                                             *)

\* A step by its action; what users pass is a natural number.
StepOf ==
  \/ UNCHANGED vars
  \/ \E u \in Users, amount \in Nat, months \in Timelocks, twap \in Nat :
       UserDeposit(u, amount, months, twap)
  \/ \E u \in Users, twap \in Nat : ClosePosition(u, twap)
  \/ \E u \in Users, htr \in Nat, b \in Nat : UserWithdraw(u, htr, b)
  \/ \E u \in Users, amount \in Nat : UserWithdrawBonus(u, amount)
  \/ \E u \in Users, amount \in Funds : OwnerDeposit(u, amount)
  \/ \E u \in Users, amount \in Funds : OwnerWithdraw(u, amount)
  \/ \E amount \in Nat : DevWithdrawFee(amount)
  \/ \E next \in [owner : Users, fee : 0 .. 500, paused : BOOLEAN] : Admin(next)
  \/ \E dHtr \in Int, dB \in Int : Swap(dHtr, dB)
  \/ \E step \in Steps : Tick(step)

LEMMA StepIsOne == IInv /\ [Next]_vars => StepOf
<1> SUFFICES ASSUME IInv, [Next]_vars PROVE StepOf OBVIOUS
<1>1. CASE UNCHANGED vars BY <1>1 DEF StepOf
<1>2. CASE UserNext
  <2>1. PICK u \in Users :
          \/ \E amount \in Amounts, months \in Timelocks, twap \in Twaps :
               UserDeposit(u, amount, months, twap)
          \/ \E twap \in Twaps : ClosePosition(u, twap)
          \/ \E htr \in Withdrawals \cup {closed[u][HTR]}, b \in Withdrawals \cup {closed[u][B]} :
               UserWithdraw(u, htr, b)
          \/ \E amount \in Withdrawals \cup {balance[u][HTR]} : UserWithdrawBonus(u, amount)
    BY <1>2 DEF UserNext
  <2>2. Amounts \subseteq Nat /\ Twaps \subseteq Nat /\ Withdrawals \subseteq Nat
    BY OasisAssumption
  <2>3. /\ Withdrawals \cup {closed[u][HTR]} \subseteq Nat
        /\ Withdrawals \cup {closed[u][B]} \subseteq Nat
        /\ Withdrawals \cup {balance[u][HTR]} \subseteq Nat
    BY <2>2, StateFacts
  <2>4. ASSUME NEW amount \in Amounts, NEW months \in Timelocks, NEW twap \in Twaps,
               UserDeposit(u, amount, months, twap)
        PROVE  StepOf
    BY <2>2, <2>4 DEF StepOf
  <2>5. ASSUME NEW twap \in Twaps, ClosePosition(u, twap) PROVE StepOf
    BY <2>2, <2>5 DEF StepOf
  <2>6. ASSUME NEW htr \in Nat, NEW b \in Nat, UserWithdraw(u, htr, b) PROVE StepOf
    BY <2>6 DEF StepOf
  <2>7. ASSUME NEW amount \in Nat, UserWithdrawBonus(u, amount) PROVE StepOf
    BY <2>7 DEF StepOf
  <2>8. QED BY ONLY <2>1, <2>3, <2>4, <2>5, <2>6, <2>7
<1>3. CASE AdminNext
  <2>1. admin \in [owner : Users, fee : 0 .. 500, paused : BOOLEAN] BY DEF IInv, TypeOK
  <2>2. ASSUME NEW amount \in Withdrawals, DevWithdrawFee(amount) PROVE StepOf
    BY <2>2, OasisAssumption DEF StepOf
  <2>3. ASSUME NEW next \in [owner : Users, fee : 0 .. 500, paused : BOOLEAN], Admin(next)
        PROVE  StepOf
    BY <2>3 DEF StepOf
  <2>4. ASSUME NEW fee \in Fees, UpdateProtocolFee(fee) PROVE StepOf
    <3>1. [admin EXCEPT !.fee = fee] \in [owner : Users, fee : 0 .. 500, paused : BOOLEAN]
      BY <2>1, <2>4 DEF UpdateProtocolFee
    <3>2. QED BY <2>3, <2>4, <3>1 DEF UpdateProtocolFee
  <2>5. ASSUME NEW u \in Users, NEW v \in Users, UpdateOwnerAddress(u, v) PROVE StepOf
    <3>1. [admin EXCEPT !.owner = v] \in [owner : Users, fee : 0 .. 500, paused : BOOLEAN]
      BY <2>1
    <3>2. QED BY <2>3, <2>5, <3>1 DEF UpdateOwnerAddress
  <2>6. ASSUME Pause \/ Unpause PROVE StepOf
    <3>1. /\ [admin EXCEPT !.paused = TRUE] \in [owner : Users, fee : 0 .. 500, paused : BOOLEAN]
          /\ [admin EXCEPT !.paused = FALSE] \in [owner : Users, fee : 0 .. 500, paused : BOOLEAN]
      BY <2>1
    <3>2. QED BY <2>3, <2>6, <3>1 DEF Pause, Unpause
  <2>7. ASSUME NEW u \in Users, NEW amount \in Funds,
               OwnerDeposit(u, amount) \/ OwnerWithdraw(u, amount)
        PROVE  StepOf
    BY <2>7 DEF StepOf
  <2>8. QED BY <1>3, <2>2, <2>4, <2>5, <2>6, <2>7 DEF AdminNext
<1>4. ASSUME NEW in \in Swaps, SwapHtr(in) \/ SwapB(in) PROVE StepOf
  <2>1. /\ in \in Nat /\ pool.htr \in Nat \ {0} /\ pool.b \in Nat \ {0}
    BY OasisAssumption, StateFacts DEF PoolRecord
  <2>2. /\ AmountOut(in, pool.htr, pool.b, PoolFee) \in Int
        /\ AmountOut(in, pool.b, pool.htr, PoolFee) \in Int
    BY <2>1, SwapOutput
  <2>3. ASSUME NEW dHtr \in Int, NEW dB \in Int, Swap(dHtr, dB) PROVE StepOf
    BY <2>3 DEF StepOf
  <2>4. /\ in \in Int /\ -AmountOut(in, pool.htr, pool.b, PoolFee) \in Int
        /\ -AmountOut(in, pool.b, pool.htr, PoolFee) \in Int
    BY <2>1, <2>2
  <2>5. QED BY <1>4, <2>3, <2>4 DEF SwapHtr, SwapB
<1>5. ASSUME NEW step \in Steps, Tick(step) PROVE StepOf BY <1>5 DEF StepOf
<1>6. QED BY <1>1, <1>2, <1>3, <1>4, <1>5 DEF Next

LEMMA Inductive == IInv /\ [Next]_vars => IInv'
<1> SUFFICES ASSUME IInv, [Next]_vars PROVE IInv' OBVIOUS
<1>1. StepOf BY StepIsOne
<1>2. CASE UNCHANGED vars
  BY <1>2 DEF vars, IInv, TypeOK, Solvency, Ledger, SomebodyElse, BalanceOf, ClosedOf, LiquidityOf
<1>3. CASE \E u \in Users, amount \in Nat, months \in Timelocks, twap \in Nat :
             UserDeposit(u, amount, months, twap)
  BY <1>3, DepositStep
<1>4. CASE \E u \in Users, twap \in Nat : ClosePosition(u, twap) BY <1>4, CloseStep
<1>5. CASE \E u \in Users, htr \in Nat, b \in Nat : UserWithdraw(u, htr, b)
  BY <1>5, WithdrawStep
<1>6. CASE \E u \in Users, amount \in Nat : UserWithdrawBonus(u, amount)
  BY <1>6, WithdrawBonusStep
<1>7. CASE \E u \in Users, amount \in Funds : OwnerDeposit(u, amount) BY <1>7, OwnerDepositStep
<1>8. CASE \E u \in Users, amount \in Funds : OwnerWithdraw(u, amount)
  BY <1>8, OwnerWithdrawStep
<1>9. CASE \E amount \in Nat : DevWithdrawFee(amount) BY <1>9, WithdrawFeeStep
<1>10. CASE \E next \in [owner : Users, fee : 0 .. 500, paused : BOOLEAN] : Admin(next)
  BY <1>10, AdminStep
<1>11. CASE \E dHtr \in Int, dB \in Int : Swap(dHtr, dB) BY <1>11, SwapStep
<1>12. CASE \E step \in Steps : Tick(step) BY <1>12, TickStep
<1>13. QED BY <1>1, <1>2, <1>3, <1>4, <1>5, <1>6, <1>7, <1>8, <1>9, <1>10, <1>11, <1>12 DEF StepOf

-----------------------------------------------------------------------------
(* Action properties, of one user.                                         *)

LockKept(u) ==
  LET p == position[u]
      q == position'[u]
      remaining == p.unlock - now
  IN  q.deposit > p.deposit /\ remaining > 0 =>
        /\ q.unlock >= now + 4 * Month
        /\ \E months \in Timelocks :
             (q.unlock - now) * q.deposit
               >= remaining * p.deposit + months * Month * (q.deposit - p.deposit)

ClosedKept(u) ==
  position[u].closed =>
    /\ \A t \in Tokens : closed[u][t] - closed'[u][t] = 0
                         \/ (closed'[u][t] < closed[u][t]
                             /\ closed[u][t] - closed'[u][t] = held[t] - held'[t])
    /\ ~position'[u].closed => closed'[u] = Pair(0, 0)

\* Only a deposit makes a deposit larger.
LEMMA LockSame ==
  ASSUME IInv, NEW u \in Users, position'[u].deposit <= position[u].deposit,
         position'[u].deposit \in Nat
  PROVE  LockKept(u)
<1>1. position[u].deposit \in Nat BY StateFacts DEF PositionRecord
<1>2. ~ (position'[u].deposit > position[u].deposit) BY <1>1
<1>3. QED BY <1>2 DEF LockKept

LEMMA LockDeposit ==
  ASSUME IInv, NEW u \in Users, NEW amount \in Nat, NEW months \in Timelocks, NEW twap \in Nat,
         UserDeposit(u, amount, months, twap), NEW v \in Users
  PROVE  LockKept(v)
<1>1. PICK fee \in Nat, net \in Nat \ {0}, htr \in Nat, bonus \in Nat, enters \in Nat,
           minted \in Nat, liquidity \in Nat, unlock \in Nat :
        Entered(u, amount, months, fee, net, htr, bonus, enters, minted, liquidity, unlock)
  BY DepositFacts
<1>2. position \in [Users -> PositionRecord] /\ position[u] \in PositionRecord
      /\ position[v].deposit \in Nat
  BY StateFacts DEF PositionRecord
<1>3. PICK p : p = Larger(position[u], net, liquidity, unlock) OBVIOUS
<1>4. p.deposit = position[u].deposit + net /\ p.unlock = unlock
  BY <1>2, <1>3 DEF Larger, PositionRecord
<1>5. position' = [position EXCEPT ![u] = p] BY <1>1, <1>3 DEF Entered
<1>6. position'[u] = p /\ \A w \in Users \ {u} : position'[w] = position[w]
  BY ONLY <1>2, <1>5, u \in Users
<1>7. CASE v # u
  <2>1. position'[v] = position[v] BY <1>6, <1>7
  <2>2. QED BY <1>2, <2>1, LockSame
<1>8. CASE v = u
  <2>1. PICK q : q = position'[u] OBVIOUS
  <2>2. q.deposit = position[u].deposit + net /\ q.unlock = NewUnlock(u, months, net)
    BY <1>1, <1>4, <1>6, <2>1 DEF Entered
  <2>3. position[u].deposit \in Nat BY <1>2 DEF PositionRecord
  <2>4. q.deposit - position[u].deposit = net BY <2>2, <2>3
  <2>5. ASSUME position[u].unlock - now > 0
        PROVE  /\ q.unlock >= now + 4 * Month
               /\ (q.unlock - now) * q.deposit
                    >= (position[u].unlock - now) * position[u].deposit
                       + months * Month * (q.deposit - position[u].deposit)
    BY <2>2, <2>4, <2>5, UnlockFacts
  <2>6. QED BY <1>8, <2>1, <2>5 DEF LockKept
<1>9. QED BY <1>7, <1>8

LEMMA LockStep == IInv /\ [Next]_vars => \A u \in Users : LockKept(u)
<1> SUFFICES ASSUME IInv, [Next]_vars, NEW u \in Users PROVE LockKept(u) OBVIOUS
<1>1. StepOf BY StepIsOne
<1>2. position[u].deposit \in Nat BY StateFacts DEF PositionRecord
<1>3. ASSUME UNCHANGED position PROVE LockKept(u) BY <1>2, <1>3, LockSame
<1>4. ASSUME NEW v \in Users, NEW amount \in Nat, NEW months \in Timelocks, NEW twap \in Nat,
             UserDeposit(v, amount, months, twap)
      PROVE  LockKept(u)
  BY <1>4, LockDeposit
<1>5. ASSUME NEW v \in Users, NEW twap \in Nat, ClosePosition(v, twap) PROVE LockKept(u)
  <2>1. position'[u].deposit = position[u].deposit BY <1>5, CloseFacts
  <2>2. QED BY <1>2, <2>1, LockSame
<1>6. ASSUME NEW v \in Users, NEW htr \in Nat, NEW b \in Nat, UserWithdraw(v, htr, b)
      PROVE  LockKept(u)
  <2>1. position'[u] = position[u] \/ position'[u] = NoPosition BY <1>6, WithdrawFacts
  <2>2. position'[u].deposit \in Nat /\ position'[u].deposit <= position[u].deposit
    BY <1>2, <2>1 DEF NoPosition
  <2>3. QED BY <2>2, LockSame
<1>7. QED BY <1>1, <1>3, <1>4, <1>5, <1>6 DEF StepOf, vars, UserWithdrawBonus, OwnerDeposit,
             OwnerWithdraw, DevWithdrawFee, Admin, Swap, Tick

LEMMA ClosedSame ==
  ASSUME IInv, NEW u \in Users, closed'[u] = closed[u], position'[u] = position[u]
  PROVE  ClosedKept(u)
<1>1. \A t \in Tokens : closed[u][t] \in Nat BY StateFacts DEF Tables
<1>2. \A t \in Tokens : closed[u][t] - closed'[u][t] = 0 BY <1>1
<1>3. QED BY <1>2 DEF ClosedKept

LEMMA ClosedStep == IInv /\ [Next]_vars => \A u \in Users : ClosedKept(u)
<1> SUFFICES ASSUME IInv, [Next]_vars, NEW u \in Users PROVE ClosedKept(u) OBVIOUS
<1>1. StepOf BY StepIsOne
<1>2. ASSUME UNCHANGED <<position, closed>> PROVE ClosedKept(u) BY <1>2, ClosedSame
<1>3. ASSUME NEW v \in Users, NEW amount \in Nat, NEW months \in Timelocks, NEW twap \in Nat,
             UserDeposit(v, amount, months, twap)
      PROVE  ClosedKept(u)
  <2>1. closed' = closed /\ ~ position[v].closed BY <1>3 DEF UserDeposit, MayDeposit
  <2>2. CASE u = v BY <2>1, <2>2 DEF ClosedKept
  <2>3. CASE u # v
    <3>1. PICK p : p = Larger(position[v], amount - CeilDiv(amount * admin.fee, 1000),
                              LiquidityFor(amount - CeilDiv(amount * admin.fee, 1000)),
                              NewUnlock(v, months, amount - CeilDiv(amount * admin.fee, 1000)))
      OBVIOUS
    <3>2. position' = [position EXCEPT ![v] = p] BY <1>3, <3>1 DEF UserDeposit
    <3>3. position \in [Users -> PositionRecord] BY StateFacts
    <3>4. position'[u] = position[u] BY ONLY <2>3, <3>2, <3>3, u \in Users, v \in Users
    <3>5. QED BY <2>1, <3>4, ClosedSame
  <2>4. QED BY <2>2, <2>3
<1>4. ASSUME NEW v \in Users, NEW twap \in Nat, ClosePosition(v, twap) PROVE ClosedKept(u)
  <2>1. CASE u = v
    <3>1. ~ position[u].closed BY <1>4, <2>1, CloseFacts
    <3>2. QED BY <3>1 DEF ClosedKept
  <2>2. CASE u # v
    <3>1. closed'[u] = closed[u] /\ position'[u] = position[u] BY <1>4, <2>2, CloseFacts
    <3>2. QED BY <3>1, ClosedSame
  <2>3. QED BY <2>1, <2>2
<1>5. ASSUME NEW v \in Users, NEW htr \in Nat, NEW b \in Nat, UserWithdraw(v, htr, b)
      PROVE  ClosedKept(u)
  <2>1. CASE u # v
    <3>1. closed'[u] = closed[u] /\ position'[u] = position[u] BY <1>5, <2>1, WithdrawFacts
    <3>2. QED BY <3>1, ClosedSame
  <2>2. CASE u = v
    <3>1. held'[HTR] = held[HTR] - htr /\ held'[B] = held[B] - b
      <4>1. -htr \in Int /\ -b \in Int /\ Moved(-htr, -b) BY <1>5 DEF UserWithdraw
      <4>2. held'[HTR] = held[HTR] + (-htr) /\ held'[B] = held[B] + (-b)
        BY <4>1, MovedFacts
      <4>3. QED BY <4>2, StateFacts
    <3>2. /\ closed'[u][HTR] = closed[u][HTR] - htr /\ closed'[u][B] = closed[u][B] - b
          /\ closed' \in Tables
          /\ position'[u] = position[u]
             \/ (position'[u] = NoPosition /\ closed'[u][HTR] = 0 /\ closed'[u][B] = 0)
      BY <1>5, <2>2, WithdrawFacts
    <3>3. /\ HTR # B /\ HTR \in Tokens /\ B \in Tokens
          /\ held[HTR] \in Int /\ held[B] \in Int
          /\ closed[u][HTR] \in Nat /\ closed[u][B] \in Nat
      BY StateFacts
    <3>4. ASSUME NEW t \in Tokens
          PROVE  closed[u][t] - closed'[u][t] = 0
                 \/ (closed'[u][t] < closed[u][t]
                     /\ closed[u][t] - closed'[u][t] = held[t] - held'[t])
      <4>1. CASE t = HTR BY <3>1, <3>2, <3>3, <4>1
      <4>2. CASE t = B BY <3>1, <3>2, <3>3, <4>2
      <4>3. QED BY <4>1, <4>2 DEF Tokens
    <3>5. ASSUME position[u].closed, ~ position'[u].closed PROVE closed'[u] = Pair(0, 0)
      <4>1. closed'[u][HTR] = 0 /\ closed'[u][B] = 0 BY <3>2, <3>5
      <4>2. PICK c \in [Tokens -> Nat] : c = closed'[u] BY <3>2 DEF Tables
      <4>3. \A t \in Tokens : c[t] = 0 BY <4>1, <4>2 DEF Tokens
      <4>4. c = [t \in Tokens |-> 0] BY <4>2, <4>3
      <4>5. Pair(0, 0) = [t \in Tokens |-> 0] BY DEF Pair
      <4>6. QED BY <4>2, <4>4, <4>5
    <3>6. QED BY <3>4, <3>5 DEF ClosedKept
  <2>3. QED BY <2>1, <2>2
<1>6. QED BY <1>1, <1>2, <1>3, <1>4, <1>5 DEF StepOf, vars, UserWithdrawBonus, OwnerDeposit,
             OwnerWithdraw, DevWithdrawFee, Admin, Swap, Tick

-----------------------------------------------------------------------------
(* Nobody else's deposit or closing takes a share.  Both move htr and what *)
(* is minted, or burned, for it, rounded in the pool's favour; the vault   *)
(* then issues, or ends, its own shares, rounded in the other users'       *)
(* favour.  What the roundings cost together is at most a unit of HTR and  *)
(* the Grain: MineHtr follows htr but for the Grain, and a share follows   *)
(* MineHtr but for the unit.                                               *)

LEMMA TimesMonotone ==
  ASSUME NEW a \in Int, NEW b \in Int, NEW c \in Nat, a <= b
  PROVE  a * c <= b * c /\ a * c \in Int /\ b * c \in Int
BY SMT

LEMMA TimesCancel ==
  ASSUME NEW a \in Int, NEW b \in Int, NEW c \in Nat \ {0}, a * c <= b * c
  PROVE  a <= b
BY SMT

LEMMA TimesLess ==
  ASSUME NEW a \in Int, NEW b \in Int, NEW c \in Nat \ {0}, a * c < b * c
  PROVE  a < b
BY SMT

\* Liquidity minted or burned for htr: what is left of the vault's HTR.
LEMMA MineMinted ==
  ASSUME NEW H \in Nat \ {0}, NEW L \in Nat \ {0}, NEW M \in Nat, NEW G \in Nat,
         NEW h \in Int, NEW m \in Int, NEW D \in Nat, NEW G2 \in Nat,
         G * L <= H * M, H <= D * L,
         L * h <= m * H + H, m * H <= L * h,
         M + m \in Nat, L + m \in Nat \ {0}, H + h \in Nat,
         (H + h) * (M + m) < (G2 + 1) * (L + m)
  PROVE  G + h - D <= G2
<1> DEFINE E == G + h - D
           N == M + m
           K == L + m
           J == H + h
<1>1. E * L <= N * H
  <2>1. E * L = G * L + L * h - D * L BY SMT
  <2>2. N * H = H * M + m * H BY SMT
  <2>3. G * L \in Int /\ L * h \in Int /\ D * L \in Int /\ H * M \in Int /\ m * H \in Int
    BY SMT
  <2> HIDE DEF E, N
  <2>4. QED BY <2>1, <2>2, <2>3
<1>2. K * H <= J * L
  <2>1. K * H = L * H + m * H BY SMT
  <2>2. J * L = L * H + L * h BY SMT
  <2>3. L * H \in Int /\ m * H \in Int /\ L * h \in Int BY SMT
  <2> HIDE DEF K, J
  <2>4. QED BY <2>1, <2>2, <2>3
<1>3. E \in Int /\ N \in Nat /\ K \in Nat \ {0} /\ J \in Nat OBVIOUS
<1>4. J * N < (G2 + 1) * K OBVIOUS
<1> HIDE DEF E, N, K, J
<1>5. (E * L) * K <= (N * H) * K BY <1>1, <1>3, TimesMonotone
<1>6. (K * H) * N <= (J * L) * N BY <1>2, <1>3, TimesMonotone
<1>7. (N * H) * K = (K * H) * N /\ (E * L) * K = (E * K) * L /\ (J * L) * N = (J * N) * L
  BY <1>3, SMT
<1>8. E * K \in Int /\ J * N \in Int BY <1>3, SMT
<1>9. (E * K) * L <= (J * N) * L
  <2>1. (E * L) * K \in Int /\ (K * H) * N \in Int /\ (J * L) * N \in Int BY <1>3, SMT
  <2>2. QED BY <1>5, <1>6, <1>7, <2>1
<1>10. E * K <= J * N BY <1>8, <1>9, TimesCancel
<1>11. (G2 + 1) * K \in Int BY <1>3, SMT
<1>12. E * K < (G2 + 1) * K BY <1>4, <1>8, <1>10, <1>11
<1>13. E < G2 + 1 BY <1>3, <1>12, TimesLess
<1>14. E <= G2 BY <1>3, <1>13
<1>15. QED BY <1>14 DEF E

\* A share p of V of G, and of W of G2, when V * (G2 + x) is at least W * G.
LEMMA ShareOf ==
  ASSUME NEW p \in Nat, NEW V \in Nat \ {0}, NEW W \in Nat \ {0}, NEW S \in Nat,
         NEW S2 \in Nat, NEW K \in Int, NEW G2 \in Nat, NEW T \in Int,
         W * K <= V * G2, V * T <= p * K, p * G2 < (S2 + 1) * W
  PROVE  T <= S2
<1>1. (W * K) * p <= (V * G2) * p
  <2>1. W * K \in Int /\ V * G2 \in Int BY SMT
  <2>2. QED BY <2>1, TimesMonotone
<1>2. (V * T) * W <= (p * K) * W
  <2>1. V * T \in Int /\ p * K \in Int BY SMT
  <2>2. QED BY <2>1, TimesMonotone
<1>3. (W * K) * p = (p * K) * W /\ (V * T) * W = (T * W) * V /\ (V * G2) * p = (p * G2) * V
  BY SMT
<1>4. T * W \in Int /\ p * G2 \in Int /\ (S2 + 1) * W \in Int BY SMT
<1>5. (T * W) * V <= (p * G2) * V
  <2>1. (W * K) * p \in Int /\ (V * T) * W \in Int /\ (V * G2) * p \in Int BY SMT
  <2>2. QED BY <1>1, <1>2, <1>3, <2>1
<1>6. T * W <= p * G2 BY <1>4, <1>5, TimesCancel
<1>7. T * W < (S2 + 1) * W BY <1>4, <1>6
<1>8. T < S2 + 1 BY <1>7, TimesLess
<1>9. QED BY <1>8

\* What a deposit's quotients satisfy: G, Q and G2 are the vault's HTR and token_b in
\* the pool before, and its HTR after; S and S2 a share of it before and after.
DepositQuotients(H, R, L, M, V, p, n, h, m, F, D, G, Q, G2, S, S2) ==
  /\ p <= V /\ H <= D * R /\ H <= D * L
  /\ G * L <= H * M /\ R * M < (Q + 1) * L
  /\ n * H < (h + 1) * R /\ L * h < (m + 1) * H /\ m * H <= L * h /\ F * Q <= V * n
  /\ (H + h) * (M + m) < (G2 + 1) * (L + m)
  /\ S * V <= p * G /\ p * G2 < (S2 + 1) * (V + F)

LEMMA DepositNumbers ==
  ASSUME NEW H \in Nat \ {0}, NEW R \in Nat \ {0}, NEW L \in Nat \ {0}, NEW M \in Nat,
         NEW V \in Nat \ {0}, NEW p \in Nat, NEW n \in Nat, NEW h \in Nat, NEW m \in Nat,
         NEW F \in Nat, NEW D \in Nat, NEW G \in Nat, NEW Q \in Nat \ {0}, NEW G2 \in Nat,
         NEW S \in Nat, NEW S2 \in Nat,
         DepositQuotients(H, R, L, M, V, p, n, h, m, F, D, G, Q, G2, S, S2)
  PROVE  S - 1 - D <= S2
<1> USE DEF DepositQuotients
<1> DEFINE K == G - 1 - D
<1>0. S <= G
  <2>1. p * G <= V * G BY TimesMonotone
  <2>2. S * V \in Int /\ p * G \in Int /\ V * G \in Int /\ V * G = G * V BY SMT
  <2>3. S * V <= G * V BY <2>1, <2>2
  <2>4. QED BY <2>3, TimesCancel
<1>1. CASE K < 0 BY <1>0, <1>1
<1>2. CASE K >= 0
  <2>1. K + (h + 1) <= G2
    <3>1. L * h <= m * H + H
      <4>1. (m + 1) * H = m * H + H /\ m * H \in Int /\ L * h \in Int BY SMT
      <4>2. QED BY <4>1
    <3>2. G + h - D <= G2 BY <3>1, MineMinted
    <3>3. QED BY <3>2
  <2>2. (G - D) * R <= Q * H
    <3>1. (R * M) * H <= (Q * L + L) * H
      <4>1. (Q + 1) * L = Q * L + L /\ R * M \in Int /\ Q * L + L \in Int BY SMT
      <4>2. R * M <= Q * L + L BY <4>1
      <4>3. QED BY <4>1, <4>2, TimesMonotone
    <3>2. (G * L) * R <= (H * M) * R
      <4>1. G * L \in Int /\ H * M \in Int BY SMT
      <4>2. QED BY <4>1, TimesMonotone
    <3>3. H * L <= (D * R) * L
      <4>1. D * R \in Int BY SMT
      <4>2. QED BY <4>1, TimesMonotone
    <3>4. /\ (R * M) * H = (H * M) * R
          /\ (Q * L + L) * H = (Q * H) * L + H * L
          /\ ((G - D) * R) * L = (G * L) * R - (D * R) * L
      BY SMT
    <3>5. /\ (R * M) * H \in Int /\ (Q * H) * L \in Int /\ H * L \in Int
          /\ (G * L) * R \in Int /\ (D * R) * L \in Int /\ (H * M) * R \in Int
          /\ Q * H \in Int /\ (G - D) * R \in Int
      BY SMT
    <3>6. ((G - D) * R) * L <= (Q * H) * L BY <3>1, <3>2, <3>3, <3>4, <3>5
    <3>7. QED BY <3>5, <3>6, TimesCancel
  <2>3. (G - D) * n <= Q * (h + 1)
    <3>1. ((G - D) * R) * n <= (Q * H) * n
      <4>1. (G - D) * R \in Int /\ Q * H \in Int BY SMT
      <4>2. QED BY <2>2, <4>1, TimesMonotone
    <3>2. (n * H) * Q <= ((h + 1) * R) * Q
      <4>1. n * H \in Int /\ (h + 1) * R \in Int BY SMT
      <4>2. n * H <= (h + 1) * R BY <4>1
      <4>3. QED BY <4>1, <4>2, TimesMonotone
    <3>3. /\ ((G - D) * R) * n = ((G - D) * n) * R
          /\ (Q * H) * n = (n * H) * Q
          /\ ((h + 1) * R) * Q = (Q * (h + 1)) * R
      BY SMT
    <3>4. /\ ((G - D) * R) * n \in Int /\ (Q * H) * n \in Int /\ ((h + 1) * R) * Q \in Int
          /\ (G - D) * n \in Int /\ Q * (h + 1) \in Int
      BY SMT
    <3>5. ((G - D) * n) * R <= (Q * (h + 1)) * R BY <3>1, <3>2, <3>3, <3>4
    <3>6. QED BY <3>4, <3>5, TimesCancel
  <2>4. F * K <= V * (h + 1)
    <3>1. K \in Nat /\ G - D \in Nat /\ K <= G - D BY <1>2
    <3> HIDE DEF K
    <3>2. (F * Q) * (G - D) <= (V * n) * (G - D)
      <4>1. F * Q \in Int /\ V * n \in Int BY SMT
      <4>2. QED BY <3>1, <4>1, TimesMonotone
    <3>3. ((G - D) * n) * V <= (Q * (h + 1)) * V
      <4>1. (G - D) * n \in Int /\ Q * (h + 1) \in Int BY SMT
      <4>2. QED BY <2>3, <4>1, TimesMonotone
    <3>4. /\ (F * Q) * (G - D) = (F * (G - D)) * Q
          /\ (V * n) * (G - D) = ((G - D) * n) * V
          /\ (Q * (h + 1)) * V = (V * (h + 1)) * Q
      BY SMT
    <3>5. /\ (F * Q) * (G - D) \in Int /\ (V * n) * (G - D) \in Int
          /\ (Q * (h + 1)) * V \in Int
          /\ F * (G - D) \in Int /\ V * (h + 1) \in Int
      BY SMT
    <3>6. (F * (G - D)) * Q <= (V * (h + 1)) * Q BY <3>2, <3>3, <3>4, <3>5
    <3>7. F * (G - D) <= V * (h + 1) BY <3>5, <3>6, TimesCancel
    <3>8. K * F <= (G - D) * F BY <3>1, TimesMonotone
    <3>9. K * F = F * K /\ (G - D) * F = F * (G - D) /\ F * K \in Int BY <3>1, SMT
    <3>10. QED BY <3>5, <3>7, <3>8, <3>9
  <2>5. K \in Int OBVIOUS
  <2>6. V + F \in Nat \ {0} OBVIOUS
  <2>7. V * (S - 1 - D) <= p * K
    <3>1. p * (1 + D) <= V * (1 + D) BY TimesMonotone
    <3>2. /\ V * (S - 1 - D) = S * V - V * (1 + D)
          /\ p * K = p * G - p * (1 + D)
      BY SMT
    <3>3. S * V \in Int /\ p * G \in Int /\ p * (1 + D) \in Int /\ V * (1 + D) \in Int BY SMT
    <3>4. QED BY <3>1, <3>2, <3>3
  <2> HIDE DEF K
  <2>8. (V + F) * K <= V * G2
    <3>1. (K + (h + 1)) * V <= G2 * V
      <4>1. K + (h + 1) \in Int BY <2>5
      <4>2. QED BY <2>1, <4>1, TimesMonotone
    <3>2. /\ (V + F) * K = V * K + F * K
          /\ (K + (h + 1)) * V = V * K + V * (h + 1)
          /\ G2 * V = V * G2
      BY <2>5, SMT
    <3>3. V * K \in Int /\ F * K \in Int /\ V * (h + 1) \in Int /\ V * G2 \in Int
      BY <2>5, SMT
    <3>4. QED BY <2>4, <3>1, <3>2, <3>3
  <2>9. S - 1 - D \in Int OBVIOUS
  <2>10. PICK W \in Nat \ {0} : W = V + F BY <2>6
  <2>11. PICK T \in Int : T = S - 1 - D BY <2>9
  <2>12. W * K <= V * G2 /\ V * T <= p * K /\ p * G2 < (S2 + 1) * W
    BY <2>7, <2>8, <2>10, <2>11
  <2>13. T <= S2 BY <2>5, <2>12, ShareOf
  <2>14. QED BY <2>11, <2>13
<1>3. QED BY <1>1, <1>2

LEMMA CloseNumbers ==
  ASSUME NEW H \in Nat \ {0}, NEW L \in Nat \ {0}, NEW M \in Nat,
         NEW V \in Nat \ {0}, NEW p \in Nat, NEW q \in Nat, NEW h \in Nat, NEW g \in Nat,
         NEW D \in Nat, NEW G \in Nat, NEW G2 \in Nat, NEW S \in Nat, NEW S2 \in Nat,
         p + q <= V, q < V, H <= D * L, G * L <= H * M, h <= H, g <= M, g < L,
         L * h <= g * H, g * H <= L * h + H, h * V <= q * G,
         (H - h) * (M - g) < (G2 + 1) * (L - g),
         S * V <= p * G, p * G2 < (S2 + 1) * (V - q)
  PROVE  S - D <= S2
<1>1. G - h - D <= G2
  <2>1. PICK x \in Int, y \in Int : x = -h /\ y = -g OBVIOUS
  <2>2. M + y \in Nat /\ L + y \in Nat \ {0} /\ H + x \in Nat BY <2>1
  <2>3. L * x = -(L * h) /\ y * H = -(g * H) /\ L * h \in Int /\ g * H \in Int BY <2>1, SMT
  <2>4. L * x <= y * H + H /\ y * H <= L * x BY <2>3
  <2>5. (H + x) * (M + y) < (G2 + 1) * (L + y)
    <3>1. H + x = H - h /\ M + y = M - g /\ L + y = L - g BY <2>1
    <3>2. QED BY <3>1
  <2>6. G + x - D <= G2 BY <2>2, <2>4, <2>5, MineMinted
  <2>7. QED BY <2>1, <2>6
<1>2. PICK W \in Nat \ {0} : W = V - q OBVIOUS
<1>3. PICK T \in Int : T = S - D OBVIOUS
<1>4. W * G - V * D <= V * G2
  <2>1. (G - h - D) * V <= G2 * V BY <1>1, TimesMonotone
  <2>2. /\ (G - h - D) * V = V * G - h * V - V * D
        /\ W * G = V * G - q * G
        /\ G2 * V = V * G2
    BY <1>2, SMT
  <2>3. /\ V * G \in Int /\ h * V \in Int /\ V * D \in Int /\ q * G \in Int /\ V * G2 \in Int
    BY SMT
  <2>4. QED BY <2>1, <2>2, <2>3
<1>5. (T * W) * V <= (p * G2) * V
  <2>1. (W * G - V * D) * p <= (V * G2) * p
    <3>1. W * G - V * D \in Int /\ V * G2 \in Int BY SMT
    <3>2. QED BY <1>4, <3>1, TimesMonotone
  <2>2. (S * V) * W <= (p * G) * W
    <3>1. S * V \in Int /\ p * G \in Int BY SMT
    <3>2. QED BY <3>1, TimesMonotone
  <2>3. p * (V * D) <= W * (V * D)
    <3>1. V * D \in Nat /\ p <= W BY <1>2, SMT
    <3>2. QED BY <3>1, TimesMonotone
  <2>4. /\ (W * G - V * D) * p = (p * G) * W - p * (V * D)
        /\ (V * G2) * p = (p * G2) * V
        /\ (T * W) * V = (S * V) * W - W * (V * D)
    BY <1>3, SMT
  <2>5. /\ (p * G) * W \in Int /\ p * (V * D) \in Int /\ (p * G2) * V \in Int
        /\ (S * V) * W \in Int /\ W * (V * D) \in Int
    BY SMT
  <2>6. QED BY <2>1, <2>2, <2>3, <2>4, <2>5
<1>6. T * W <= p * G2
  <2>1. T * W \in Int /\ p * G2 \in Int BY SMT
  <2>2. QED BY <1>5, <2>1, TimesCancel
<1>7. T * W < (S2 + 1) * W
  <2>1. T * W \in Int /\ p * G2 \in Int /\ (S2 + 1) * W \in Int BY SMT
  <2>2. p * G2 < (S2 + 1) * W BY <1>2
  <2>3. QED BY <1>6, <2>1, <2>2
<1>8. T < S2 + 1 BY <1>7, TimesLess
<1>9. QED BY <1>3, <1>8

\* What is rounded up covers what it was, and exceeds it by less than a unit.
LEMMA CeilCovers ==
  ASSUME NEW n \in Nat, NEW d \in Nat \ {0}
  PROVE  /\ CeilDiv(n, d) \in Nat
         /\ n <= CeilDiv(n, d) * d
         /\ CeilDiv(n, d) * d <= n + d
<1> DEFINE q == (n + d - 1) \div d
<1>1. n + d - 1 \in Nat OBVIOUS
<1>2. q \in Nat /\ q * d <= n + d - 1 /\ n + d - 1 < (q + 1) * d BY <1>1, Floor
<1> HIDE DEF q
<1>3. (q + 1) * d = q * d + d /\ q * d \in Nat BY <1>2, SMT
<1>4. q \in Nat /\ n <= q * d /\ q * d <= n + d BY <1>2, <1>3
<1>5. QED BY <1>4 DEF CeilDiv, q

LEMMA GrainFacts ==
  ASSUME IInv
  PROVE  Grain \in Nat /\ pool.htr <= Grain * pool.b /\ pool.htr <= Grain * pool.liquidity
<1>1. PICK h \in Nat \ {0}, b \in Nat \ {0}, l \in Nat \ {0} :
        h = pool.htr /\ b = pool.b /\ l = pool.liquidity
  BY StateFacts DEF PoolRecord
<1>2. PICK x : x = CeilDiv(h, b) OBVIOUS
<1>3. PICK y : y = CeilDiv(h, l) OBVIOUS
<1>4. x \in Nat /\ h <= x * b BY <1>2, CeilCovers
<1>5. y \in Nat /\ h <= y * l BY <1>3, CeilCovers
<1>6. PICK d : d = IF x >= y THEN x ELSE y OBVIOUS
<1>7. d \in Nat /\ x <= d /\ y <= d BY <1>4, <1>5, <1>6
<1>8. x * b <= d * b /\ y * l <= d * l BY <1>4, <1>5, <1>7, AtMostTimes
<1>9. x * b \in Nat /\ d * b \in Nat /\ y * l \in Nat /\ d * l \in Nat
  BY <1>4, <1>5, <1>7, Product
<1>10. d = Grain BY <1>1, <1>2, <1>3, <1>6 DEF Grain
<1>11. h <= d * b /\ h <= d * l BY <1>4, <1>5, <1>8, <1>9
<1>12. QED BY ONLY <1>1, <1>7, <1>10, <1>11

\* MineHtr, and Share of a position with liquidity p.
MineFrom(H, M, L) == (H * M) \div L
ShareFrom(p, V, H, M, L) == IF V > 0 THEN (p * MineFrom(H, M, L)) \div V ELSE 0

LEMMA ShareIs ==
  ASSUME NEW u \in Users
  PROVE  /\ Share(u) = ShareFrom(position[u].liquidity, vault.liquidity,
                                 pool.htr, pool.mine, pool.liquidity)
         /\ Share(u)' = ShareFrom(position'[u].liquidity, vault'.liquidity,
                                  pool'.htr, pool'.mine, pool'.liquidity)
BY DEF Share, MineHtr, ShareFrom, MineFrom

LEMMA ShareFromFacts ==
  ASSUME NEW p \in Nat, NEW V \in Nat \ {0}, NEW H \in Nat, NEW M \in Nat,
         NEW L \in Nat \ {0}, NEW G, G = MineFrom(H, M, L), NEW S, S = ShareFrom(p, V, H, M, L)
  PROVE  /\ G \in Nat /\ G * L <= H * M /\ H * M < (G + 1) * L
         /\ S \in Nat /\ S * V <= p * G /\ p * G < (S + 1) * V
<1>1. H * M \in Nat BY Product
<1>2. G \in Nat /\ G * L <= H * M /\ H * M < (G + 1) * L BY <1>1, Floor DEF MineFrom
<1>3. p * G \in Nat BY <1>2, Product
<1>4. S = (p * G) \div V BY DEF ShareFrom
<1>5. S \in Nat /\ S * V <= p * G /\ p * G < (S + 1) * V BY <1>3, <1>4, Floor
<1>6. QED BY <1>2, <1>5

\* Without liquidity there is no share.
LEMMA ShareFromNothing ==
  ASSUME NEW V \in Nat, NEW H \in Nat, NEW M \in Nat, NEW L \in Nat \ {0}
  PROVE  ShareFrom(0, V, H, M, L) = 0
<1>1. CASE V = 0 BY <1>1 DEF ShareFrom
<1>2. CASE V # 0
  <2>1. PICK G : G = MineFrom(H, M, L) OBVIOUS
  <2>2. H * M \in Nat BY Product
  <2>3. G \in Nat BY <2>1, <2>2, Floor DEF MineFrom
  <2>4. 0 * G = 0 BY <2>3, SMT
  <2>5. 0 \div V = 0 BY <1>2, SMT
  <2>6. QED BY <1>2, <2>1, <2>4, <2>5 DEF ShareFrom
<1>3. QED BY <1>1, <1>2

OthersKept(u) ==
  pool' # pool /\ held' # held /\ position'[u] = position[u]
    => Share(u)' >= Share(u) - 1 - Grain

LEMMA DepositKeeps ==
  ASSUME IInv, NEW v \in Users, NEW amount \in Nat, NEW months \in Timelocks, NEW twap \in Nat,
         UserDeposit(v, amount, months, twap), NEW u \in Users, position'[u] = position[u]
  PROVE  Share(u)' >= Share(u) - 1 - Grain
<1>1. PICK fee \in Nat, n \in Nat \ {0}, h \in Nat, bonus \in Nat, enters \in Nat,
           m \in Nat, F \in Nat, unlock \in Nat :
        Entered(v, amount, months, fee, n, h, bonus, enters, m, F, unlock)
  BY DepositFacts
<1>2. PICK H \in Nat \ {0}, B0 \in Nat \ {0}, L \in Nat \ {0}, M \in Nat, V \in Nat, p \in Nat :
        /\ H = pool.htr /\ B0 = pool.b /\ L = pool.liquidity /\ M = pool.mine
        /\ V = vault.liquidity /\ p = position[u].liquidity
  BY StateFacts DEF PoolRecord, VaultRecord, PositionRecord
<1>3. /\ pool'.htr = H + h /\ pool'.liquidity = L + m /\ pool'.mine = M + m
      /\ vault'.liquidity = V + F /\ position'[u].liquidity = p
  <2>1. pool \in PoolRecord /\ vault \in VaultRecord BY StateFacts
  <2>2. pool' = [pool EXCEPT !.htr = @ + h, !.b = @ + enters,
                             !.liquidity = @ + m, !.mine = @ + m]
    BY <1>1 DEF Entered
  <2>3. vault' = [vault EXCEPT !.htr = @ - bonus - h, !.liquidity = @ + F]
    BY <1>1 DEF Entered
  <2>4. pool'.htr = H + h /\ pool'.liquidity = L + m /\ pool'.mine = M + m
    BY ONLY <1>2, <2>1, <2>2 DEF PoolRecord
  <2>5. vault'.liquidity = V + F BY ONLY <1>2, <2>1, <2>3 DEF VaultRecord
  <2>6. QED BY <1>2, <2>4, <2>5
<1>4. PICK D \in Nat : D = Grain /\ H <= D * B0 /\ H <= D * L BY <1>2, GrainFacts
<1>5. PICK S : S = ShareFrom(p, V, H, M, L) OBVIOUS
<1>6. PICK S2 : S2 = ShareFrom(p, V + F, H + h, M + m, L + m) OBVIOUS
<1>7. S = Share(u) /\ S2 = Share(u)' BY <1>2, <1>3, <1>5, <1>6, ShareIs
<1>8. p <= V BY <1>2, ShareFacts
<1>9. CASE V = 0
  <2>1. p = 0 BY <1>8, <1>9
  <2>2. S = 0 /\ S2 = 0 BY <1>5, <1>6, <2>1, ShareFromNothing
  <2>3. QED BY <1>4, <1>7, <2>2
<1>10. CASE V # 0
  <2>1. PICK G : G = MineFrom(H, M, L) OBVIOUS
  <2>2. PICK G2 : G2 = MineFrom(H + h, M + m, L + m) OBVIOUS
  <2>3. /\ G \in Nat /\ G * L <= H * M
        /\ S \in Nat /\ S * V <= p * G
        /\ G2 \in Nat /\ (H + h) * (M + m) < (G2 + 1) * (L + m)
        /\ S2 \in Nat /\ p * G2 < (S2 + 1) * (V + F)
    <3>1. V \in Nat \ {0} BY <1>10
    <3>2. V + F \in Nat \ {0} /\ H + h \in Nat /\ M + m \in Nat /\ L + m \in Nat \ {0}
      BY <1>10
    <3>3. G \in Nat /\ G * L <= H * M /\ S \in Nat /\ S * V <= p * G
      BY ONLY <1>5, <2>1, <3>1, p \in Nat, H \in Nat \ {0}, M \in Nat, L \in Nat \ {0},
         ShareFromFacts
    <3>4. /\ G2 \in Nat /\ (H + h) * (M + m) < (G2 + 1) * (L + m)
          /\ S2 \in Nat /\ p * G2 < (S2 + 1) * (V + F)
      BY ONLY <1>6, <2>2, <3>2, p \in Nat, ShareFromFacts
    <3>5. QED BY <3>3, <3>4
  <2>4. PICK Q \in Nat \ {0} : Q = (B0 * M) \div L /\ B0 * M < (Q + 1) * L
    <3>1. B0 * M \in Nat BY Product
    <3>2. MineB = (B0 * M) \div L BY <1>2 DEF MineB
    <3>3. MineB \in Nat /\ B0 * M < (MineB + 1) * L BY <3>1, <3>2, Floor
    <3>4. MineB > 0 BY <1>1, <1>2, <1>10 DEF Entered
    <3>5. QED BY <3>2, <3>3, <3>4
  <2>5. F * Q <= V * n
    <3>1. F = (V * n) \div Q BY <1>1, <1>2, <1>10, <2>4 DEF Entered, LiquidityFor, MineB
    <3>2. V * n \in Nat BY Product
    <3>3. QED BY <3>1, <3>2, Floor
  <2>6. n * H < (h + 1) * B0
    <3>1. h = (n * H) \div B0 BY <1>1, <1>2 DEF Entered, Quote
    <3>2. n * H \in Nat BY Product
    <3>3. QED BY <3>1, <3>2, Floor
  <2>7. m * H <= L * h /\ L * h < (m + 1) * H
    <3>1. m = (L * h) \div H BY <1>1, <1>2 DEF Entered
    <3>2. L * h \in Nat BY Product
    <3>3. QED BY <3>1, <3>2, Floor
  <2>8. S - 1 - D <= S2
    <3>1. V \in Nat \ {0} BY <1>10
    <3>2. G \in Nat /\ G2 \in Nat /\ S \in Nat /\ S2 \in Nat BY <2>3
    <3>3. H <= D * B0 /\ H <= D * L BY <1>4
    <3>4. DepositQuotients(H, B0, L, M, V, p, n, h, m, F, D, G, Q, G2, S, S2)
      BY ONLY <1>8, <2>3, <2>4, <2>5, <2>6, <2>7, <3>3 DEF DepositQuotients
    <3>5. QED BY <3>1, <3>2, <3>4, DepositNumbers
  <2>9. QED BY <1>4, <1>7, <2>3, <2>8
<1>11. QED BY <1>9, <1>10

LEMMA CloseKeeps ==
  ASSUME IInv, NEW v \in Users, NEW twap \in Nat, ClosePosition(v, twap),
         NEW u \in Users, position'[u] = position[u]
  PROVE  Share(u)' >= Share(u) - 1 - Grain
<1>1. PICK H \in Nat \ {0}, L \in Nat \ {0}, M \in Nat, V \in Nat, p \in Nat, q \in Nat :
        /\ H = pool.htr /\ L = pool.liquidity /\ M = pool.mine
        /\ V = vault.liquidity /\ p = position[u].liquidity /\ q = position[v].liquidity
  BY StateFacts DEF PoolRecord, VaultRecord, PositionRecord
<1>2. PICK h \in Nat, b \in Nat, g \in Nat :
        h = Share(v) /\ b = ShareB(v) /\ g = CeilDiv(L * h, H)
  BY <1>1, ShareFacts
<1>3. q # 0 /\ q <= V /\ h < H /\ g <= M /\ M < L
  <2>1. q # 0 BY <1>1 DEF ClosePosition
  <2>2. Share(v) <= MineHtr /\ MineHtr < pool.htr /\ MineHtr \in Nat BY ShareFacts
  <2>3. h < H BY <1>1, <1>2, <2>2
  <2>4. q <= V /\ g <= M BY <1>1, <1>2, ShareFacts
  <2>5. M < L BY <1>1 DEF IInv, SomebodyElse
  <2>6. QED BY <2>1, <2>3, <2>4, <2>5
<1>4. /\ pool'.htr = H - h /\ pool'.liquidity = L - g /\ pool'.mine = M - g
      /\ vault'.liquidity = V - q /\ position'[u].liquidity = p
  <2>1. pool \in PoolRecord /\ vault \in VaultRecord BY StateFacts
  <2>2. pool' = [pool EXCEPT !.htr = @ - h, !.b = @ - b,
                             !.liquidity = @ - g, !.mine = @ - g]
    BY <1>1, <1>2 DEF ClosePosition
  <2>3. vault' = [vault EXCEPT !.htr = @ + Returned(v, twap), !.liquidity = @ - q]
    BY <1>1 DEF ClosePosition
  <2>4. pool'.htr = H - h /\ pool'.liquidity = L - g /\ pool'.mine = M - g
    BY ONLY <1>1, <2>1, <2>2 DEF PoolRecord
  <2>5. vault'.liquidity = V - q BY ONLY <1>1, <2>1, <2>3 DEF VaultRecord
  <2>6. QED BY <1>1, <2>4, <2>5
<1>5. p <= V - q
  <2>1. position' \in [Users -> PositionRecord] BY CloseFacts
  <2>2. p <= Shares(position')
    <3>1. position'[u].liquidity <= Shares(position') BY ONLY <2>1, u \in Users, SharesBound
    <3>2. QED BY <1>4, <3>1
  <2>3. Solvency'
    <3>1. IInv' BY CloseStep
    <3>2. QED BY <3>1 DEF IInv
  <2>4. vault'.liquidity = Shares(position') BY <2>3, CoversIff DEF Covers
  <2>5. QED BY <1>4, <2>2, <2>4
<1>6. PICK D \in Nat : D = Grain /\ H <= D * L BY <1>1, GrainFacts
<1>7. PICK S : S = ShareFrom(p, V, H, M, L) OBVIOUS
<1>8. PICK S2 : S2 = ShareFrom(p, V - q, H - h, M - g, L - g) OBVIOUS
<1>9. S = Share(u) /\ S2 = Share(u)' BY <1>1, <1>4, <1>7, <1>8, ShareIs
<1>10. /\ V \in Nat \ {0} /\ V - q \in Nat /\ H - h \in Nat /\ M - g \in Nat
       /\ L - g \in Nat \ {0} /\ g < L /\ h <= H
  BY <1>3
<1>11. CASE V - q = 0
  <2>1. p = 0 BY <1>5, <1>11
  <2>2. S = 0 BY <1>7, <2>1, ShareFromNothing
  <2>3. S2 = 0 BY ONLY <1>8, <1>10, <2>1, ShareFromNothing
  <2>4. QED BY <1>6, <1>9, <2>2, <2>3
<1>12. CASE V - q # 0
  <2>1. PICK G : G = MineFrom(H, M, L) OBVIOUS
  <2>2. PICK H1 \in Nat, L1 \in Nat \ {0}, M1 \in Nat, W \in Nat \ {0} :
          H1 = H - h /\ L1 = L - g /\ M1 = M - g /\ W = V - q
    BY <1>10, <1>12
  <2>3. /\ G \in Nat /\ G * L <= H * M
        /\ S \in Nat /\ S * V <= p * G /\ h * V <= q * G
    <3>1. h = ShareFrom(q, V, H, M, L) BY <1>1, <1>2, ShareIs
    <3>2. G \in Nat /\ G * L <= H * M /\ S \in Nat /\ S * V <= p * G
      BY ONLY <1>7, <1>10, <2>1, p \in Nat, H \in Nat \ {0}, M \in Nat, L \in Nat \ {0},
         ShareFromFacts
    <3>3. h * V <= q * G
      BY ONLY <1>10, <2>1, <3>1, q \in Nat, H \in Nat \ {0}, M \in Nat, L \in Nat \ {0},
         ShareFromFacts
    <3>4. QED BY <3>2, <3>3
  <2>4. PICK G2 : G2 = MineFrom(H1, M1, L1) OBVIOUS
  <2>5. /\ G2 \in Nat /\ (H - h) * (M - g) < (G2 + 1) * (L - g)
        /\ S2 \in Nat /\ p * G2 < (S2 + 1) * (V - q)
    <3>1. S2 = ShareFrom(p, W, H1, M1, L1) BY ONLY <1>8, <2>2
    <3>2. /\ G2 \in Nat /\ H1 * M1 < (G2 + 1) * L1
          /\ S2 \in Nat /\ p * G2 < (S2 + 1) * W
      BY ONLY <2>2, <2>4, <3>1, p \in Nat, ShareFromFacts
    <3>3. QED BY ONLY <2>2, <3>2
  <2>6. L * h <= g * H /\ g * H <= L * h + H
    <3>1. L * h \in Nat BY Product
    <3>2. QED BY <1>2, <3>1, CeilCovers
  <2>7. p + q <= V /\ q < V BY <1>3, <1>5, <1>12
  <2>8. S - D <= S2
    <3>1. /\ V \in Nat \ {0} /\ g < L /\ h <= H /\ g <= M /\ H <= D * L
          /\ G \in Nat /\ G2 \in Nat /\ S \in Nat /\ S2 \in Nat
      BY <1>3, <1>6, <1>10, <2>3, <2>5
    <3>2. QED BY ONLY <2>3, <2>6, <2>7, <2>5, <3>1, H \in Nat \ {0}, L \in Nat \ {0}, M \in Nat,
                      p \in Nat, q \in Nat, h \in Nat, g \in Nat, D \in Nat, CloseNumbers
  <2>9. QED BY <1>6, <1>9, <2>3, <2>8, <2>5
<1>13. QED BY <1>11, <1>12

LEMMA OthersStep == IInv /\ [Next]_vars => \A u \in Users : OthersKept(u)
<1> SUFFICES ASSUME IInv, [Next]_vars, NEW u \in Users, pool' # pool, held' # held,
                    position'[u] = position[u]
             PROVE  Share(u)' >= Share(u) - 1 - Grain
  BY DEF OthersKept
<1>1. StepOf BY StepIsOne
<1>2. ASSUME NEW v \in Users, NEW amount \in Nat, NEW months \in Timelocks, NEW twap \in Nat,
             UserDeposit(v, amount, months, twap)
      PROVE  Share(u)' >= Share(u) - 1 - Grain
  BY <1>2, DepositKeeps
<1>3. ASSUME NEW v \in Users, NEW twap \in Nat, ClosePosition(v, twap)
      PROVE  Share(u)' >= Share(u) - 1 - Grain
  BY <1>3, CloseKeeps
<1>4. QED BY <1>1, <1>2, <1>3 DEF StepOf, vars, UserWithdraw, UserWithdrawBonus, OwnerDeposit,
             OwnerWithdraw, DevWithdrawFee, Admin, Swap, Tick

-----------------------------------------------------------------------------
(* The ratio check of the pool.  A quote that is rounded down moves the    *)
(* ratio by less than one unit of token_b, which is within the tolerance   *)
(* while 200 units of each token are left.                                 *)
RatioAdmitsClosing ==
  \A u \in Users :
    pool.htr - Share(u) >= 200 /\ pool.b - ShareB(u) >= 200 =>
      PriceRatioKept(pool.htr, pool.b, pool.htr - Share(u), pool.b - ShareB(u))

\* The inverse of what is tolerated.
Tolerated(least) == IF least < 1000 THEN 200 ELSE IF least < 10000 THEN 500 ELSE 10000

LEMMA ProportionIsAdmitted ==
  ASSUME NEW H \in Nat \ {0}, NEW R \in Nat \ {0}, NEW h \in Nat, NEW r,
         r = Quote(h, H, R), H - h >= 200, R - r >= 200
  PROVE  PriceRatioKept(H, R, H - h, R - r)
<1>1. h * R \in Nat BY Product
<1>2. r \in Nat /\ r * H <= h * R /\ h * R < (r + 1) * H BY <1>1, Floor DEF Quote
<1>3. H - h \in Nat /\ R - r \in Nat BY <1>2
<1>4. PICK x \in Nat, y \in Nat : x = H - h /\ y = R - r BY ONLY <1>3
<1>5. PICK before \in Nat, after \in Nat : before = H * y /\ after = x * R BY Product
<1>6. before - after \in Nat /\ before - after < H
  <2>1. /\ H * (R - r) = H * R - r * H /\ (H - h) * R = H * R - h * R
        /\ (r + 1) * H = r * H + H /\ r * H \in Int /\ H * R \in Int
    BY <1>2, SMT
  <2>2. before = H * R - r * H /\ after = H * R - h * R BY <1>4, <1>5, <2>1
  <2>3. QED BY <1>1, <1>2, <2>1, <2>2
<1>7. PICK least \in Nat : least = IF x <= y THEN x ELSE y OBVIOUS
<1>8. Tolerated(least) \in Nat /\ Tolerated(least) <= y
  <2>1. 200 <= least /\ least <= y BY <1>4, <1>7
  <2>2. QED BY <2>1 DEF Tolerated
<1>9. (before - after) * Tolerated(least) <= before
  <2>1. PICK i \in Nat : i = Tolerated(least) /\ i <= y BY <1>8
  <2>2. PICK d \in Nat : d = before - after /\ d < H BY <1>6
  <2>3. d * i <= H * i BY <2>1, <2>2, TimesMonotone
  <2>4. i * H <= y * H BY <2>1, TimesMonotone
  <2>5. H * i = i * H /\ y * H = H * y /\ d * i \in Int /\ i * H \in Int BY SMT
  <2>6. QED BY <1>5, <2>1, <2>2, <2>3, <2>4, <2>5
<1>10. PriceRatioKept(H, R, x, y) <=> (before - after) * Tolerated(least) <= before
  <2> DEFINE larger  == IF before >= after THEN before ELSE after
             smaller == IF before >= after THEN after ELSE before
  <2>1. PriceRatioKept(H, R, x, y) <=> (larger - smaller) * Tolerated(least) <= larger
    BY <1>5, <1>7 DEF PriceRatioKept, Tolerated
  <2>2. larger = before /\ smaller = after BY <1>6
  <2>3. QED BY <2>1, <2>2
<1>11. QED BY <1>4, <1>9, <1>10

LEMMA RatioAdmits == IInv => RatioAdmitsClosing
<1> SUFFICES ASSUME IInv, NEW u \in Users,
                    pool.htr - Share(u) >= 200, pool.b - ShareB(u) >= 200
             PROVE  PriceRatioKept(pool.htr, pool.b, pool.htr - Share(u), pool.b - ShareB(u))
  BY DEF RatioAdmitsClosing
<1>1. pool.htr \in Nat \ {0} /\ pool.b \in Nat \ {0} BY StateFacts DEF PoolRecord
<1>2. Share(u) \in Nat BY ShareFacts
<1>3. ShareB(u) = Quote(Share(u), pool.htr, pool.b) BY DEF ShareB
<1>4. QED BY <1>1, <1>2, <1>3, ProportionIsAdmitted

-----------------------------------------------------------------------------
(* The theorems.                                                           *)

LEMMA Always == Spec => []IInv
BY InitInv, Inductive, PTL DEF Spec

\* In every reachable state no balance, share or reserve is negative (oasis.py).
THEOREM OasisTypes == Spec => []TypeOK
<1>1. IInv => TypeOK BY DEF IInv
<1>2. QED BY Always, <1>1, PTL

\* The vault holds what its owner and users may withdraw, and users' shares are
\* all of its liquidity, for every number of users and every sequence of calls.
THEOREM OasisSolvent == Spec => []Solvency
<1>1. IInv => Solvency BY DEF IInv
<1>2. QED BY Always, <1>1, PTL

\* close_position never fails for lack of liquidity or of HTR.
THEOREM EveryoneCanCloseAlways == Spec => []EveryoneCanClose
BY Always, Closable, PTL

\* The pool's ratio check does not refuse close_position either, while 200 units of
\* each token are left in the pool.
THEOREM ClosingIsAdmitted == Spec => []RatioAdmitsClosing
BY Always, RatioAdmits, PTL

\* A deposit added to a locked position is locked for at least the weighted
\* average of both locks, and for four months.
THEOREM LocksAreKept == Spec => LockIsKept
<1>1. IInv /\ [Next]_vars => [\A u \in Users : LockKept(u)]_vars BY LockStep
<1>2. [\A u \in Users : LockKept(u)]_vars
      => [\A u \in Users :
            LET p == position[u]
                q == position'[u]
                remaining == p.unlock - now
            IN  q.deposit > p.deposit /\ remaining > 0 =>
                  /\ q.unlock >= now + 4 * Month
                  /\ \E months \in Timelocks :
                       (q.unlock - now) * q.deposit
                         >= remaining * p.deposit
                            + months * Month * (q.deposit - p.deposit)]_vars
  BY DEF LockKept
<1>3. QED BY Always, <1>1, <1>2, PTL DEF Spec, LockIsKept

\* What a closed position may withdraw changes only by what leaves the contract.
THEOREM ClosedIsNeverLost == Spec => ClosedIsKept
<1>1. IInv /\ [Next]_vars => [\A u \in Users : ClosedKept(u)]_vars BY ClosedStep
<1>2. [\A u \in Users : ClosedKept(u)]_vars
      => [\A u \in Users : position[u].closed =>
            /\ \A t \in Tokens : closed[u][t] - closed'[u][t] = 0
                                 \/ (closed'[u][t] < closed[u][t]
                                     /\ closed[u][t] - closed'[u][t] = held[t] - held'[t])
            /\ ~position'[u].closed => closed'[u] = Pair(0, 0)]_vars
  BY DEF ClosedKept
<1>3. QED BY Always, <1>1, <1>2, PTL DEF Spec, ClosedIsKept

\* A deposit or the closing of somebody else costs a user's share at most a unit of
\* HTR and what a unit of token_b, or of the pool's liquidity, is worth.
THEOREM OthersShareIsKept == Spec => OthersKeepTheirShare
<1>1. IInv /\ [Next]_vars => [\A u \in Users : OthersKept(u)]_vars BY OthersStep
<1>2. [\A u \in Users : OthersKept(u)]_vars
      => [\A u \in Users :
            pool' # pool /\ held' # held /\ position'[u] = position[u]
              => Share(u)' >= Share(u) - 1 - Grain]_vars
  BY DEF OthersKept
<1>3. QED BY Always, <1>1, <1>2, PTL DEF Spec, OthersKeepTheirShare

=============================================================================
