---------------------------- MODULE DozerProofs -----------------------------
(***************************************************************************)
(* Proofs about Dozer, for pools, tokens, users, reserves, amounts and     *)
(* fees of any number and size:                                            *)
(*  - the integer square root is the root, rounded down;                   *)
(*  - a swap priced by either formula is on the curve of its pool and      *)
(*    never lowers the product of the reserves, so the K check of a swap   *)
(*    never refuses it;                                                    *)
(*  - a deposit in one token swaps at most half of itself and leaves no    *)
(*    change of the other token;                                           *)
(*  - what is added or removed in proportion passes the ratio check        *)
(*    wherever 200 units of each token are in the pool;                    *)
(*  - the liquidity minted for a protocol fee is bounded by that fee;      *)
(*  - every state is well typed, the contract holds what its pools book,   *)
(*    and every pool's totals are the sums of what its users have;         *)
(*  - adding and removing liquidity never lowers what a share stands for;  *)
(*  - every swap, alone or in a route, leaves its pools on their curves;   *)
(*  - the average price stays within the prices the blocks ended with;     *)
(*  - the owner can always sign.                                           *)
(***************************************************************************)
EXTENDS Dozer, SumTheorems, TLAPS

-----------------------------------------------------------------------------
(* The integer arithmetic.                                                 *)

LEMMA FloorBounds ==
  ASSUME NEW n \in Nat, NEW d \in Nat \ {0}
  PROVE  /\ n \div d \in Nat
         /\ (n \div d) * d <= n
         /\ n < (n \div d + 1) * d
BY SMT

LEMMA CeilBounds ==
  ASSUME NEW n \in Nat, NEW d \in Nat \ {0}
  PROVE  /\ CeilDiv(n, d) \in Nat /\ CeilDiv(n, d) * d >= n
         /\ (CeilDiv(n, d) - 1) * d < n
<1> DEFINE m == n + d - 1
           q == CeilDiv(n, d)
<1>1. m \in Nat BY SMT
<1>2. q = m \div d BY DEF CeilDiv
<1>3. q \in Nat /\ m < (q + 1) * d /\ q * d <= m BY <1>1, <1>2, FloorBounds
<1> HIDE DEF q
<1>4. (q + 1) * d = q * d + d /\ (q - 1) * d = q * d - d BY <1>3, SMT
<1>5. q * d \in Nat BY <1>3, SMT
<1>6. QED BY <1>3, <1>4, <1>5, SMT DEF q

LEMMA Products ==
  ASSUME NEW a \in Int, NEW b \in Int
  PROVE  a * b \in Int /\ (a \in Nat /\ b \in Nat => a * b \in Nat)
BY SMT

(* Fits without its common terms: what the output takes from the curve is  *)
(* at most what the input, less its fee, brings. *)
LEMMA FitsIff ==
  ASSUME NEW in \in Nat, NEW out \in Nat, NEW ri \in Nat, NEW ro \in Nat, NEW fee \in Nat,
         FeeDenominator \in Nat
  PROVE  Fits(in, out, ri, ro, fee)
           <=> out * (ri * FeeDenominator + in * (FeeDenominator - fee))
                 <= ro * (in * (FeeDenominator - fee))
<1> DEFINE net == in * (FeeDenominator - fee)
           base == ri * FeeDenominator
<1>1. net \in Int /\ base \in Int BY Products
<1>2. ri * ro * FeeDenominator = base * ro BY SMT
<1> HIDE DEF net, base
<1>3. (base + net) * (ro - out) = base * ro + ro * net - out * (base + net) BY <1>1, SMT
<1>4. base * ro \in Int /\ ro * net \in Int /\ out * (base + net) \in Int BY <1>1, SMT
<1>5. (base + net) * (ro - out) >= base * ro <=> out * (base + net) <= ro * net
  BY <1>3, <1>4, SMT
<1>6. Fits(in, out, ri, ro, fee) <=> (base + net) * (ro - out) >= base * ro
  BY <1>2 DEF Fits, net, base
<1>7. QED BY <1>5, <1>6 DEF net, base

(* An exact-input swap pays the most its input admits, not one unit more,  *)
(* and never all of a reserve (get_amount_out, _swap). *)
THEOREM AmountOutIsOnCurve ==
  ASSUME NEW in \in Nat, NEW ri \in Nat \ {0}, NEW ro \in Nat \ {0},
         NEW fee \in 0 .. (FeeDenominator - 1)
  PROVE  /\ AmountOut(in, ri, ro, fee) \in 0 .. (ro - 1)
         /\ Fits(in, AmountOut(in, ri, ro, fee), ri, ro, fee)
         /\ ~ Fits(in, AmountOut(in, ri, ro, fee) + 1, ri, ro, fee)
<1> DEFINE net == in * (FeeDenominator - fee)
           d == ri * FeeDenominator + net
           out == AmountOut(in, ri, ro, fee)
<1>1. FeeDenominator \in Nat \ {0} BY DozerMathAssumption
<1>2. net \in Nat BY <1>1, SMT
<1>3. ri * FeeDenominator \in Nat /\ ri * FeeDenominator > 0 BY <1>1, SMT
<1> HIDE DEF net
<1>4. d \in Nat \ {0} /\ net < d BY <1>2, <1>3
<1>5. ro * net \in Nat BY <1>2, SMT
<1>6. out = (ro * net) \div d BY DEF AmountOut, net
<1>7. out \in Nat /\ out * d <= ro * net /\ ro * net < (out + 1) * d
  <2> HIDE DEF d
  <2>1. QED BY <1>4, <1>5, <1>6, FloorBounds
<1>8. out < ro
  <2> HIDE DEF d, out
  <2>1. SUFFICES ASSUME out >= ro PROVE FALSE BY <1>7, SMT
  <2>2. out * d >= ro * d BY <1>4, <1>7, <2>1, SMT
  <2>3. ro * d > ro * net BY <1>2, <1>4, SMT
  <2>4. QED BY <1>2, <1>4, <1>5, <1>7, <2>2, <2>3, SMT
<1>9. Fits(in, out, ri, ro, fee)
  <2>1. fee \in Nat BY <1>1, SMT
  <2>2. Fits(in, out, ri, ro, fee) <=> out * d <= ro * net
    <3> HIDE DEF out
    <3>1. QED BY <1>1, <1>7, <2>1, FitsIff DEF net
  <2>3. QED BY <1>7, <2>2
<1>10. ~ Fits(in, out + 1, ri, ro, fee)
  <2>1. fee \in Nat /\ out + 1 \in Nat BY <1>1, <1>7, SMT
  <2>2. Fits(in, out + 1, ri, ro, fee) <=> (out + 1) * d <= ro * net
    <3> HIDE DEF out
    <3>1. QED BY <1>1, <2>1, FitsIff DEF net
  <2>3. (out + 1) * d \in Int
    <3> HIDE DEF d, out
    <3>1. QED BY <1>4, <1>7, SMT
  <2> HIDE DEF d, out
  <2>4. QED BY <1>5, <1>7, <2>2, <2>3, SMT
<1>11. QED BY <1>7, <1>8, <1>9, <1>10, SMT

(* The input asked for an exact output is enough for it, and one unit less *)
(* would not be (get_amount_in, _swap_exact_out). *)
THEOREM AmountInIsOnCurve ==
  ASSUME NEW ri \in Nat \ {0}, NEW ro \in Nat \ {0}, NEW out \in 0 .. (ro - 1),
         NEW fee \in 0 .. (FeeDenominator - 1)
  PROVE  /\ AmountIn(out, ri, ro, fee) \in Nat
         /\ Fits(AmountIn(out, ri, ro, fee), out, ri, ro, fee)
         /\ AmountIn(out, ri, ro, fee) > 0 =>
              ~ Fits(AmountIn(out, ri, ro, fee) - 1, out, ri, ro, fee)
<1> DEFINE n == ri * out * FeeDenominator
           g == FeeDenominator - fee
           d == (ro - out) * g
           in == AmountIn(out, ri, ro, fee)
<1>1. FeeDenominator \in Nat \ {0} BY DozerMathAssumption
<1>2. n \in Nat BY <1>1, SMT
<1>3. g \in Nat \ {0} BY <1>1, SMT
<1> HIDE DEF g
<1>4. d \in Nat \ {0} BY <1>3, SMT
<1>5. in = CeilDiv(n, d) BY DEF AmountIn, g
<1>6. in \in Nat /\ in * d >= n /\ (in - 1) * d < n
  <2> HIDE DEF n, d, in
  <2>1. QED BY <1>2, <1>4, <1>5, CeilBounds
<1> HIDE DEF in
<1>7. in * d = ro * (in * g) - out * (in * g) BY <1>3, <1>6, SMT
<1>8. n = out * (ri * FeeDenominator) BY <1>1, SMT
<1>9. out * (ri * FeeDenominator + in * g) = out * (ri * FeeDenominator) + out * (in * g)
  BY <1>1, <1>3, <1>6, SMT
<1>10. ro * (in * g) \in Int /\ out * (in * g) \in Int BY <1>3, <1>6, SMT
<1>11. out * (ri * FeeDenominator + in * g) <= ro * (in * g)
  <2> HIDE DEF n, d
  <2>1. QED BY <1>2, <1>6, <1>7, <1>8, <1>9, <1>10, SMT
<1>12. Fits(in, out, ri, ro, fee)
  <2>1. fee \in Nat /\ out \in Nat BY <1>1, SMT
  <2>2. QED BY <1>1, <1>6, <1>11, <2>1, FitsIff DEF g
<1>13. ASSUME in > 0 PROVE ~ Fits(in - 1, out, ri, ro, fee)
  <2> DEFINE m == in - 1
  <2>1. m \in Nat BY <1>6, <1>13, SMT
  <2>2. m * d < n BY <1>6
  <2> HIDE DEF m
  <2>3. m * d = ro * (m * g) - out * (m * g) BY <1>3, <2>1, SMT
  <2>4. out * (ri * FeeDenominator + m * g) = out * (ri * FeeDenominator) + out * (m * g)
    BY <1>1, <1>3, <2>1, SMT
  <2>5. ro * (m * g) \in Int /\ out * (m * g) \in Int /\ out * (ri * FeeDenominator + m * g) \in Int
    BY <1>1, <1>3, <2>1, SMT
  <2>6. ~ (out * (ri * FeeDenominator + m * g) <= ro * (m * g))
    <3> HIDE DEF n, d
    <3>1. QED BY <1>2, <1>8, <2>2, <2>3, <2>4, <2>5, SMT
  <2>7. fee \in Nat /\ out \in Nat BY <1>1, SMT
  <2>8. ~ Fits(m, out, ri, ro, fee) BY <1>1, <2>1, <2>6, <2>7, FitsIff DEF g
  <2>9. QED BY <2>8 DEF m
<1>14. QED BY <1>6, <1>12, <1>13 DEF in

(* A swap that fits its curve does not lower the product of the reserves:  *)
(* the K check that follows it passes (_check_k_not_decreased). *)
THEOREM FittingKeepsK ==
  ASSUME NEW in \in Nat, NEW ri \in Nat, NEW ro \in Nat, NEW out \in 0 .. ro,
         NEW fee \in 0 .. (FeeDenominator - 1), Fits(in, out, ri, ro, fee)
  PROVE  KNotDecreased(ri * ro, (ri + in) * (ro - out))
<1> DEFINE F == FeeDenominator
           net == in * (F - fee)
           left == ro - out
           after == (ri + in) * left
           before == ri * ro
<1>1. F \in Nat \ {0} /\ left \in Nat BY DozerMathAssumption, SMT
<1>2. net \in Int /\ net <= in * F BY <1>1, SMT
<1> HIDE DEF net, left
<1>3. ri * F \in Int /\ in * F \in Int BY <1>1, SMT
<1>4. (ri * F + net) * left <= (ri * F + in * F) * left
  <2> DEFINE x == ri * F + net
             y == ri * F + in * F
  <2>1. x \in Int /\ y \in Int /\ x <= y BY <1>2, <1>3, SMT
  <2> HIDE DEF x, y
  <2>2. x * left <= y * left BY <1>1, <2>1, SMT
  <2>3. QED BY <2>2 DEF x, y
<1>5. (ri * F + in * F) * left = after * F BY <1>1, SMT
<1>6. (ri * F + net) * left >= before * F BY DEF Fits, net, left
<1>7. before \in Int /\ after \in Int BY <1>1, SMT
<1>8. (ri * F + net) * left \in Int /\ after * F \in Int /\ before * F \in Int
  BY <1>1, <1>2, <1>3, <1>7, SMT
<1>9. after * F >= before * F BY <1>4, <1>5, <1>6, <1>8, SMT
<1> HIDE DEF after, before
<1>10. after >= before BY <1>1, <1>7, <1>9, SMT
<1>11. QED BY <1>10 DEF KNotDecreased, after, before, left

-----------------------------------------------------------------------------
(* The integer square root.  Newton's method is a recursion on guesses     *)
(* that shrink, so on the guesses up to any bound it has a solution        *)
(* (NewtonExists) and only one (NewtonUnique); together they are one       *)
(* solution for all guesses (NewtonRecursion).                             *)
Guesses == Nat \ {0}
NextGuess(n, z) == (n \div z + z) \div 2

\* f solves the recursion on the guesses up to m.
Descends(f, n, m) ==
  /\ f \in [1 .. m -> Nat]
  /\ \A z \in 1 .. m :
       f[z] = IF NextGuess(n, z) >= z THEN z ELSE f[NextGuess(n, z)]

LEMMA NextGuessType ==
  ASSUME NEW n \in Nat \ {0}, NEW z \in Guesses
  PROVE  NextGuess(n, z) \in Guesses
<1> DEFINE q == n \div z
<1>1. q \in Nat /\ (z = 1 => q >= 1) BY SMT DEF Guesses
<1> HIDE DEF q
<1>2. (q + z) \div 2 \in Guesses BY <1>1, SMT DEF Guesses
<1>3. QED BY <1>2 DEF NextGuess, q

LEMMA NewtonExists ==
  ASSUME NEW n \in Nat \ {0}
  PROVE  \A m \in Nat : \E f : Descends(f, n, m)
<1> DEFINE Bad == {m \in Nat : ~ \E f : Descends(f, n, m)}
<1>1. SUFFICES ASSUME Bad # {} PROVE FALSE OBVIOUS
<1>2. PICK m \in Bad : \A k \in Bad : m <= k
  <2>1. Bad \in SUBSET Nat OBVIOUS
  <2> HIDE DEF Bad
  <2>2. QED BY <1>1, <2>1, Least
<1>3. m \in Nat /\ ~ \E f : Descends(f, n, m) OBVIOUS
<1>4. CASE m = 0
  <2>1. Descends([z \in 1 .. m |-> z], n, m) BY <1>4, SMT DEF Descends
  <2>2. QED BY <1>3, <2>1
<1>5. CASE m # 0
  <2>1. m - 1 \in Nat /\ m \in Guesses BY <1>3, <1>5, SMT DEF Guesses
  <2>2. PICK f : Descends(f, n, m - 1)
    <3>1. m - 1 \notin Bad
      <4> HIDE DEF Bad
      <4>1. QED BY <1>2, <1>3, <2>1, SMT
    <3>2. QED BY <2>1, <3>1
  <2> DEFINE x == NextGuess(n, m)
             g == [z \in 1 .. m |-> IF z # m THEN f[z] ELSE IF x >= m THEN m ELSE f[x]]
  <2>3. x \in Guesses BY <2>1, NextGuessType
  <2> HIDE DEF x
  <2>4. x < m => x \in 1 .. (m - 1) BY <1>3, <2>1, <2>3, SMT DEF Guesses
  <2>5. f \in [1 .. (m - 1) -> Nat]
        /\ \A z \in 1 .. (m - 1) :
             f[z] = IF NextGuess(n, z) >= z THEN z ELSE f[NextGuess(n, z)]
    BY <2>2 DEF Descends
  <2>6. \A z \in 1 .. m : z # m => z \in 1 .. (m - 1) BY <1>3, SMT
  <2>7. \A z \in 1 .. m : g[z] \in Nat
    <3> SUFFICES ASSUME NEW z \in 1 .. m PROVE g[z] \in Nat OBVIOUS
    <3>1. CASE z # m BY <2>5, <2>6, <3>1
    <3>2. CASE z = m /\ x >= m BY <1>3, <3>2
    <3>3. CASE z = m /\ ~ (x >= m)
      <4>1. x < m BY <1>3, <2>3, <3>3, SMT DEF Guesses
      <4>2. QED BY <2>4, <2>5, <3>3, <4>1
    <3>4. QED BY <3>1, <3>2, <3>3
  <2>8. \A z \in 1 .. m : g[z] = IF NextGuess(n, z) >= z THEN z ELSE g[NextGuess(n, z)]
    <3> SUFFICES ASSUME NEW z \in 1 .. m
                 PROVE  g[z] = IF NextGuess(n, z) >= z THEN z ELSE g[NextGuess(n, z)]
      OBVIOUS
    <3>1. z \in Guesses BY SMT DEF Guesses
    <3> DEFINE y == NextGuess(n, z)
    <3>2. y \in Guesses BY <3>1, NextGuessType
    <3>3. CASE z = m
      <4>1. y = x BY <3>3 DEF x
      <4> HIDE DEF y
      <4>2. CASE x >= m BY <3>3, <4>1, <4>2 DEF y
      <4>3. CASE ~ (x >= m)
        <5>1. x < m BY <1>3, <2>3, <4>3, SMT DEF Guesses
        <5>2. x \in 1 .. m /\ x # m BY <1>3, <2>3, <5>1, SMT DEF Guesses
        <5>3. g[x] = f[x] BY <5>2
        <5>4. g[m] = f[x] BY <3>3, <4>3
        <5> HIDE DEF g
        <5>5. QED BY <3>3, <4>1, <4>3, <5>3, <5>4 DEF y
      <4>4. QED BY <4>2, <4>3
    <3>4. CASE z # m
      <4> HIDE DEF y
      <4>1. f[z] = IF y >= z THEN z ELSE f[y] BY <2>5, <2>6, <3>4 DEF y
      <4>2. ~ (y >= z) => y \in 1 .. m /\ y # m BY <1>3, <3>1, <3>2, SMT DEF Guesses
      <4>3. ~ (y >= z) => g[y] = f[y] BY <4>2
      <4>4. g[z] = f[z] BY <3>4
      <4> HIDE DEF g
      <4>5. QED BY <4>1, <4>3, <4>4 DEF y
    <3>5. QED BY <3>3, <3>4
  <2>9. Descends(g, n, m)
    <3>1. g \in [1 .. m -> Nat]
      <4>1. g = [z \in 1 .. m |-> g[z]] OBVIOUS
      <4> HIDE DEF g
      <4>2. QED BY <2>7, <4>1
    <3> HIDE DEF g
    <3>2. QED BY <2>8, <3>1 DEF Descends
  <2>10. QED BY <1>3, <2>9
<1>6. QED BY <1>4, <1>5

LEMMA NewtonUnique ==
  ASSUME NEW n \in Nat \ {0}, NEW l \in Nat, NEW m \in Nat, l <= m, NEW f, NEW g,
         Descends(f, n, l), Descends(g, n, m)
  PROVE  \A z \in 1 .. l : f[z] = g[z]
<1> DEFINE Bad == {z \in 1 .. l : f[z] # g[z]}
<1>1. SUFFICES ASSUME Bad # {} PROVE FALSE OBVIOUS
<1>2. PICK z \in Bad : \A k \in Bad : z <= k
  <2>1. Bad \in SUBSET Nat OBVIOUS
  <2> HIDE DEF Bad
  <2>2. QED BY <1>1, <2>1, Least
<1>3. z \in 1 .. l /\ z \in 1 .. m /\ z \in Guesses /\ f[z] # g[z] BY SMT DEF Guesses
<1> DEFINE x == NextGuess(n, z)
<1>4. x \in Guesses BY <1>3, NextGuessType
<1>5. /\ f[z] = IF x >= z THEN z ELSE f[x]
      /\ g[z] = IF x >= z THEN z ELSE g[x]
  BY <1>3 DEF Descends
<1> HIDE DEF x
<1>6. ~ (x >= z) /\ f[x] # g[x] BY <1>3, <1>5
<1>7. x \in 1 .. l /\ x < z BY <1>3, <1>4, <1>6, SMT DEF Guesses
<1>8. x \in Bad BY <1>6, <1>7
<1> HIDE DEF Bad
<1>9. z <= x BY <1>2, <1>8
<1>10. QED BY <1>3, <1>7, <1>9, SMT

\* The recursion of Newton, as a function on all guesses.
Descent(n) ==
  CHOOSE root : root = [z \in Nat \ {0} |->
    IF (n \div z + z) \div 2 >= z THEN z ELSE root[(n \div z + z) \div 2]]

LEMMA NewtonRecursion ==
  ASSUME NEW n \in Nat \ {0}
  PROVE  /\ \A z \in Guesses : /\ Newton(n, z) = Descent(n)[z]
                               /\ Descent(n)[z] = IF NextGuess(n, z) >= z THEN z
                                                  ELSE Descent(n)[NextGuess(n, z)]
<1> DEFINE F(m) == CHOOSE f : Descends(f, n, m)
           all == [z \in Guesses |-> F(z)[z]]
           Body(r) == [z \in Nat \ {0} |->
             IF (n \div z + z) \div 2 >= z THEN z ELSE r[(n \div z + z) \div 2]]
<1>1. \A m \in Nat : Descends(F(m), n, m) BY NewtonExists
<1>2. \A z \in Guesses : all[z] = IF NextGuess(n, z) >= z THEN z ELSE all[NextGuess(n, z)]
  <2> SUFFICES ASSUME NEW z \in Guesses
               PROVE  all[z] = IF NextGuess(n, z) >= z THEN z ELSE all[NextGuess(n, z)]
    OBVIOUS
  <2> DEFINE x == NextGuess(n, z)
  <2>1. x \in Guesses BY NextGuessType
  <2>2. z \in Nat /\ z \in 1 .. z BY SMT DEF Guesses
  <2> HIDE DEF F
  <2>3. F(z)[z] = IF x >= z THEN z ELSE F(z)[x] BY <1>1, <2>2 DEF Descends
  <2>4. all[z] = F(z)[z] /\ all[x] = F(x)[x] BY <2>1
  <2>5. ~ (x >= z) => F(x)[x] = F(z)[x]
    <3> SUFFICES ASSUME ~ (x >= z) PROVE F(x)[x] = F(z)[x] OBVIOUS
    <3> HIDE DEF x
    <3>1. x \in Nat /\ x <= z /\ x \in 1 .. x BY <2>1, SMT DEF Guesses
    <3>2. Descends(F(x), n, x) /\ Descends(F(z), n, z) BY <1>1, <2>2, <3>1
    <3>3. QED BY <2>2, <3>1, <3>2, NewtonUnique
  <2> HIDE DEF all
  <2>6. QED BY <2>3, <2>4, <2>5
<1>3. all = Body(all)
  <2> HIDE DEF F
  <2>1. \A z \in Guesses : Body(all)[z] = IF NextGuess(n, z) >= z THEN z ELSE all[NextGuess(n, z)]
    <3> HIDE DEF all
    <3>1. QED BY DEF NextGuess, Guesses
  <2>2. all = [z \in Guesses |-> all[z]] OBVIOUS
  <2>3. Body(all) = [z \in Guesses |-> Body(all)[z]]
    <3> HIDE DEF all
    <3>1. QED BY DEF Guesses
  <2> HIDE DEF all, Body
  <2>4. \A z \in Guesses : all[z] = Body(all)[z] BY <1>2, <2>1
  <2>5. QED BY <2>2, <2>3, <2>4
<1>4. Descent(n) = Body(Descent(n))
  <2> HIDE DEF all
  <2>1. QED BY <1>3 DEF Descent
<1>5. \A z : Newton(n, z) = Descent(n)[z] BY DEF Newton, Descent
<1>6. \A z \in Guesses : Body(Descent(n))[z]
        = IF NextGuess(n, z) >= z THEN z ELSE Descent(n)[NextGuess(n, z)]
  <2> DEFINE D == Descent(n)
  <2> HIDE DEF D
  <2>1. \A z \in Guesses : Body(D)[z] = IF NextGuess(n, z) >= z THEN z ELSE D[NextGuess(n, z)]
    BY DEF Guesses, NextGuess
  <2>2. QED BY <2>1 DEF D
<1> HIDE DEF Body
<1>7. QED BY <1>4, <1>5, <1>6

\* r is the root of n, rounded down.
IsRoot(r, n) == r \in Nat /\ r * r <= n /\ n < (r + 1) * (r + 1)

(* The guess after one above the root is above the root, too: the square   *)
(* of half a sum is at least the product. *)
LEMMA StaysAbove ==
  ASSUME NEW n \in Nat \ {0}, NEW z \in Guesses
  PROVE  n < (NextGuess(n, z) + 1) * (NextGuess(n, z) + 1)
<1> DEFINE q == n \div z
           x == NextGuess(n, z)
<1>1. q \in Nat /\ n < (q + 1) * z BY FloorBounds DEF Guesses
<1>2. x \in Guesses BY NextGuessType
<1>3. q + z <= 2 * x + 1
  <2>1. x = (q + z) \div 2 BY DEF NextGuess
  <2> HIDE DEF q, x
  <2>2. QED BY <1>1, <1>2, <2>1, SMT DEF Guesses
<1> HIDE DEF q, x
<1> DEFINE a == q + 1
           b == 2 * x + 2
<1>4. a \in Nat /\ b \in Nat /\ z \in Nat /\ a + z <= b BY <1>1, <1>2, <1>3, SMT DEF Guesses
<1>5. b * b = 4 * ((x + 1) * (x + 1)) BY <1>2, SMT DEF Guesses
<1>6. n < a * z BY <1>1
<1> HIDE DEF a, b
<1>7. (a + z) * (a + z) = 4 * (a * z) + (a - z) * (a - z) BY <1>4, SMT
<1>8. (a - z) * (a - z) >= 0
  <2>1. CASE a >= z BY <1>4, <2>1, SMT
  <2>2. CASE a < z BY <1>4, <2>2, SMT
  <2>3. QED BY <1>4, <2>1, <2>2, SMT
<1>9. (a + z) * (a + z) <= b * b
  <2>1. (a + z) * (a + z) <= (a + z) * b BY <1>4, SMT
  <2>2. (a + z) * b <= b * b BY <1>4, SMT
  <2>3. QED BY <1>4, <2>1, <2>2, SMT
<1> DEFINE az == a * z
           sq == (x + 1) * (x + 1)
           rest == (a - z) * (a - z)
<1>10. az \in Int /\ sq \in Int /\ rest \in Int BY <1>2, <1>4, SMT DEF Guesses
<1>11. 4 * az + rest <= 4 * sq BY <1>5, <1>7, <1>9
<1>12. n < az /\ rest >= 0 BY <1>6, <1>8
<1> HIDE DEF az, sq, rest
<1>13. n < sq BY <1>10, <1>11, <1>12, SMT
<1>14. QED BY <1>13 DEF sq, x

(* From any guess above the root Newton's method ends with the root,       *)
(* rounded down: from half the number and from a guess by its number of    *)
(* bits (_isqrt). *)
THEOREM NewtonFindsRoot ==
  ASSUME NEW n \in Nat \ {0}, NEW g \in Guesses, n < (g + 1) * (g + 1)
  PROVE  IsRoot(Newton(n, g), n)
<1> DEFINE D == Descent(n)
           Bad == {z \in Guesses : n < (z + 1) * (z + 1) /\ ~ IsRoot(D[z], n)}
<1>1. \A z \in Guesses : Newton(n, z) = D[z]
                         /\ D[z] = IF NextGuess(n, z) >= z THEN z ELSE D[NextGuess(n, z)]
  BY NewtonRecursion
<1> HIDE DEF D
<1>2. SUFFICES ASSUME Bad # {} PROVE FALSE BY <1>1
<1>3. PICK z \in Bad : \A k \in Bad : z <= k
  <2>1. Bad \in SUBSET Nat BY DEF Guesses
  <2> HIDE DEF Bad
  <2>2. QED BY <1>2, <2>1, Least
<1>4. z \in Guesses /\ z \in Nat /\ n < (z + 1) * (z + 1) /\ ~ IsRoot(D[z], n) BY DEF Guesses
<1> DEFINE x == NextGuess(n, z)
<1>5. x \in Guesses /\ n < (x + 1) * (x + 1) BY <1>4, NextGuessType, StaysAbove
<1>6. CASE x >= z
  <2>1. D[z] = z BY <1>1, <1>4, <1>6
  <2>2. n \div z \in Nat /\ (n \div z) * z <= n BY <1>4, FloorBounds DEF Guesses
  <2>3. n \div z >= z
    <3> DEFINE q == n \div z
    <3>1. x = (q + z) \div 2 BY DEF NextGuess
    <3> HIDE DEF q, x
    <3>2. q \in Nat BY <2>2 DEF q
    <3>3. q >= z BY <1>4, <1>6, <3>1, <3>2, SMT
    <3>4. QED BY <3>3 DEF q
  <2> DEFINE q == n \div z
  <2> HIDE DEF q
  <2>4. z * z <= q * z BY <1>4, <2>2, <2>3, SMT DEF q
  <2>5. q * z <= n /\ q * z \in Int BY <1>4, <2>2, SMT DEF q
  <2>6. z * z <= n BY <1>4, <2>4, <2>5, SMT
  <2>7. QED BY <1>4, <2>1, <2>6 DEF IsRoot
<1>7. CASE ~ (x >= z)
  <2>1. D[z] = D[x] BY <1>1, <1>4, <1>7
  <2>2. x \in Bad BY <1>4, <1>5, <2>1
  <2> HIDE DEF Bad, x
  <2>3. z <= x BY <1>3, <2>2
  <2>4. QED BY <1>4, <1>5, <1>7, <2>3, SMT DEF Guesses
<1>8. QED BY <1>6, <1>7

(* The integer square root is the root of every number, rounded down       *)
(* (_isqrt). *)
THEOREM IsqrtIsRoot ==
  ASSUME NEW n \in Nat
  PROVE  IsRoot(Isqrt(n), n)
<1>1. CASE n = 0 BY <1>1, SMT DEF Isqrt, IsRoot
<1>2. CASE n # 0 /\ n <= 3 BY <1>2, SMT DEF Isqrt, IsRoot
<1>3. CASE n > 3
  <2> DEFINE g == n \div 2 + 1
  <2>1. g \in Guesses /\ n <= 2 * g - 1 BY <1>3, SMT DEF Guesses
  <2>2. Isqrt(n) = Newton(n, g) BY <1>3, SMT DEF Isqrt
  <2> HIDE DEF g
  <2>3. g * g >= 0 /\ (g + 1) * (g + 1) = g * g + 2 * g + 1 BY <2>1, SMT DEF Guesses
  <2>4. n < (g + 1) * (g + 1) BY <1>3, <2>1, <2>3, SMT DEF Guesses
  <2>5. QED BY <1>3, <2>1, <2>2, <2>4, NewtonFindsRoot
<1>4. QED BY <1>1, <1>2, <1>3, SMT

LEMMA IsqrtMonotone ==
  ASSUME NEW m \in Nat, NEW n \in Nat, m <= n
  PROVE  Isqrt(m) \in Nat /\ Isqrt(n) \in Nat /\ Isqrt(m) <= Isqrt(n)
<1> DEFINE r == Isqrt(m)
           s == Isqrt(n)
<1>1. IsRoot(r, m) /\ IsRoot(s, n) BY IsqrtIsRoot
<1> HIDE DEF r, s
<1>2. r \in Nat /\ s \in Nat /\ r * r <= m /\ n < (s + 1) * (s + 1) BY <1>1 DEF IsRoot
<1>3. r <= s
  <2>1. SUFFICES ASSUME s + 1 <= r PROVE FALSE BY <1>2, SMT
  <2>2. (s + 1) * (s + 1) <= (s + 1) * r BY <1>2, <2>1, SMT
  <2>3. (s + 1) * r <= r * r BY <1>2, <2>1, SMT
  <2>4. QED BY <1>2, <2>2, <2>3, SMT
<1>4. QED BY <1>2, <1>3 DEF r, s

-----------------------------------------------------------------------------
(* What a pool keeps in its books, and the changes the methods put         *)
(* together: the average price, the change of a user, liquidity, reserves. *)
(* A pool is well typed, and its totals are the sums of what its users have. *)
PoolRecords(k) ==
  [reserve : [TokensOf(k) -> Nat \ {0}], change : [TokensOf(k) -> Nat],
   liquidity : Nat \ {0}, userLiquidity : [Addresses -> Nat],
   userChange : [Addresses -> [TokensOf(k) -> Nat]],
   windowSum : [TokensOf(k) -> Nat], stamp : Nat \ {0}, window : Nat \ {0}]

Books(k, p, b) ==
  /\ p.liquidity = b + SumFunctionOnSet(p.userLiquidity, Addresses)
  /\ \A t \in TokensOf(k) :
       p.change[t] = SumFunctionOnSet([u \in Addresses |-> p.userChange[u][t]], Addresses)

PoolInv(k, p, b) == p \in PoolRecords(k) /\ Books(k, p, b)

\* The window sums of a pool brought to the current block.
Averages(k, p) ==
  IF p.stamp = now THEN p.windowSum
  ELSE [t \in TokensOf(k) |->
          WindowSum(p.windowSum[t], Price(k, p, t), now - p.stamp, p.window)]

(* What each of the model's changes of a pool leaves: p is the pool before  *)
(* it and q after it. *)
AfterTwap(k, p, q, b) ==
  /\ PoolInv(k, q, b) /\ q.stamp = now /\ q.window = p.window
  /\ q.windowSum = Averages(k, p)
  /\ q.reserve = p.reserve /\ q.change = p.change
  /\ q.liquidity = p.liquidity /\ q.userLiquidity = p.userLiquidity
  /\ q.userChange = p.userChange

\* What the next changes leave alone.
SameWindow(p, q) ==
  q.window = p.window /\ q.stamp = p.stamp /\ q.windowSum = p.windowSum

AfterChange(k, p, q, b, t, amount) ==
  /\ PoolInv(k, q, b) /\ SameWindow(p, q)
  /\ q.reserve = p.reserve /\ q.liquidity = p.liquidity
  /\ q.userLiquidity = p.userLiquidity
  /\ \A x \in TokensOf(k) :
       q.change[x] = IF x = t THEN p.change[x] + amount ELSE p.change[x]

AfterLiquidity(k, p, q, b, amount) ==
  /\ PoolInv(k, q, b) /\ SameWindow(p, q) /\ q.reserve = p.reserve
  /\ q.change = p.change /\ q.userChange = p.userChange
  /\ q.liquidity = p.liquidity + amount

AfterReserves(k, p, q, b, x, y) ==
  /\ PoolInv(k, q, b) /\ SameWindow(p, q)
  /\ q.change = p.change /\ q.userChange = p.userChange
  /\ q.liquidity = p.liquidity /\ q.userLiquidity = p.userLiquidity
  /\ q.reserve[k[1]] = x /\ q.reserve[k[2]] = y

AfterExchange(k, p, q, b, t, in, out) ==
  /\ PoolInv(k, q, b) /\ SameWindow(p, q)
  /\ q.change = p.change /\ q.userChange = p.userChange
  /\ q.reserve[t] = p.reserve[t] + in
  /\ q.reserve[Other(k, t)] = p.reserve[Other(k, t)] - out

LEMMA TokensOfKey ==
  ASSUME NEW k \in Keys
  PROVE  /\ k[1] \in Tokens /\ k[2] \in Tokens /\ k[1] # k[2] /\ Fee(k) \in Nat
         /\ TokensOf(k) \subseteq Tokens /\ k[1] \in TokensOf(k) /\ k[2] \in TokensOf(k)
         /\ \A t \in TokensOf(k) : Other(k, t) \in TokensOf(k) /\ Other(k, t) # t
                                   /\ TokensOf(k) = {t, Other(k, t)}
<1>1. k \in Tokens \X Tokens \X Nat /\ k[1] < k[2] /\ Tokens \subseteq Nat
  BY DozerAssumption
<1>2. k[1] \in Tokens /\ k[2] \in Tokens /\ k[3] \in Nat BY <1>1
<1>3. k[1] # k[2]
  <2>1. \A x, y \in Nat : x < y => x # y BY SMT
  <2>2. QED BY <1>1, <1>2, <2>1
<1>4. QED BY <1>2, <1>3 DEF TokensOf, Other, Fee

LEMMA SpotPriceNat ==
  ASSUME NEW r \in Nat \ {0}, NEW s \in Nat
  PROVE  SpotPrice(r, s) \in Nat
<1>1. PricePrecision \in Nat BY DozerMathAssumption
<1>2. s * PricePrecision \in Nat BY <1>1, Products
<1>3. QED BY <1>2, FloorBounds DEF SpotPrice

LEMMA WindowSumNat ==
  ASSUME NEW sum \in Nat, NEW price \in Nat, NEW elapsed \in Nat, NEW window \in Nat \ {0}
  PROVE  WindowSum(sum, price, elapsed, window) \in Nat
<1> DEFINE remaining == IF elapsed < window THEN window - elapsed ELSE 0
           weight    == IF elapsed < window THEN elapsed ELSE window
<1>1. remaining \in Nat /\ weight \in Nat BY SMT
<1> HIDE DEF remaining, weight
<1>2. sum * remaining \in Nat /\ price * weight \in Nat BY <1>1, Products
<1>3. (sum * remaining) \div window \in Nat BY <1>2, FloorBounds
<1>4. price * weight + (sum * remaining) \div window \in Nat BY <1>2, <1>3, SMT
<1>5. QED BY <1>4 DEF WindowSum, remaining, weight

LEMMA TwapPool ==
  ASSUME NEW k \in Keys, NEW p, NEW b, PoolInv(k, p, b),
         now \in Nat \ {0}, p.stamp <= now
  PROVE  AfterTwap(k, p, WithTwap(k, p), b)
<1> DEFINE sums == [t \in TokensOf(k) |->
                      WindowSum(p.windowSum[t], Price(k, p, t), now - p.stamp, p.window)]
           q == WithTwap(k, p)
<1>1. p \in PoolRecords(k) /\ Books(k, p, b) BY DEF PoolInv
<1>2. CASE p.stamp = now BY <1>1, <1>2 DEF WithTwap, PoolInv, AfterTwap, Averages
<1>3. CASE p.stamp # now
  <2>1. q = [p EXCEPT !.windowSum = sums, !.stamp = now] BY <1>3 DEF WithTwap
  <2>2. sums \in [TokensOf(k) -> Nat]
    <3> SUFFICES ASSUME NEW t \in TokensOf(k)
                 PROVE  WindowSum(p.windowSum[t], Price(k, p, t), now - p.stamp, p.window) \in Nat
      OBVIOUS
    <3>1. Other(k, t) \in TokensOf(k) BY TokensOfKey
    <3>2. p.windowSum[t] \in Nat /\ p.reserve[t] \in Nat \ {0} /\ p.reserve[Other(k, t)] \in Nat
          /\ p.window \in Nat \ {0} /\ p.stamp \in Nat
      BY <1>1, <3>1 DEF PoolRecords
    <3>3. Price(k, p, t) \in Nat BY <3>2, SpotPriceNat DEF Price
    <3>4. now - p.stamp \in Nat BY <1>1, <3>2, SMT
    <3>5. QED BY <3>2, <3>3, <3>4, WindowSumNat
  <2>6. Averages(k, p) = sums BY <1>3 DEF Averages
  <2> HIDE DEF sums, q
  <2>3. /\ q.windowSum = sums
        /\ q \in PoolRecords(k) /\ q.stamp = now /\ q.window = p.window
        /\ q.reserve = p.reserve /\ q.change = p.change
        /\ q.liquidity = p.liquidity /\ q.userLiquidity = p.userLiquidity
        /\ q.userChange = p.userChange
    BY <1>1, <2>1, <2>2 DEF PoolRecords
  <2>4. Books(k, q, b) BY <1>1, <2>3 DEF Books
  <2>5. PoolInv(k, q, b) BY <2>3, <2>4 DEF PoolInv
  <2>7. QED BY <2>3, <2>5, <2>6 DEF q, AfterTwap
<1>4. QED BY <1>2, <1>3

LEMMA ChangePool ==
  ASSUME NEW k \in Keys, NEW p, NEW b, PoolInv(k, p, b),
         NEW u \in Addresses, NEW t \in TokensOf(k), NEW amount \in Nat
  PROVE  AfterChange(k, p, WithChange(p, u, t, amount), b, t, amount)
<1> DEFINE q == WithChange(p, u, t, amount)
           mine == [p.userChange[u] EXCEPT ![t] = @ + amount]
           table(r) == [x \in TokensOf(k) |-> [v \in Addresses |-> r.userChange[v][x]]]
<1>1. p \in PoolRecords(k) /\ Books(k, p, b) BY DEF PoolInv
<1>2. p.change \in [TokensOf(k) -> Nat] /\ p.userChange \in [Addresses -> [TokensOf(k) -> Nat]]
  BY <1>1 DEF PoolRecords
<1>3. mine \in [TokensOf(k) -> Nat]
  BY <1>2
<1> HIDE DEF mine
<1>4. q = [p EXCEPT !.userChange = [p.userChange EXCEPT ![u] = mine],
                    !.change = [p.change EXCEPT ![t] = @ + amount]]
  BY DEF WithChange, mine
<1>6. [p.change EXCEPT ![t] = @ + amount] \in [TokensOf(k) -> Nat] BY <1>2
<1> HIDE DEF q
<1>7. /\ q \in PoolRecords(k) /\ q.window = p.window /\ q.stamp = p.stamp
      /\ q.windowSum = p.windowSum
      /\ q.reserve = p.reserve /\ q.liquidity = p.liquidity
      /\ q.userLiquidity = p.userLiquidity
      /\ q.change = [p.change EXCEPT ![t] = @ + amount]
      /\ q.userChange = [p.userChange EXCEPT ![u] = mine]
  BY <1>1, <1>2, <1>3, <1>4, <1>6 DEF PoolRecords
<1>8. ASSUME NEW x \in TokensOf(k)
      PROVE  q.change[x] = SumFunctionOnSet([v \in Addresses |-> q.userChange[v][x]], Addresses)
  <2> DEFINE f == [v \in Addresses |-> p.userChange[v][x]]
             g == [v \in Addresses |-> q.userChange[v][x]]
  <2>1. f \in [Addresses -> Nat] /\ p.change[x] = SumFunctionOnSet(f, Addresses)
    BY <1>1, <1>2 DEF Books
  <2>2. \A v \in Addresses \ {u} : g[v] = f[v] BY <1>2, <1>7
  <2>3. g[u] = mine[x] /\ f[u] = p.userChange[u][x] BY <1>2, <1>7
  <2>4. g \in [Addresses -> Nat]
    <3>1. \A v \in Addresses : q.userChange[v] \in [TokensOf(k) -> Nat] BY <1>7 DEF PoolRecords
    <3>2. QED BY <3>1
  <2>5. mine[x] = IF x = t THEN f[u] + amount ELSE f[u] BY <1>2 DEF mine
  <2>6. q.change[x] = IF x = t THEN p.change[x] + amount ELSE p.change[x] BY <1>2, <1>7
  <2>7. IsFiniteSet(Addresses) BY DozerAssumption
  <2> HIDE DEF f, g
  <2>8. f \in [Addresses -> Int] /\ g \in [Addresses -> Int] BY <2>1, <2>4
  <2>9. SumFunctionOnSet(g, Addresses) = SumFunctionOnSet(f, Addresses) - f[u] + g[u]
        /\ SumFunctionOnSet(f, Addresses) \in Int
    BY <2>2, <2>7, <2>8, SumUpdate
  <2>10. f[u] \in Nat BY <2>1
  <2>11. q.change[x] = SumFunctionOnSet(g, Addresses)
    BY <2>1, <2>3, <2>5, <2>6, <2>9, <2>10, SMT
  <2>12. QED BY <2>11 DEF g
<1>9. PoolInv(k, q, b)
  <2>1. Books(k, q, b) BY <1>1, <1>7, <1>8 DEF Books
  <2>2. QED BY <1>1, <1>7, <2>1 DEF PoolInv
<1>10. QED BY <1>2, <1>7, <1>9 DEF q, AfterChange, SameWindow

LEMMA LiquidityPool ==
  ASSUME NEW k \in Keys, NEW p, NEW b \in Nat \ {0}, PoolInv(k, p, b),
         NEW u \in Addresses, NEW amount \in Int, p.userLiquidity[u] + amount >= 0
  PROVE  AfterLiquidity(k, p, WithLiquidity(p, u, amount), b, amount)
<1> DEFINE q == WithLiquidity(p, u, amount)
           f == p.userLiquidity
           g == [f EXCEPT ![u] = @ + amount]
<1>1. p \in PoolRecords(k) /\ Books(k, p, b) BY DEF PoolInv
<1>2. f \in [Addresses -> Nat] /\ p.liquidity \in Nat BY <1>1 DEF PoolRecords
<1> HIDE DEF f
<1>3. f[u] \in Nat /\ f[u] + amount \in Nat
  <2>1. f[u] \in Nat BY <1>2
  <2>2. f[u] + amount >= 0 BY DEF f
  <2>3. QED BY <2>1, <2>2, SMT
<1>4. g \in [Addresses -> Nat] /\ g[u] = f[u] + amount /\ \A v \in Addresses \ {u} : g[v] = f[v]
  BY <1>2, <1>3
<1>5. IsFiniteSet(Addresses) BY DozerAssumption
<1>6. q = [p EXCEPT !.userLiquidity = g, !.liquidity = p.liquidity + amount]
  BY DEF WithLiquidity, f
<1> HIDE DEF g, q
<1>7. f \in [Addresses -> Int] /\ g \in [Addresses -> Int] BY <1>2, <1>4
<1>8. SumFunctionOnSet(g, Addresses) = SumFunctionOnSet(f, Addresses) - f[u] + g[u]
      /\ SumFunctionOnSet(f, Addresses) \in Int
  BY <1>4, <1>5, <1>7, SumUpdate
<1>9. SumFunctionOnSet(g, Addresses) \in Nat BY <1>4, <1>5, SumBounds
<1>10. p.liquidity = b + SumFunctionOnSet(f, Addresses) BY <1>1 DEF Books, f
<1>11. p.liquidity + amount = b + SumFunctionOnSet(g, Addresses)
  BY <1>2, <1>3, <1>4, <1>8, <1>10, SMT
<1>12. p.liquidity + amount \in Nat \ {0} BY <1>9, <1>11, SMT
<1>13. /\ q \in PoolRecords(k) /\ q.window = p.window /\ q.stamp = p.stamp
       /\ q.windowSum = p.windowSum /\ q.reserve = p.reserve
       /\ q.change = p.change /\ q.userChange = p.userChange
       /\ q.liquidity = p.liquidity + amount /\ q.userLiquidity = g
  BY <1>1, <1>4, <1>6, <1>12 DEF PoolRecords
<1>14. Books(k, q, b) BY <1>1, <1>11, <1>13 DEF Books
<1>15. PoolInv(k, q, b) BY <1>1, <1>13, <1>14 DEF PoolInv
<1>16. QED BY <1>13, <1>15 DEF q, g, f, AfterLiquidity, SameWindow

LEMMA ReservesPool ==
  ASSUME NEW k \in Keys, NEW p, NEW b, PoolInv(k, p, b),
         NEW x \in Nat \ {0}, NEW y \in Nat \ {0}
  PROVE  AfterReserves(k, p, WithReserves(k, p, x, y), b, x, y)
<1> DEFINE q == WithReserves(k, p, x, y)
           r == [t \in TokensOf(k) |-> IF t = k[1] THEN x ELSE y]
<1>1. p \in PoolRecords(k) /\ Books(k, p, b) BY DEF PoolInv
<1>2. q = [p EXCEPT !.reserve = r] BY DEF WithReserves
<1>3. r \in [TokensOf(k) -> Nat \ {0}] /\ r[k[1]] = x /\ r[k[2]] = y BY TokensOfKey
<1> HIDE DEF q, r
<1>4. /\ q \in PoolRecords(k) /\ q.window = p.window /\ q.stamp = p.stamp
      /\ q.windowSum = p.windowSum
      /\ q.change = p.change /\ q.userChange = p.userChange
      /\ q.liquidity = p.liquidity /\ q.userLiquidity = p.userLiquidity
      /\ q.reserve = r
  BY <1>1, <1>2, <1>3 DEF PoolRecords
<1>5. Books(k, q, b) BY <1>1, <1>4 DEF Books
<1>6. PoolInv(k, q, b) BY <1>1, <1>4, <1>5 DEF PoolInv
<1>7. QED BY <1>3, <1>4, <1>6 DEF q, AfterReserves, SameWindow

-----------------------------------------------------------------------------
(* Quotients, the administrative record, and the exchange of a swap.       *)
(* Bounds of quotients by what their dividend is less than. *)
LEMMA FloorAtMost ==
  ASSUME NEW n \in Nat, NEW d \in Nat \ {0}, NEW q \in Nat
  PROVE  /\ n <= q * d => n \div d <= q /\ CeilDiv(n, d) <= q
         /\ n < q * d => n \div d < q
<1> DEFINE m == n + d - 1
           f == n \div d
           c == m \div d
<1>1. f \in Nat /\ f * d <= n BY FloorBounds
<1>2. m \in Nat BY SMT
<1>3. c \in Nat /\ c * d <= m
  <2> HIDE DEF m
  <2>1. QED BY <1>2, FloorBounds
<1>4. CeilDiv(n, d) = c BY DEF CeilDiv
<1>5. m < n + d BY SMT
<1> HIDE DEF f, c, m
<1>6. ASSUME n <= q * d, ~ (f <= q) PROVE FALSE
  <2>1. f >= q + 1 BY <1>1, <1>6, SMT
  <2>2. f * d >= (q + 1) * d BY <1>1, <2>1, SMT
  <2>3. (q + 1) * d = q * d + d /\ q * d \in Int BY SMT
  <2>4. QED BY <1>1, <1>6, <2>2, <2>3, SMT
<1>7. ASSUME n < q * d, ~ (f < q) PROVE FALSE
  <2>1. f >= q BY <1>1, <1>7, SMT
  <2>2. f * d >= q * d /\ q * d \in Int BY <1>1, <2>1, SMT
  <2>3. QED BY <1>1, <1>7, <2>2, SMT
<1>8. ASSUME n <= q * d, ~ (c <= q) PROVE FALSE
  <2>1. c >= q + 1 BY <1>3, <1>8, SMT
  <2>2. c * d >= (q + 1) * d BY <1>3, <2>1, SMT
  <2>3. (q + 1) * d = q * d + d /\ q * d \in Int BY SMT
  <2>4. QED BY <1>2, <1>3, <1>5, <1>8, <2>2, <2>3, SMT
<1>9. QED BY <1>4, <1>6, <1>7, <1>8 DEF f

LEMMA QuoteBounds ==
  ASSUME NEW a \in Nat, NEW r \in Nat \ {0}, NEW s \in Nat \ {0}
  PROVE  /\ Quote(a, r, s) \in Nat
         /\ a < r => Quote(a, r, s) < s
<1>1. a * s \in Nat BY Products
<1>2. a < r => a * s < s * r BY SMT
<1>3. QED BY <1>1, <1>2, FloorBounds, FloorAtMost DEF Quote

\* Quote is below what is there, so the amount quoted back is below the other.
LEMMA QuoteBack ==
  ASSUME NEW a \in Nat, NEW c \in Nat, NEW r \in Nat \ {0}, NEW s \in Nat \ {0},
         ~ (Quote(a, r, s) <= c)
  PROVE  Quote(c, s, r) <= a
<1> DEFINE q == Quote(a, r, s)
<1>1. a * s \in Nat /\ c * r \in Nat BY Products
<1>2. q \in Nat /\ q * r <= a * s BY <1>1, FloorBounds DEF Quote
<1> HIDE DEF q
<1>3. c <= q BY <1>2 DEF q
<1>4. c * r <= q * r /\ q * r \in Int BY <1>2, <1>3, SMT
<1>5. c * r <= a * s BY <1>1, <1>2, <1>4, SMT
<1>6. QED BY <1>1, <1>5, FloorAtMost DEF Quote

LEMMA PoolTypes ==
  ASSUME NEW k \in Keys, NEW p, NEW b \in Nat \ {0}, PoolInv(k, p, b)
  PROVE  /\ p.reserve \in [TokensOf(k) -> Nat \ {0}] /\ p.change \in [TokensOf(k) -> Nat]
         /\ p.liquidity \in Nat \ {0} /\ p.userLiquidity \in [Addresses -> Nat]
         /\ p.userChange \in [Addresses -> [TokensOf(k) -> Nat]]
         /\ p.windowSum \in [TokensOf(k) -> Nat]
         /\ p.stamp \in Nat \ {0} /\ p.window \in Nat \ {0}
         /\ p.reserve[k[1]] \in Nat \ {0} /\ p.reserve[k[2]] \in Nat \ {0}
         /\ \A u \in Addresses : p.userLiquidity[u] \in Nat /\ p.userLiquidity[u] < p.liquidity
<1>1. p \in PoolRecords(k) /\ Books(k, p, b) BY DEF PoolInv
<1>2. /\ p.reserve \in [TokensOf(k) -> Nat \ {0}] /\ p.change \in [TokensOf(k) -> Nat]
      /\ p.liquidity \in Nat \ {0} /\ p.userLiquidity \in [Addresses -> Nat]
      /\ p.userChange \in [Addresses -> [TokensOf(k) -> Nat]]
      /\ p.windowSum \in [TokensOf(k) -> Nat]
      /\ p.stamp \in Nat \ {0} /\ p.window \in Nat \ {0}
  BY <1>1 DEF PoolRecords
<1>3. p.reserve[k[1]] \in Nat \ {0} /\ p.reserve[k[2]] \in Nat \ {0} BY <1>2, TokensOfKey
<1>4. ASSUME NEW u \in Addresses
      PROVE  p.userLiquidity[u] \in Nat /\ p.userLiquidity[u] < p.liquidity
  <2> DEFINE sum == SumFunctionOnSet(p.userLiquidity, Addresses)
  <2>1. IsFiniteSet(Addresses) BY DozerAssumption
  <2>2. sum \in Nat /\ p.userLiquidity[u] <= sum BY <1>2, <2>1, SumBounds
  <2>3. p.liquidity = b + sum BY <1>1 DEF Books
  <2>4. p.userLiquidity[u] \in Nat BY <1>2
  <2> HIDE DEF sum
  <2>5. QED BY <2>2, <2>3, <2>4, SMT
<1>5. QED BY <1>2, <1>3, <1>4

AdminTypes ==
  /\ admin.owner \in Addresses /\ admin.protocolFee \in 0 .. 50
  /\ admin.signers \subseteq Addresses
  /\ DOMAIN admin.reserved \subseteq Tokens /\ DOMAIN admin.poolSigners \subseteq Existing
  /\ admin.defaultWindow \in Nat \ {0}
  /\ admin = [owner |-> admin.owner, protocolFee |-> admin.protocolFee,
              paused |-> admin.paused, signers |-> admin.signers,
              reserved |-> admin.reserved, poolSigners |-> admin.poolSigners,
              defaultWindow |-> admin.defaultWindow]

LEMMA FeeBelow ==
  ASSUME NEW k \in Keys, Fee(k) <= MaxFee
  PROVE  Fee(k) \in 0 .. (FeeDenominator - 1) /\ FeeDenominator \in Nat \ {0}
<1>1. Fee(k) \in Nat /\ MaxFee \in Nat /\ MaxFee < FeeDenominator /\ FeeDenominator \in Nat \ {0}
  BY TokensOfKey, DozerAssumption, DozerMathAssumption
<1>2. QED BY <1>1, SMT

(* The owner's share of a swap is liquidity minted, never burnt: more      *)
(* reserve has no smaller root. *)
LEMMA MintNat ==
  ASSUME NEW k \in Keys, Fee(k) <= MaxFee, NEW p, NEW b \in Nat \ {0}, PoolInv(k, p, b),
         admin.protocolFee \in 0 .. 50, NEW t \in TokensOf(k), NEW in \in Nat
  PROVE  ProtocolMint(k, p, t, in) \in Nat
<1> DEFINE r == p.reserve[t]
           s == p.reserve[Other(k, t)]
           swapFee == SwapFee(in, Fee(k))
           product == swapFee * admin.protocolFee
           fee == ProtocolFee(swapFee, admin.protocolFee)
<1>1. Fee(k) \in Nat /\ FeeDenominator \in Nat \ {0} BY FeeBelow, SMT
<1>2. r \in Nat /\ s \in Nat BY PoolTypes, TokensOfKey
<1>3. in * Fee(k) \in Nat BY <1>1, Products
<1>4. swapFee \in Nat BY <1>1, <1>3, CeilBounds DEF SwapFee
<1>5. product \in Nat
  <2> HIDE DEF swapFee
  <2>1. admin.protocolFee \in Nat BY SMT
  <2>2. QED BY <1>4, <2>1, Products
<1>6. fee \in Nat
  <2>1. fee = IF product > 0 /\ product < 100 THEN 1 ELSE product \div 100 BY DEF ProtocolFee
  <2> HIDE DEF product, fee
  <2>2. product \div 100 \in Nat BY <1>5, SMT
  <2>3. QED BY <2>1, <2>2
<1>7. ProtocolMint(k, p, t, in) = (Isqrt((r + fee) * s) - Isqrt(r * s)) * Precision
  BY DEF ProtocolMint, LiquidityIncrease
<1> HIDE DEF r, s, fee
<1>8. r * s \in Nat /\ (r + fee) * s \in Nat /\ r * s <= (r + fee) * s
  <2>1. (r + fee) * s = r * s + fee * s BY <1>2, <1>6, SMT
  <2>2. r * s \in Nat /\ fee * s \in Nat BY <1>2, <1>6, Products
  <2>3. QED BY <2>1, <2>2, SMT
<1> DEFINE before == Isqrt(r * s)
           after == Isqrt((r + fee) * s)
<1>9. before \in Nat /\ after \in Nat /\ before <= after BY <1>8, IsqrtMonotone
<1>10. Precision \in Nat BY DozerMathAssumption
<1> HIDE DEF before, after
<1>11. (after - before) * Precision \in Nat
  <2>1. after - before \in Nat BY <1>9, SMT
  <2>2. QED BY <1>10, <2>1, Products
<1>12. QED BY <1>7, <1>11 DEF before, after

LEMMA ExchangedPool ==
  ASSUME NEW k \in Keys, Fee(k) <= MaxFee, NEW p, NEW b \in Nat \ {0}, PoolInv(k, p, b),
         admin.owner \in Addresses, admin.protocolFee \in 0 .. 50,
         NEW t \in TokensOf(k), NEW in \in Nat, NEW out \in Nat, out < p.reserve[Other(k, t)]
  PROVE  AfterExchange(k, p, Exchanged(k, p, t, in, out), b, t, in, out)
<1> DEFINE mint == ProtocolMint(k, p, t, in)
           l == WithLiquidity(p, admin.owner, mint)
           s == Other(k, t)
           r == [x \in TokensOf(k) |-> IF x = t THEN p.reserve[x] + in ELSE p.reserve[x] - out]
           q == Exchanged(k, p, t, in, out)
<1>1. mint \in Nat BY MintNat
<1>2. p.userLiquidity[admin.owner] \in Nat BY PoolTypes
<1> HIDE DEF mint
<1>3. p.userLiquidity[admin.owner] + mint >= 0 /\ mint \in Int
  BY <1>1, <1>2, SMT
<1>4. /\ PoolInv(k, l, b) /\ l.window = p.window /\ l.stamp = p.stamp
      /\ l.windowSum = p.windowSum /\ l.reserve = p.reserve
      /\ l.change = p.change /\ l.userChange = p.userChange
  <2> HIDE DEF r, q, s
  <2>1. AfterLiquidity(k, p, l, b, mint) BY <1>3, LiquidityPool
  <2>2. QED BY <2>1 DEF AfterLiquidity, SameWindow
<1> HIDE DEF l
<1>5. s \in TokensOf(k) /\ s # t BY TokensOfKey
<1>6. p.reserve \in [TokensOf(k) -> Nat \ {0}] BY PoolTypes
<1>7. p.reserve[t] + in \in Nat \ {0} /\ p.reserve[s] - out \in Nat \ {0}
  <2>1. p.reserve[t] \in Nat \ {0} /\ p.reserve[s] \in Nat \ {0} BY <1>5, <1>6
  <2>2. QED BY <2>1, SMT
<1> HIDE DEF s
<1>8. r \in [TokensOf(k) -> Nat \ {0}] /\ r[t] = p.reserve[t] + in /\ r[s] = p.reserve[s] - out
  BY <1>5, <1>6, <1>7, TokensOfKey DEF s
<1>9. q = [l EXCEPT !.reserve = r] BY DEF Exchanged, l, mint
<1>10. l \in PoolRecords(k) /\ Books(k, l, b) BY <1>4 DEF PoolInv
<1> HIDE DEF r, q
<1>11. /\ q \in PoolRecords(k) /\ q.window = l.window /\ q.stamp = l.stamp
       /\ q.windowSum = l.windowSum /\ q.change = l.change /\ q.userChange = l.userChange
       /\ q.liquidity = l.liquidity /\ q.userLiquidity = l.userLiquidity /\ q.reserve = r
  BY <1>8, <1>9, <1>10 DEF PoolRecords
<1>12. Books(k, q, b) BY <1>10, <1>11 DEF Books
<1>13. PoolInv(k, q, b) BY <1>11, <1>12 DEF PoolInv
<1>14. QED BY <1>4, <1>8, <1>11, <1>13 DEF q, s, AfterExchange, SameWindow

LEMMA OutBelow ==
  ASSUME NEW k \in Keys, Fee(k) <= MaxFee, NEW p, NEW b \in Nat \ {0}, PoolInv(k, p, b),
         NEW t \in TokensOf(k), NEW in \in Nat
  PROVE  OutOf(k, p, t, in) \in Nat /\ OutOf(k, p, t, in) < p.reserve[Other(k, t)]
<1> DEFINE r == p.reserve[t]
           s == p.reserve[Other(k, t)]
<1>1. r \in Nat \ {0} /\ s \in Nat \ {0} BY PoolTypes, TokensOfKey
<1>2. Fee(k) \in 0 .. (FeeDenominator - 1) BY FeeBelow
<1> HIDE DEF r, s
<1>3. AmountOut(in, r, s, Fee(k)) \in 0 .. (s - 1) BY <1>1, <1>2, AmountOutIsOnCurve
<1> DEFINE out == AmountOut(in, r, s, Fee(k))
<1> HIDE DEF out
<1>4. out \in Nat /\ out < s BY <1>1, <1>3, SMT DEF out
<1>5. QED BY <1>4 DEF OutOf, out, r, s

-----------------------------------------------------------------------------
(* The inductive invariant IInv: every pool is well typed and keeps its    *)
(* books, what the contract holds is what the pools hold and what the owner *)
(* put in, and the administrative record has its fields.  A call that changes *)
(* one pool keeps it when the pool keeps its books and gains what is paid. *)
Given(f, t) == IF t \in DOMAIN f THEN f[t] ELSE 0

\* A state of the pools in which each keeps its books.
TableInv(ps) ==
  /\ IsFiniteSet(DOMAIN ps) /\ ps = [k \in DOMAIN ps |-> ps[k]]
  /\ \A k \in DOMAIN ps :
       /\ k \in Keys /\ Fee(k) <= MaxFee
       /\ burnt[k] \in Nat \ {0} /\ PoolInv(k, ps[k], burnt[k]) /\ ps[k].stamp <= now

\* What all pools together hold of a token.
Total(ps, t) == SumFunctionOnSet([k \in DOMAIN ps |-> InPool(k, ps[k], t)], DOMAIN ps)

MoneyInv == held \in [Tokens -> Int] /\ donated \in [Tokens -> Nat] /\ Solvency

IInv == TableInv(pools) /\ MoneyInv /\ AdminTypes /\ now \in Nat \ {0}

LEMMA InPoolNat ==
  ASSUME NEW k \in Keys, NEW p, NEW b \in Nat \ {0}, PoolInv(k, p, b), NEW t
  PROVE  InPool(k, p, t) \in Nat
<1>1. CASE t \in TokensOf(k)
  <2>1. p.reserve[t] \in Nat /\ p.change[t] \in Nat BY <1>1, PoolTypes
  <2>2. QED BY <1>1, <2>1, SMT DEF InPool
<1>2. CASE t \notin TokensOf(k) BY <1>2 DEF InPool
<1>3. QED BY <1>1, <1>2

LEMMA TotalNat ==
  ASSUME NEW ps, TableInv(ps), NEW t
  PROVE  Total(ps, t) \in Nat
<1> DEFINE f == [k \in DOMAIN ps |-> InPool(k, ps[k], t)]
<1>1. f \in [DOMAIN ps -> Nat] BY InPoolNat DEF TableInv
<1>2. IsFiniteSet(DOMAIN ps) BY DEF TableInv
<1> HIDE DEF f
<1>3. SumFunctionOnSet(f, DOMAIN ps) \in Nat BY <1>1, <1>2, SumBounds
<1>4. QED BY <1>3 DEF Total, f

(* A pool that keeps its books may replace its former state; the totals    *)
(* change by what it gained. *)
LEMMA TableUpdate ==
  ASSUME NEW ps, TableInv(ps), NEW k \in DOMAIN ps, NEW q,
         PoolInv(k, q, burnt[k]), q.stamp <= now
  PROVE  LET qs == [ps EXCEPT ![k] = q]
         IN  /\ TableInv(qs) /\ DOMAIN qs = DOMAIN ps
             /\ qs[k] = q /\ \A x \in DOMAIN ps \ {k} : qs[x] = ps[x]
             /\ \A t : Total(qs, t) = Total(ps, t) - InPool(k, ps[k], t) + InPool(k, q, t)
<1> DEFINE qs == [ps EXCEPT ![k] = q]
           S == DOMAIN ps
<1>1. DOMAIN qs = S /\ qs[k] = q /\ \A x \in S \ {k} : qs[x] = ps[x] OBVIOUS
<1>2. IsFiniteSet(S)
      /\ \A x \in S : x \in Keys /\ Fee(x) <= MaxFee /\ burnt[x] \in Nat \ {0}
                      /\ PoolInv(x, ps[x], burnt[x]) /\ ps[x].stamp <= now
  BY DEF TableInv
<1>3. qs = [x \in S |-> qs[x]] OBVIOUS
<1> HIDE DEF qs, S
<1>4. TableInv(qs)
  <2>1. ASSUME NEW x \in S
        PROVE  x \in Keys /\ Fee(x) <= MaxFee /\ burnt[x] \in Nat \ {0}
               /\ PoolInv(x, qs[x], burnt[x]) /\ qs[x].stamp <= now
    <3>1. CASE x = k BY <1>1, <1>2, <3>1 DEF S
    <3>2. CASE x # k BY <1>1, <1>2, <3>2
    <3>3. QED BY <3>1, <3>2
  <2>2. QED BY <1>1, <1>2, <1>3, <2>1 DEF TableInv
<1>5. ASSUME NEW t
      PROVE  Total(qs, t) = Total(ps, t) - InPool(k, ps[k], t) + InPool(k, q, t)
  <2> DEFINE f == [x \in S |-> InPool(x, ps[x], t)]
             g == [x \in S |-> InPool(x, qs[x], t)]
  <2>1. f \in [S -> Nat] BY <1>2, InPoolNat
  <2>2. g \in [S -> Nat]
    <3>1. \A x \in S : x \in Keys /\ burnt[x] \in Nat \ {0} /\ PoolInv(x, qs[x], burnt[x])
      BY <1>1, <1>4 DEF TableInv
    <3>2. QED BY <3>1, InPoolNat
  <2>3. k \in S BY DEF S
  <2>4. f[k] = InPool(k, ps[k], t) /\ g[k] = InPool(k, q, t) BY <1>1, <2>3
  <2>5. \A x \in S \ {k} : g[x] = f[x] BY <1>1
  <2>6. Total(ps, t) = SumFunctionOnSet(f, S) /\ Total(qs, t) = SumFunctionOnSet(g, S)
    BY <1>1 DEF Total, S
  <2> HIDE DEF f, g
  <2>7. f \in [S -> Int] /\ g \in [S -> Int] BY <2>1, <2>2
  <2>8. SumFunctionOnSet(g, S) = SumFunctionOnSet(f, S) - f[k] + g[k]
    BY <1>2, <2>3, <2>5, <2>7, SumUpdate
  <2>9. QED BY <2>4, <2>6, <2>8
<1>6. QED BY <1>1, <1>4, <1>5 DEF qs, S

\* What the pools gained is what the call brought.
LEMMA MoneyStep ==
  ASSUME IInv, NEW d, NEW w, Moved(d, w), donated' = donated,
         \A t \in Tokens : Given(d, t) \in Int /\ Given(w, t) \in Int
                           /\ Total(pools', t) = Total(pools, t) + Given(d, t) - Given(w, t)
  PROVE  MoneyInv'
<1>1. held \in [Tokens -> Int] /\ donated \in [Tokens -> Nat]
      /\ \A t \in Tokens : held[t] = donated[t] + Total(pools, t)
  BY DEF IInv, MoneyInv, Solvency, Total, Existing
<1>2. held' = [t \in Tokens |-> held[t] + Given(d, t) - Given(w, t)] BY DEF Moved, Given
<1>3. ASSUME NEW t \in Tokens
      PROVE  held'[t] \in Int /\ held'[t] = donated'[t] + Total(pools', t)
  <2>1. held[t] \in Int /\ donated[t] \in Nat BY <1>1
  <2>2. Total(pools, t) \in Nat BY TotalNat DEF IInv
  <2>3. held'[t] = held[t] + Given(d, t) - Given(w, t) BY <1>2
  <2>4. QED BY <1>1, <2>1, <2>2, <2>3, SMT
<1>4. held' \in [Tokens -> Int] BY <1>2, <1>3
<1>5. Solvency' BY <1>3 DEF Solvency, Total, Existing
<1>6. QED BY <1>1, <1>4, <1>5 DEF MoneyInv

\* From p to q pool k gained d and lost w, and no other token moved.
Flow(k, p, q, d, w) ==
  /\ \A t : Given(d, t) \in Int /\ Given(w, t) \in Int
  /\ \A t : t \notin TokensOf(k) => Given(d, t) = 0 /\ Given(w, t) = 0
  /\ \A t \in TokensOf(k) :
       q.reserve[t] + q.change[t] = p.reserve[t] + p.change[t] + Given(d, t) - Given(w, t)

(* A call that moves money in one pool keeps the invariant when the pool   *)
(* keeps its books and gains what the call brings. *)
LEMMA OnePoolStep ==
  ASSUME IInv, NEW k \in Existing, NEW q, NEW d, NEW w,
         PoolInv(k, q, burnt[k]), q.stamp <= now, Flow(k, pools[k], q, d, w),
         pools' = [pools EXCEPT ![k] = q], Moved(d, w),
         UNCHANGED <<admin, now, burnt, donated>>
  PROVE  IInv'
<1> DEFINE qs == [pools EXCEPT ![k] = q]
<1>1. k \in Keys /\ burnt[k] \in Nat \ {0} /\ PoolInv(k, pools[k], burnt[k])
  BY DEF IInv, TableInv, Existing
<1>2. /\ TableInv(qs) /\ DOMAIN qs = Existing
      /\ \A t : Total(qs, t) = Total(pools, t) - InPool(k, pools[k], t) + InPool(k, q, t)
  BY TableUpdate DEF IInv, Existing
<1>3. pools' = qs OBVIOUS
<1> HIDE DEF qs
<1>4. ASSUME NEW t \in Tokens
      PROVE  Given(d, t) \in Int /\ Given(w, t) \in Int
             /\ Total(pools', t) = Total(pools, t) + Given(d, t) - Given(w, t)
  <2>1. InPool(k, pools[k], t) \in Nat /\ InPool(k, q, t) \in Nat BY <1>1, InPoolNat
  <2>2. Given(d, t) \in Int /\ Given(w, t) \in Int BY DEF Flow
  <2>3. InPool(k, q, t) = InPool(k, pools[k], t) + Given(d, t) - Given(w, t)
    <3>1. CASE t \in TokensOf(k) BY <3>1 DEF Flow, InPool
    <3>2. CASE t \notin TokensOf(k) BY <2>2, <3>2, SMT DEF Flow, InPool
    <3>3. QED BY <3>1, <3>2
  <2>4. Total(pools, t) \in Nat BY TotalNat DEF IInv
  <2>5. Total(pools', t) = Total(pools, t) - InPool(k, pools[k], t) + InPool(k, q, t)
    BY <1>2, <1>3
  <2>6. QED BY <2>1, <2>2, <2>3, <2>4, <2>5, SMT
<1>5. MoneyInv' BY <1>4, MoneyStep
<1>6. TableInv(pools)' BY <1>2, <1>3 DEF TableInv
<1>7. AdminTypes' BY <1>2, <1>3 DEF IInv, AdminTypes, Existing
<1>8. QED BY <1>5, <1>6, <1>7 DEF IInv

AfterProvision(k, p, q, b, c, e, m, x, y) ==
  /\ PoolInv(k, q, b) /\ SameWindow(p, q)
  /\ q.reserve[k[1]] = x /\ q.reserve[k[2]] = y
  /\ q.change[k[1]] = p.change[k[1]] + c /\ q.change[k[2]] = p.change[k[2]] + e
  /\ q.liquidity = p.liquidity + m

Provided(k, p, u, c, e, m, x, y) ==
  WithReserves(k, WithLiquidity(WithChange(WithChange(p, u, k[1], c), u, k[2], e), u, m), x, y)

(* A pool in which u provides: change, shares and reserves in one. *)
LEMMA ProvidedPool ==
  ASSUME NEW k \in Keys, NEW p, NEW b \in Nat \ {0}, PoolInv(k, p, b), NEW u \in Addresses,
         NEW c \in Nat, NEW e \in Nat, NEW m \in Nat, NEW x \in Nat \ {0}, NEW y \in Nat \ {0}
  PROVE  AfterProvision(k, p, Provided(k, p, u, c, e, m, x, y), b, c, e, m, x, y)
<1> DEFINE p1 == WithChange(p, u, k[1], c)
           p2 == WithChange(p1, u, k[2], e)
           p3 == WithLiquidity(p2, u, m)
           q == WithReserves(k, p3, x, y)
<1>1. k[1] \in TokensOf(k) /\ k[2] \in TokensOf(k) /\ k[1] # k[2] BY TokensOfKey
<1>2. AfterChange(k, p, p1, b, k[1], c) BY <1>1, ChangePool
<1>3. PoolInv(k, p1, b) BY <1>2 DEF AfterChange
<1> HIDE DEF p1
<1>4. AfterChange(k, p1, p2, b, k[2], e) BY <1>1, <1>3, ChangePool
<1>5. PoolInv(k, p2, b) BY <1>4 DEF AfterChange
<1> HIDE DEF p2
<1>6. p2.userLiquidity[u] \in Nat BY <1>5, PoolTypes
<1>7. m \in Int /\ p2.userLiquidity[u] + m >= 0 BY <1>6, SMT
<1>8. AfterLiquidity(k, p2, p3, b, m) BY <1>5, <1>7, LiquidityPool
<1>9. PoolInv(k, p3, b) BY <1>8 DEF AfterLiquidity
<1> HIDE DEF p3
<1>10. AfterReserves(k, p3, q, b, x, y) BY <1>9, ReservesPool
<1> HIDE DEF q
<1>11. PoolInv(k, q, b) BY <1>10 DEF AfterReserves
<1>12. SameWindow(p, q)
  BY <1>2, <1>4, <1>8, <1>10
  DEF AfterChange, AfterLiquidity, AfterReserves, SameWindow
<1>13. /\ p1.change[k[1]] = p.change[k[1]] + c /\ p1.change[k[2]] = p.change[k[2]]
       /\ p1.liquidity = p.liquidity
  BY <1>1, <1>2 DEF AfterChange
<1>14. /\ p2.change[k[1]] = p1.change[k[1]] /\ p2.change[k[2]] = p1.change[k[2]] + e
       /\ p2.liquidity = p1.liquidity
  BY <1>1, <1>4 DEF AfterChange
<1>15. q.change = p2.change /\ q.liquidity = p2.liquidity + m
       /\ q.reserve[k[1]] = x /\ q.reserve[k[2]] = y
  BY <1>8, <1>10 DEF AfterLiquidity, AfterReserves
<1>16. AfterProvision(k, p, q, b, c, e, m, x, y)
  BY <1>11, <1>12, <1>13, <1>14, <1>15 DEF AfterProvision
<1>17. QED BY <1>16 DEF Provided, q, p3, p2, p1

-----------------------------------------------------------------------------
(* Liquidity in two tokens.                                                *)
LEMMA GivenPair ==
  ASSUME NEW k \in Keys, NEW a \in Int, NEW b \in Int
  PROVE  /\ Given(Pair(k, a, b), k[1]) = a /\ Given(Pair(k, a, b), k[2]) = b
         /\ \A t : t \notin TokensOf(k) => Given(Pair(k, a, b), t) = 0
         /\ \A t : Given(Pair(k, a, b), t) \in Int
<1>1. k[1] \in TokensOf(k) /\ k[2] \in TokensOf(k) /\ k[1] # k[2] BY TokensOfKey
<1>2. \A t : t \in TokensOf(k) <=> t = k[1] \/ t = k[2] BY DEF TokensOf
<1>3. QED BY <1>1, <1>2 DEF Given, Pair

LEMMA GivenOf ==
  ASSUME NEW s, NEW a \in Int
  PROVE  /\ Given(Of(s, a), s) = a /\ \A t : t # s => Given(Of(s, a), t) = 0
         /\ \A t : Given(Of(s, a), t) \in Int
BY DEF Given, Of

LEMMA GivenNone == \A t : Given(None, t) = 0
BY DEF Given, None

\* What holds of an existing pool and of what WithTwap makes of it.
LEMMA Current ==
  ASSUME IInv, NEW k \in Existing
  PROVE  LET p == WithTwap(k, pools[k])
         IN  /\ k \in Keys /\ Fee(k) <= MaxFee /\ burnt[k] \in Nat \ {0}
             /\ PoolInv(k, pools[k], burnt[k]) /\ pools[k].stamp <= now
             /\ PoolInv(k, p, burnt[k]) /\ p.stamp = now /\ p.stamp <= now
             /\ p.reserve = pools[k].reserve /\ p.change = pools[k].change
             /\ p.liquidity = pools[k].liquidity
             /\ p.userLiquidity = pools[k].userLiquidity
             /\ p.window = pools[k].window /\ p.windowSum = Averages(k, pools[k])
<1> DEFINE p == WithTwap(k, pools[k])
           o == pools[k]
           b == burnt[k]
<1>1. k \in Keys /\ Fee(k) <= MaxFee /\ b \in Nat \ {0} /\ PoolInv(k, o, b) /\ o.stamp <= now
      /\ now \in Nat \ {0}
  BY DEF IInv, TableInv, Existing
<1>2. p = WithTwap(k, o) OBVIOUS
<1> HIDE DEF p, o, b
<1>3. /\ PoolInv(k, p, b) /\ p.stamp = now /\ p.reserve = o.reserve /\ p.change = o.change
      /\ p.liquidity = o.liquidity /\ p.userLiquidity = o.userLiquidity
      /\ p.window = o.window /\ p.windowSum = Averages(k, o)
  <2>1. AfterTwap(k, o, p, b) BY <1>1, <1>2, TwapPool
  <2>2. QED BY <2>1 DEF AfterTwap
<1>4. p.stamp <= now BY <1>1, <1>3, SMT
<1>5. QED BY <1>1, <1>3, <1>4 DEF p, o, b

\* From p to q pool k was brought to the current block before its reserves
\* changed, or neither its average nor its reserves changed.
Aged(k, p, q) ==
  /\ q.window = p.window
  /\ \/ q.stamp = now /\ q.windowSum = Averages(k, p)
     \/ q.stamp = p.stamp /\ q.windowSum = p.windowSum /\ q.reserve = p.reserve

LEMMA AgedOnce ==
  ASSUME NEW k, NEW p, NEW q, NEW r, Aged(k, p, q), Aged(k, q, r)
  PROVE  Aged(k, p, r)
<1>1. CASE q.stamp = now /\ q.windowSum = Averages(k, p)
  <2>1. Averages(k, q) = q.windowSum BY <1>1 DEF Averages
  <2>2. QED BY <1>1, <2>1 DEF Aged
<1>2. CASE q.stamp = p.stamp /\ q.windowSum = p.windowSum /\ q.reserve = p.reserve
  <2>1. Averages(k, q) = Averages(k, p) BY <1>2 DEF Averages, Price, Aged
  <2>2. QED BY <1>2, <2>1 DEF Aged
<1>3. QED BY <1>1, <1>2 DEF Aged

PoolsAged ==
  DOMAIN pools' = Existing /\ \A x \in Existing : Aged(x, pools[x], pools'[x])

LEMMA OnePoolAges ==
  ASSUME NEW k \in Existing, NEW q, Aged(k, pools[k], q), pools' = [pools EXCEPT ![k] = q]
  PROVE  PoolsAged
<1>1. DOMAIN pools' = Existing /\ pools'[k] = q
      /\ \A x \in Existing \ {k} : pools'[x] = pools[x]
  BY DEF Existing
<1>2. QED BY <1>1 DEF PoolsAged, Aged

(* The flow of a call that moves both tokens of a pool. *)
LEMMA FlowOfBoth ==
  ASSUME NEW k \in Keys, NEW p, NEW q, NEW a \in Int, NEW b \in Int
  PROVE  /\ q.reserve[k[1]] + q.change[k[1]] = p.reserve[k[1]] + p.change[k[1]] + a - 0
            /\ q.reserve[k[2]] + q.change[k[2]] = p.reserve[k[2]] + p.change[k[2]] + b - 0
            => Flow(k, p, q, Pair(k, a, b), None)
         /\ q.reserve[k[1]] + q.change[k[1]] = p.reserve[k[1]] + p.change[k[1]] + 0 - a
            /\ q.reserve[k[2]] + q.change[k[2]] = p.reserve[k[2]] + p.change[k[2]] + 0 - b
            => Flow(k, p, q, None, Pair(k, a, b))
<1> DEFINE d == Pair(k, a, b)
<1>1. \A t : t \in TokensOf(k) <=> t = k[1] \/ t = k[2] BY DEF TokensOf
<1>2. /\ Given(d, k[1]) = a /\ Given(d, k[2]) = b
      /\ \A t : t \notin TokensOf(k) => Given(d, t) = 0
      /\ \A t : Given(d, t) \in Int
  BY GivenPair
<1> HIDE DEF d
<1>3. \A t : Given(None, t) = 0 /\ Given(None, t) \in Int BY GivenNone
<1>4. ASSUME q.reserve[k[1]] + q.change[k[1]] = p.reserve[k[1]] + p.change[k[1]] + a - 0,
             q.reserve[k[2]] + q.change[k[2]] = p.reserve[k[2]] + p.change[k[2]] + b - 0
      PROVE  Flow(k, p, q, d, None)
  BY <1>1, <1>2, <1>3, <1>4 DEF Flow
<1>5. ASSUME q.reserve[k[1]] + q.change[k[1]] = p.reserve[k[1]] + p.change[k[1]] + 0 - a,
             q.reserve[k[2]] + q.change[k[2]] = p.reserve[k[2]] + p.change[k[2]] + 0 - b
      PROVE  Flow(k, p, q, None, d)
  BY <1>1, <1>2, <1>3, <1>5 DEF Flow
<1>6. QED BY <1>4, <1>5 DEF d

\* What a share of the pool stands for, before in p and after in q.
ValueKept(k, p, q) ==
  /\ q.reserve[k[1]] * p.liquidity >= p.reserve[k[1]] * q.liquidity
  /\ (q.reserve[k[2]] + 1) * p.liquidity >= p.reserve[k[2]] * q.liquidity

\* Two ratios multiplied: w/x <= s/r and x/y <= r/l give w/y <= s/l.
LEMMA Cross ==
  ASSUME NEW w \in Nat, NEW r \in Nat \ {0}, NEW x \in Nat, NEW s \in Nat, NEW l \in Nat,
         NEW y \in Nat, w * r <= x * s, x * l <= y * r
  PROVE  w * l <= y * s
<1> DEFINE wr == w * r
           xs == x * s
           xl == x * l
           yr == y * r
           wl == w * l
           ys == y * s
<1>1. wr \in Nat /\ xs \in Nat /\ xl \in Nat /\ yr \in Nat /\ wl \in Nat /\ ys \in Nat
  BY Products, SMT
<1>2. wr <= xs /\ xl <= yr OBVIOUS
<1>3. wr * l = wl * r /\ xs * l = xl * s /\ yr * s = ys * r BY SMT
<1> HIDE DEF wr, xs, xl, yr, wl, ys
<1>4. wr * l <= xs * l /\ xl * s <= yr * s BY <1>1, <1>2, SMT
<1>5. /\ wr * l \in Int /\ xs * l \in Int /\ yr * s \in Int BY <1>1, Products, SMT
<1>6. wl * r <= ys * r BY <1>3, <1>4, <1>5, SMT
<1>7. wl <= ys BY <1>1, <1>6, SMT
<1>8. QED BY <1>7 DEF wl, ys

\* Reserves and shares that grow together.
LEMMA GrowthKeepsValue ==
  ASSUME NEW ra \in Nat \ {0}, NEW rb \in Nat, NEW all \in Nat,
         NEW ua \in Nat, NEW ub \in Nat, NEW m \in Nat,
         m * ra <= ua * all, ua * rb <= (ub + 1) * ra
  PROVE  /\ (ra + ua) * all >= ra * (all + m)
         /\ ((rb + ub) + 1) * all >= rb * (all + m)
<1>1. m * rb <= (ub + 1) * all
  <2> DEFINE v == ub + 1
  <2>1. v \in Nat /\ ua * rb <= v * ra BY SMT
  <2> HIDE DEF v
  <2>2. m * rb <= v * all BY <2>1, Cross
  <2>3. QED BY <2>2 DEF v
<1>2. /\ (ra + ua) * all = ra * all + ua * all /\ ra * (all + m) = ra * all + m * ra
      /\ ((rb + ub) + 1) * all = rb * all + (ub + 1) * all
      /\ rb * (all + m) = rb * all + m * rb
  BY SMT
<1>3. /\ ra * all \in Int /\ ua * all \in Int /\ m * ra \in Int /\ rb * all \in Int
      /\ (ub + 1) * all \in Int /\ m * rb \in Int
  BY SMT
<1>4. QED BY <1>1, <1>2, <1>3, SMT

\* Reserves and shares that shrink together.
LEMMA ShrinkingKeepsValue ==
  ASSUME NEW ra \in Nat \ {0}, NEW rb \in Nat, NEW all \in Nat,
         NEW a \in Nat, NEW b \in Nat, NEW c \in Nat,
         a * all <= c * ra, b * ra <= a * rb
  PROVE  /\ (ra - a) * all >= ra * (all - c)
         /\ ((rb - b) + 1) * all >= rb * (all - c)
<1>1. b * all <= c * rb BY Cross
<1>2. /\ (ra - a) * all = ra * all - a * all /\ ra * (all - c) = ra * all - c * ra
      /\ ((rb - b) + 1) * all = rb * all - b * all + all
      /\ rb * (all - c) = rb * all - c * rb
  BY SMT
<1>3. /\ ra * all \in Int /\ a * all \in Int /\ c * ra \in Int /\ rb * all \in Int
      /\ b * all \in Int /\ c * rb \in Int
  BY SMT
<1>4. QED BY <1>1, <1>2, <1>3, SMT

LEMMA AddLiquidityStep ==
  ASSUME IInv, NEW u \in Addresses, NEW k \in Existing, NEW a \in Amounts, NEW b \in Amounts,
         AddLiquidity(u, k, a, b)
  PROVE  /\ IInv' /\ PoolsAged
         /\ ValueKept(k, pools[k], pools'[k]) /\ \A x \in Existing \ {k} : pools'[x] = pools[x]
<1> DEFINE p        == WithTwap(k, pools[k])
           ra       == p.reserve[k[1]]
           rb       == p.reserve[k[2]]
           optimalA == Quote(b, rb, ra)
           optimalB == Quote(a, ra, rb)
           usedA    == IF optimalB <= b THEN a ELSE optimalA
           usedB    == IF optimalB <= b THEN optimalB ELSE b
           m        == (p.liquidity * usedA) \div ra
           c        == a - usedA
           e        == b - usedB
           x        == ra + usedA
           y        == rb + usedB
           q        == Provided(k, p, u, c, e, m, x, y)
           d == Pair(k, a, b)
<1>1. /\ usedA <= a /\ pools' = [pools EXCEPT ![k] = q] /\ Moved(d, None)
      /\ UNCHANGED <<admin, now, burnt, donated>>
  BY DEF AddLiquidity, Provided
<1>2. /\ k \in Keys /\ burnt[k] \in Nat \ {0}
      /\ PoolInv(k, pools[k], burnt[k])
      /\ PoolInv(k, p, burnt[k]) /\ p.stamp <= now
      /\ p.reserve = pools[k].reserve /\ p.change = pools[k].change
      /\ p.liquidity = pools[k].liquidity
      /\ p.stamp = now /\ p.window = pools[k].window /\ p.windowSum = Averages(k, pools[k])
  BY Current
<1>3. a \in Nat /\ b \in Nat BY DozerAssumption
<1> HIDE DEF p
<1>4. ra \in Nat \ {0} /\ rb \in Nat \ {0} /\ p.liquidity \in Nat BY <1>2, PoolTypes
<1> HIDE DEF ra, rb
<1>5. optimalA \in Nat /\ optimalB \in Nat BY <1>3, <1>4, QuoteBounds
<1> HIDE DEF optimalA, optimalB
<1>6. usedA \in Nat /\ usedB \in Nat /\ usedB <= b BY <1>3, <1>5, SMT
<1>13. usedA * rb <= (usedB + 1) * ra
  <2>1. a * rb \in Nat /\ b * ra \in Nat BY <1>3, <1>4, Products
  <2>2. a * rb < (optimalB + 1) * ra /\ optimalA * rb <= b * ra
    BY <1>3, <1>4, <2>1, FloorBounds DEF optimalA, optimalB, Quote
  <2>3. CASE optimalB <= b
    <3>1. usedA = a /\ usedB = optimalB BY <2>3
    <3>2. (optimalB + 1) * ra \in Int BY <1>4, <1>5, SMT
    <3>3. QED BY <2>1, <2>2, <3>1, <3>2, SMT
  <2>4. CASE ~ (optimalB <= b)
    <3>1. usedA = optimalA /\ usedB = b BY <2>4
    <3>2. (b + 1) * ra = b * ra + ra BY <1>3, <1>4, SMT
    <3>3. optimalA * rb \in Int BY <1>4, <1>5, SMT
    <3>4. QED BY <1>4, <2>1, <2>2, <3>1, <3>2, <3>3, SMT
  <2>5. QED BY <2>3, <2>4
<1> HIDE DEF usedA, usedB
<1>7. m \in Nat /\ m * ra <= usedA * p.liquidity
  <2>1. p.liquidity * usedA \in Nat /\ p.liquidity * usedA = usedA * p.liquidity
    BY <1>4, <1>6, Products, SMT
  <2>2. m \in Nat /\ m * ra <= p.liquidity * usedA BY <1>4, <2>1, FloorBounds
  <2>3. QED BY <2>1, <2>2
<1>8. c \in Nat /\ e \in Nat /\ x \in Nat \ {0} /\ y \in Nat \ {0}
      /\ x + c = ra + a /\ y + e = rb + b
  BY <1>1, <1>3, <1>4, <1>6, SMT
<1> HIDE DEF m, c, e, x, y
<1>9. AfterProvision(k, p, q, burnt[k], c, e, m, x, y)
  <2> HIDE DEF d
  <2>1. PoolInv(k, p, burnt[k]) BY <1>2
  <2>2. QED BY <1>2, <1>7, <1>8, <2>1, ProvidedPool
<1> HIDE DEF q
<1>10. PoolInv(k, q, burnt[k]) /\ q.stamp <= now
  BY <1>2, <1>9 DEF AfterProvision, SameWindow
<1>11. Flow(k, pools[k], q, d, None)
  <2> DEFINE g == p.change[k[1]]
             h == p.change[k[2]]
  <2>1. g \in Nat /\ h \in Nat BY <1>2, TokensOfKey, PoolTypes
  <2>2. /\ q.reserve[k[1]] = x /\ q.reserve[k[2]] = y
        /\ q.change[k[1]] = g + c /\ q.change[k[2]] = h + e
    BY <1>9 DEF AfterProvision
  <2>3. /\ ra = pools[k].reserve[k[1]] /\ rb = pools[k].reserve[k[2]]
        /\ g = pools[k].change[k[1]] /\ h = pools[k].change[k[2]]
    BY <1>2 DEF ra, rb
  <2> HIDE DEF g, h
  <2>4. x + (g + c) = ra + g + a - 0 /\ y + (h + e) = rb + h + b - 0
    BY <1>3, <1>4, <1>8, <2>1, SMT
  <2>5. a \in Int /\ b \in Int BY <1>3, SMT
  <2>6. QED BY <1>2, <2>2, <2>3, <2>4, <2>5, FlowOfBoth
<1> HIDE DEF d
<1>12. IInv' BY <1>1, <1>10, <1>11, OnePoolStep
<1>14. ValueKept(k, pools[k], q)
  <2> DEFINE all == p.liquidity
  <2>1. all \in Nat /\ m * ra <= usedA * all BY <1>4, <1>7
  <2>2. /\ q.reserve[k[1]] = x /\ q.reserve[k[2]] = y /\ q.liquidity = all + m
    BY <1>9 DEF AfterProvision
  <2>3. /\ ra = pools[k].reserve[k[1]] /\ rb = pools[k].reserve[k[2]]
        /\ all = pools[k].liquidity
    BY <1>2 DEF ra, rb
  <2>4. x = ra + usedA /\ y = rb + usedB BY DEF x, y
  <2> HIDE DEF all
  <2>5. /\ (ra + usedA) * all >= ra * (all + m)
        /\ ((rb + usedB) + 1) * all >= rb * (all + m)
    BY <1>4, <1>6, <1>7, <1>13, <2>1, GrowthKeepsValue
  <2>6. QED BY <2>2, <2>3, <2>4, <2>5 DEF ValueKept
<1>15. pools'[k] = q /\ \A v \in Existing \ {k} : pools'[v] = pools[v]
  BY <1>1 DEF Existing
<1>16. Aged(k, pools[k], q) BY <1>2, <1>9 DEF AfterProvision, SameWindow, Aged
<1>17. PoolsAged BY <1>1, <1>16, OnePoolAges
<1>18. QED BY <1>12, <1>14, <1>15, <1>17

LEMMA RemoveLiquidityStep ==
  ASSUME IInv, NEW u \in Addresses, NEW k \in Existing, NEW a \in Amounts, NEW slack \in Slacks,
         RemoveLiquidity(u, k, a, slack)
  PROVE  /\ IInv' /\ PoolsAged
         /\ ValueKept(k, pools[k], pools'[k]) /\ \A x \in Existing \ {k} : pools'[x] = pools[x]
<1> DEFINE p        == WithTwap(k, pools[k])
           ra       == p.reserve[k[1]]
           rb       == p.reserve[k[2]]
           optimalB == Quote(a, ra, rb)
           changed  == WithChange(p, u, k[2], slack)
           cost     == LiquidityDecrease(k, p, a)
           l        == WithLiquidity(changed, u, -cost)
           q        == WithReserves(k, l, ra - a, rb - optimalB)
           w        == Pair(k, a, optimalB - slack)
           mine     == p.userLiquidity[u]
           all      == p.liquidity
<1>1. /\ MaxWithdraw(k, p, u) >= a /\ pools' = [pools EXCEPT ![k] = q] /\ Moved(None, w)
      /\ UNCHANGED <<admin, now, burnt, donated>>
  BY DEF RemoveLiquidity
<1>2. /\ k \in Keys /\ burnt[k] \in Nat \ {0}
      /\ PoolInv(k, pools[k], burnt[k])
      /\ PoolInv(k, p, burnt[k]) /\ p.stamp <= now
      /\ p.reserve = pools[k].reserve /\ p.change = pools[k].change
      /\ p.liquidity = pools[k].liquidity
      /\ p.stamp = now /\ p.window = pools[k].window /\ p.windowSum = Averages(k, pools[k])
  BY Current
<1>3. a \in Nat /\ slack \in Nat BY DozerAssumption
<1> HIDE DEF p
<1>4. ra \in Nat \ {0} /\ rb \in Nat \ {0} /\ all \in Nat \ {0}
      /\ mine \in Nat /\ mine < all
  BY <1>2, PoolTypes
<1>5. cost = CeilDiv(all * a, ra) /\ MaxWithdraw(k, p, u) = (mine * ra) \div all
  BY DEF LiquidityDecrease, MaxWithdraw
<1> HIDE DEF ra, rb, mine, all, cost
\* What u takes is within u's share, and u's share is not the whole pool.
<1>6. a * all <= mine * ra
  <2> DEFINE f == (mine * ra) \div all
  <2>1. mine * ra \in Nat BY <1>4, Products
  <2>2. f \in Nat /\ f * all <= mine * ra BY <1>4, <2>1, FloorBounds
  <2>3. f >= a BY <1>1, <1>5
  <2> HIDE DEF f
  <2>4. a * all <= f * all /\ a * all \in Int /\ f * all \in Int BY <1>3, <1>4, <2>2, <2>3, SMT
  <2>5. QED BY <2>1, <2>2, <2>4, SMT
<1>7. a < ra
  <2>1. SUFFICES ASSUME a >= ra PROVE FALSE BY <1>3, <1>4, SMT
  <2>2. ra * all <= a * all BY <1>3, <1>4, <2>1, SMT
  <2>3. mine * ra < ra * all BY <1>4, SMT
  <2>4. ra * all \in Int /\ a * all \in Int /\ mine * ra \in Int BY <1>3, <1>4, SMT
  <2>5. QED BY <1>6, <2>2, <2>3, <2>4, SMT
<1>8. cost \in Nat /\ cost <= mine /\ a * all <= cost * ra
  <2>1. all * a \in Nat /\ all * a <= mine * ra
    <3>1. all * a = a * all BY <1>3, <1>4, SMT
    <3>2. QED BY <1>3, <1>4, <1>6, <3>1, Products
  <2> DEFINE n == all * a
  <2> HIDE DEF n
  <2>2. n \in Nat /\ n <= mine * ra BY <2>1 DEF n
  <2>3. cost \in Nat /\ cost <= mine /\ cost * ra >= n
    BY <1>4, <1>5, <2>2, CeilBounds, FloorAtMost DEF n
  <2>4. n = a * all BY <1>3, <1>4, SMT DEF n
  <2>5. cost * ra \in Int BY <1>4, <2>3, SMT
  <2>6. QED BY <2>2, <2>3, <2>4, <2>5, SMT
<1>9. optimalB \in Nat /\ optimalB < rb /\ optimalB * ra <= a * rb
  <2>1. optimalB \in Nat /\ optimalB < rb BY <1>3, <1>4, <1>7, QuoteBounds
  <2>2. a * rb \in Nat BY <1>3, <1>4, Products
  <2>3. QED BY <1>4, <2>1, <2>2, FloorBounds DEF Quote
<1> HIDE DEF optimalB
<1>10. ra - a \in Nat \ {0} /\ rb - optimalB \in Nat \ {0} BY <1>3, <1>4, <1>7, <1>9, SMT
<1>11. k[1] \in TokensOf(k) /\ k[2] \in TokensOf(k) /\ k[1] # k[2] BY <1>2, TokensOfKey
<1> HIDE DEF w, q
<1>12. AfterChange(k, p, changed, burnt[k], k[2], slack)
  <2> HIDE DEF l
  <2>1. PoolInv(k, p, burnt[k]) BY <1>2
  <2>2. QED BY <1>2, <1>3, <1>11, <2>1, ChangePool
<1> HIDE DEF changed
<1>13. /\ PoolInv(k, changed, burnt[k]) /\ changed.stamp = p.stamp
       /\ changed.userLiquidity = p.userLiquidity
       /\ changed.change[k[1]] = p.change[k[1]] /\ changed.change[k[2]] = p.change[k[2]] + slack
  BY <1>11, <1>12 DEF AfterChange, SameWindow
<1>14. -cost \in Int /\ changed.userLiquidity[u] + (-cost) >= 0
  BY <1>4, <1>8, <1>13, SMT DEF mine
<1>15. AfterLiquidity(k, changed, l, burnt[k], -cost)
  <2>1. PoolInv(k, changed, burnt[k]) BY <1>13
  <2>2. QED BY <1>2, <1>14, <2>1, LiquidityPool
<1> HIDE DEF l
<1>16. PoolInv(k, l, burnt[k]) /\ l.stamp = changed.stamp /\ l.change = changed.change
  BY <1>15 DEF AfterLiquidity, SameWindow
<1> DEFINE x == ra - a
           y == rb - optimalB
<1>17. x \in Nat \ {0} /\ y \in Nat \ {0} BY <1>10
<1>18. q = WithReserves(k, l, x, y) BY DEF q
<1>19. x = ra - a /\ y = rb - optimalB OBVIOUS
<1> HIDE DEF x, y
<1>20. AfterReserves(k, l, q, burnt[k], x, y)
  <2>1. PoolInv(k, l, burnt[k]) BY <1>16
  <2>2. QED BY <1>2, <1>17, <1>18, <2>1, ReservesPool
<1>21. PoolInv(k, q, burnt[k]) /\ q.stamp <= now
  BY <1>2, <1>13, <1>16, <1>20 DEF AfterReserves, SameWindow
<1>22. Flow(k, pools[k], q, None, w)
  <2> DEFINE g == p.change[k[1]]
             h == p.change[k[2]]
             o == optimalB - slack
  <2>1. g \in Nat /\ h \in Nat BY <1>2, <1>11, PoolTypes
  <2>2. /\ q.reserve[k[1]] = x /\ q.reserve[k[2]] = y
        /\ q.change[k[1]] = g /\ q.change[k[2]] = h + slack
    BY <1>13, <1>16, <1>20 DEF AfterReserves
  <2>3. /\ ra = pools[k].reserve[k[1]] /\ rb = pools[k].reserve[k[2]]
        /\ g = pools[k].change[k[1]] /\ h = pools[k].change[k[2]]
    BY <1>2 DEF ra, rb
  <2> HIDE DEF g, h
  <2>4. x + g = ra + g + 0 - a /\ y + (h + slack) = rb + h + 0 - o
    BY <1>3, <1>4, <1>9, <1>19, <2>1, SMT
  <2>5. a \in Int /\ o \in Int BY <1>3, <1>9, SMT
  <2>6. w = Pair(k, a, o) BY DEF w
  <2> HIDE DEF o
  <2>7. QED BY <1>2, <2>2, <2>3, <2>4, <2>5, <2>6, FlowOfBoth
<1>23. IInv' BY <1>1, <1>21, <1>22, OnePoolStep
<1>24. ValueKept(k, pools[k], q)
  <2>1. q.reserve[k[1]] = x /\ q.reserve[k[2]] = y BY <1>20 DEF AfterReserves
  <2>2. q.liquidity = all + (-cost)
    BY <1>12, <1>15, <1>20 DEF AfterReserves, AfterLiquidity, AfterChange, all
  <2>3. /\ ra = pools[k].reserve[k[1]] /\ rb = pools[k].reserve[k[2]]
        /\ all = pools[k].liquidity
    BY <1>2 DEF ra, rb, all
  <2>4. all + (-cost) = all - cost BY <1>4, <1>8, SMT
  <2>5. /\ (ra - a) * all >= ra * (all - cost)
        /\ ((rb - optimalB) + 1) * all >= rb * (all - cost)
    BY <1>3, <1>4, <1>8, <1>9, ShrinkingKeepsValue
  <2>6. QED BY <1>19, <2>1, <2>2, <2>3, <2>4, <2>5 DEF ValueKept
<1>25. pools'[k] = q /\ \A v \in Existing \ {k} : pools'[v] = pools[v]
  BY <1>1 DEF Existing
<1>26. Aged(k, pools[k], q)
  BY <1>2, <1>12, <1>15, <1>20
  DEF AfterChange, AfterLiquidity, AfterReserves, SameWindow, Aged
<1>27. PoolsAged BY <1>1, <1>26, OnePoolAges
<1>28. QED BY <1>23, <1>24, <1>25, <1>27

-----------------------------------------------------------------------------
(* Liquidity added in one token.                                           *)
(* The flow of a call that moves one token of a pool. *)
LEMMA FlowOfOne ==
  ASSUME NEW k \in Keys, NEW t \in TokensOf(k), NEW p, NEW q, NEW a \in Int,
         LET s == Other(k, t)
         IN  q.reserve[s] + q.change[s] = p.reserve[s] + p.change[s] + 0 - 0
  PROVE  /\ q.reserve[t] + q.change[t] = p.reserve[t] + p.change[t] + a - 0
            => Flow(k, p, q, Of(t, a), None)
         /\ q.reserve[t] + q.change[t] = p.reserve[t] + p.change[t] + 0 - a
            => Flow(k, p, q, None, Of(t, a))
<1> DEFINE d == Of(t, a)
           s == Other(k, t)
<1>1. s # t /\ \A x : x \in TokensOf(k) <=> x = t \/ x = s BY TokensOfKey
<1>2. q.reserve[s] + q.change[s] = p.reserve[s] + p.change[s] + 0 - 0 OBVIOUS
<1>3. /\ Given(d, t) = a /\ \A x : x # t => Given(d, x) = 0
      /\ \A x : Given(d, x) \in Int
  BY GivenOf
<1> HIDE DEF d, s
<1>4. \A x : Given(None, x) = 0 /\ Given(None, x) \in Int BY GivenNone
<1>5. t \in TokensOf(k) OBVIOUS
<1>6. ASSUME q.reserve[t] + q.change[t] = p.reserve[t] + p.change[t] + a - 0
      PROVE  Flow(k, p, q, d, None)
  BY <1>1, <1>2, <1>3, <1>4, <1>5, <1>6 DEF Flow
<1>7. ASSUME q.reserve[t] + q.change[t] = p.reserve[t] + p.change[t] + 0 - a
      PROVE  Flow(k, p, q, None, d)
  BY <1>1, <1>2, <1>3, <1>4, <1>5, <1>7 DEF Flow
<1>8. QED BY <1>6, <1>7 DEF d

LEMMA OptimalSwapNat ==
  ASSUME NEW amount \in Nat, NEW r \in Nat, NEW fee \in 0 .. (FeeDenominator - 1)
  PROVE  OptimalSwapAmount(amount, r, fee) \in Nat
<1> DEFINE n     == r * (r * FeeDenominator * FeeDenominator
                         + amount * FeeDenominator * (FeeDenominator - fee))
           root  == Isqrt(n)
           rest  == root - r * FeeDenominator
           net   == FeeDenominator - fee
<1>1. FeeDenominator \in Nat \ {0} BY DozerMathAssumption
<1>2. net \in Nat \ {0} BY <1>1, SMT
<1>3. n \in Nat
  <2> HIDE DEF net
  <2>1. FeeDenominator \in Nat BY <1>1
  <2>2. amount * FeeDenominator \in Nat BY <2>1, Products
  <2>3. amount * FeeDenominator * net \in Nat BY <1>2, <2>2, Products
  <2>4. r * FeeDenominator \in Nat BY <2>1, Products
  <2>5. r * FeeDenominator * FeeDenominator \in Nat BY <2>1, <2>4, Products
  <2> DEFINE x == r * FeeDenominator * FeeDenominator
             y == amount * FeeDenominator * net
  <2>6. x \in Nat /\ y \in Nat BY <2>3, <2>5
  <2> HIDE DEF x, y
  <2>7. x + y \in Nat BY <2>6, SMT
  <2>8. r * (x + y) \in Nat BY <2>7, Products
  <2>9. QED BY <2>8 DEF x, y, net
<1> HIDE DEF n
<1>4. root \in Nat BY <1>3, IsqrtMonotone, SMT
<1> HIDE DEF root
<1>5. r * FeeDenominator \in Nat BY <1>1, Products
<1>6. rest \in Int BY <1>4, <1>5, SMT
<1>7. OptimalSwapAmount(amount, r, fee)
        = IF net <= 0 \/ amount = 0 \/ rest <= 0 THEN 0 ELSE rest \div net
  BY DEF OptimalSwapAmount, rest, root, n, net
<1> HIDE DEF rest, net
<1>8. ~ (rest <= 0) => rest \div net \in Nat
  <2>1. ~ (rest <= 0) => rest \in Nat BY <1>6, SMT
  <2>2. QED BY <1>2, <2>1, FloorBounds
<1>9. QED BY <1>7, <1>8

\* Nothing in gives nothing out.
LEMMA NothingOut ==
  ASSUME NEW k \in Keys, Fee(k) <= MaxFee, NEW p, NEW b \in Nat \ {0}, PoolInv(k, p, b),
         NEW t \in TokensOf(k)
  PROVE  OutOf(k, p, t, 0) = 0
<1> DEFINE r == p.reserve[t]
           s == p.reserve[Other(k, t)]
           net == 0 * (FeeDenominator - Fee(k))
           d == r * FeeDenominator + net
<1>1. r \in Nat \ {0} /\ s \in Nat \ {0} BY PoolTypes, TokensOfKey
<1>2. Fee(k) \in 0 .. (FeeDenominator - 1) /\ FeeDenominator \in Nat \ {0} BY FeeBelow
<1>3. net = 0 BY <1>2, SMT
<1>4. OutOf(k, p, t, 0) = (s * net) \div d BY DEF OutOf, AmountOut
<1> HIDE DEF net, r, s
<1>5. d \in Nat \ {0} BY <1>1, <1>2, <1>3, SMT
<1>6. s * net = 0 BY <1>1, <1>3, SMT
<1> HIDE DEF d
<1>7. 0 \div d = 0
  <2>1. 0 < 1 * d BY <1>5, SMT
  <2>2. 0 \div d \in Nat /\ 0 \div d < 1 BY <1>5, <2>1, FloorBounds, FloorAtMost, SMT
  <2>3. QED BY <2>2, SMT
<1>8. QED BY <1>4, <1>6, <1>7

LEMMA AddLiquiditySingleTokenStep ==
  ASSUME IInv, NEW u \in Addresses, NEW k \in Existing, NEW t \in TokensOf(k),
         NEW amount \in Amounts, AddLiquiditySingleToken(u, k, t, amount)
  PROVE  IInv' /\ PoolsAged
<1> DEFINE p        == WithTwap(k, pools[k])
           swapIn   == OptimalSwapAmount(amount, p.reserve[t], Fee(k))
           swapOut  == OutOf(k, p, t, swapIn)
           swapped  == IF swapIn = 0 THEN p ELSE Exchanged(k, p, t, swapIn, swapOut)
           ra       == swapped.reserve[k[1]]
           rb       == swapped.reserve[k[2]]
           a        == IF t = k[1] THEN amount - swapIn ELSE swapOut
           b        == IF t = k[1] THEN swapOut ELSE amount - swapIn
           backB    == Quote(a, ra, rb)
           backA    == Quote(b, rb, ra)
           byA      == backB <= b
           usedA    == IF byA THEN a ELSE backA
           usedB    == IF byA THEN backB ELSE b
           m        == IF byA THEN (swapped.liquidity * usedA) \div ra
                              ELSE (swapped.liquidity * usedB) \div rb
           c        == a - usedA
           e        == b - usedB
           x        == ra + usedA
           y        == rb + usedB
           q        == Provided(k, swapped, u, c, e, m, x, y)
           s        == Other(k, t)
<1>1. /\ swapIn <= amount /\ pools' = [pools EXCEPT ![k] = q] /\ Moved(Of(t, amount), None)
      /\ UNCHANGED <<admin, now, burnt, donated>>
  <2> DEFINE r == AddSingleResult(k, p, t, amount)
  <2>1. /\ r.swapIn = swapIn /\ r.swapped = swapped
        /\ r.usedA = usedA /\ r.usedB = usedB /\ r.excessA = c /\ r.excessB = e
        /\ r.minted = m
    BY DEF AddSingleResult
  <2>2. /\ r.swapIn <= amount
        /\ pools' = [pools EXCEPT ![k] =
             Provided(k, r.swapped, u, r.excessA, r.excessB, r.minted,
                      r.swapped.reserve[k[1]] + r.usedA, r.swapped.reserve[k[2]] + r.usedB)]
        /\ Moved(Of(t, amount), None) /\ UNCHANGED <<admin, now, burnt, donated>>
    <3> HIDE DEF swapIn, swapOut, swapped, ra, rb, a, b, byA, usedA, usedB, m, c, e, x, y, q, s
    <3>1. QED BY DEF AddLiquiditySingleToken, Provided
  <2> HIDE DEF r, p, swapIn, swapOut, swapped, usedA, usedB, m, c, e
  <2>3. QED BY <2>1, <2>2
<1>2. /\ k \in Keys /\ Fee(k) <= MaxFee /\ burnt[k] \in Nat \ {0}
      /\ PoolInv(k, pools[k], burnt[k])
      /\ PoolInv(k, p, burnt[k]) /\ p.stamp <= now
      /\ p.reserve = pools[k].reserve /\ p.change = pools[k].change
      /\ p.stamp = now /\ p.window = pools[k].window /\ p.windowSum = Averages(k, pools[k])
  BY Current
<1>3. amount \in Nat /\ admin.owner \in Addresses /\ admin.protocolFee \in 0 .. 50
  BY DozerAssumption DEF IInv, AdminTypes
<1>4. s \in TokensOf(k) /\ s # t /\ k[1] \in TokensOf(k) /\ k[2] \in TokensOf(k) /\ k[1] # k[2]
      /\ Other(k, s) = t /\ (t = k[1] => s = k[2]) /\ (t # k[1] => t = k[2] /\ s = k[1])
  BY <1>2, TokensOfKey DEF TokensOf, Other
<1> HIDE DEF p
<1>5. p.reserve \in [TokensOf(k) -> Nat \ {0}] /\ p.change \in [TokensOf(k) -> Nat]
  BY <1>2, PoolTypes
<1>6. swapIn \in Nat
  <2>1. p.reserve[t] \in Nat BY <1>5
  <2>2. Fee(k) \in 0 .. (FeeDenominator - 1) BY <1>2, FeeBelow
  <2>3. QED BY <1>3, <2>1, <2>2, OptimalSwapNat
<1> HIDE DEF swapIn
<1>7. swapOut \in Nat /\ swapOut < p.reserve[s] BY <1>2, <1>6, OutBelow
<1>8. swapIn = 0 => swapOut = 0 BY <1>2, NothingOut
<1> HIDE DEF swapOut
<1>9. AfterExchange(k, p, swapped, burnt[k], t, swapIn, swapOut)
  <2>1. CASE swapIn = 0
    <3>1. p.reserve[t] \in Nat /\ p.reserve[s] \in Nat BY <1>4, <1>5
    <3>2. swapped = p /\ swapOut = 0 BY <1>8, <2>1
    <3>3. p.reserve[t] + swapIn = p.reserve[t] /\ p.reserve[s] - swapOut = p.reserve[s]
      BY <2>1, <3>1, <3>2, SMT
    <3> HIDE DEF swapped
    <3>4. QED BY <1>2, <3>2, <3>3 DEF AfterExchange, SameWindow, s
  <2>2. CASE swapIn # 0
    <3>1. swapped = Exchanged(k, p, t, swapIn, swapOut) BY <2>2
    <3> HIDE DEF swapped
    <3>2. PoolInv(k, p, burnt[k]) BY <1>2
    <3>3. QED BY <1>2, <1>3, <1>6, <1>7, <3>1, <3>2, ExchangedPool DEF s
  <2>3. QED BY <2>1, <2>2
<1> HIDE DEF swapped
<1>10. /\ PoolInv(k, swapped, burnt[k]) /\ swapped.stamp = p.stamp /\ swapped.change = p.change
       /\ swapped.reserve[t] = p.reserve[t] + swapIn
       /\ swapped.reserve[s] = p.reserve[s] - swapOut
  BY <1>9 DEF AfterExchange, SameWindow, s
<1>11. ra \in Nat \ {0} /\ rb \in Nat \ {0} /\ swapped.liquidity \in Nat
  BY <1>2, <1>10, PoolTypes
<1>12. /\ t = k[1] => /\ ra = p.reserve[k[1]] + swapIn /\ rb = p.reserve[k[2]] - swapOut
                      /\ a = amount - swapIn /\ b = swapOut
       /\ t # k[1] => /\ ra = p.reserve[k[1]] - swapOut /\ rb = p.reserve[k[2]] + swapIn
                      /\ a = swapOut /\ b = amount - swapIn
  BY <1>4, <1>10
<1> HIDE DEF ra, rb
<1>13. a \in Nat /\ b \in Nat BY <1>1, <1>3, <1>6, <1>7, SMT
<1> HIDE DEF a, b
<1>14. backA \in Nat /\ backB \in Nat /\ (~ byA => backA <= a)
  BY <1>11, <1>13, QuoteBounds, QuoteBack
<1> HIDE DEF backA, backB
<1>15. usedA \in Nat /\ usedB \in Nat /\ usedA <= a /\ usedB <= b BY <1>13, <1>14, SMT
<1> HIDE DEF usedA, usedB
<1>16. m \in Nat
  <2>1. swapped.liquidity * usedA \in Nat /\ swapped.liquidity * usedB \in Nat
    BY <1>11, <1>15, Products
  <2>2. (swapped.liquidity * usedA) \div ra \in Nat /\ (swapped.liquidity * usedB) \div rb \in Nat
    BY <1>11, <2>1, FloorBounds
  <2>3. QED BY <2>2
<1> HIDE DEF m
<1>17. c \in Nat /\ e \in Nat /\ x \in Nat \ {0} /\ y \in Nat \ {0}
       /\ x + c = ra + a /\ y + e = rb + b
  BY <1>11, <1>13, <1>15, SMT
<1> HIDE DEF c, e, x, y
<1>18. AfterProvision(k, swapped, q, burnt[k], c, e, m, x, y)
  <2>1. PoolInv(k, swapped, burnt[k]) BY <1>10
  <2>2. QED BY <1>2, <1>16, <1>17, <2>1, ProvidedPool
<1> HIDE DEF q
<1>19. PoolInv(k, q, burnt[k]) /\ q.stamp <= now
  BY <1>2, <1>10, <1>18 DEF AfterProvision, SameWindow
<1>20. Flow(k, pools[k], q, Of(t, amount), None)
  <2> DEFINE g == p.change[k[1]]
             h == p.change[k[2]]
             oa == p.reserve[k[1]]
             ob == p.reserve[k[2]]
  <2>1. g \in Nat /\ h \in Nat /\ oa \in Nat /\ ob \in Nat BY <1>4, <1>5
  <2>2. /\ q.reserve[k[1]] = x /\ q.reserve[k[2]] = y
        /\ q.change[k[1]] = g + c /\ q.change[k[2]] = h + e
    BY <1>10, <1>18 DEF AfterProvision
  <2>3. /\ oa = pools[k].reserve[k[1]] /\ ob = pools[k].reserve[k[2]]
        /\ g = pools[k].change[k[1]] /\ h = pools[k].change[k[2]]
    BY <1>2
  <2>4. /\ t = k[1] => ra = oa + swapIn /\ rb = ob - swapOut
                       /\ a = amount - swapIn /\ b = swapOut
        /\ t # k[1] => ra = oa - swapOut /\ rb = ob + swapIn
                       /\ a = swapOut /\ b = amount - swapIn
    BY <1>12
  <2> HIDE DEF g, h, oa, ob
  <2>5. /\ t = k[1] => x + (g + c) = oa + g + amount - 0 /\ y + (h + e) = ob + h + 0 - 0
        /\ t # k[1] => x + (g + c) = oa + g + 0 - 0 /\ y + (h + e) = ob + h + amount - 0
    BY <1>3, <1>6, <1>7, <1>11, <1>13, <1>17, <2>1, <2>4, SMT
  <2>6. amount \in Int BY <1>3, SMT
  <2>7. CASE t = k[1]
    <3>1. /\ q.reserve[t] + q.change[t] = pools[k].reserve[t] + pools[k].change[t] + amount - 0
          /\ q.reserve[s] + q.change[s] = pools[k].reserve[s] + pools[k].change[s] + 0 - 0
      BY <1>4, <2>2, <2>3, <2>5, <2>7
    <3>2. QED BY <1>2, <2>6, <3>1, FlowOfOne DEF s
  <2>8. CASE t # k[1]
    <3>1. /\ q.reserve[t] + q.change[t] = pools[k].reserve[t] + pools[k].change[t] + amount - 0
          /\ q.reserve[s] + q.change[s] = pools[k].reserve[s] + pools[k].change[s] + 0 - 0
      BY <1>4, <2>2, <2>3, <2>5, <2>8
    <3>2. QED BY <1>2, <2>6, <3>1, FlowOfOne DEF s
  <2>9. QED BY <2>7, <2>8
<1>21. IInv' BY <1>1, <1>19, <1>20, OnePoolStep
<1>22. Aged(k, pools[k], q)
  BY <1>2, <1>9, <1>18 DEF AfterExchange, AfterProvision, SameWindow, Aged
<1>23. PoolsAged BY <1>1, <1>22, OnePoolAges
<1>24. QED BY <1>21, <1>23

-----------------------------------------------------------------------------
(* Liquidity removed in one token, and cashback.                           *)
LEMMA RemoveLiquiditySingleTokenStep ==
  ASSUME IInv, NEW u \in Addresses, NEW k \in Existing, NEW t \in TokensOf(k),
         NEW percentage \in Percentages, NEW slack \in Slacks,
         RemoveLiquiditySingleToken(u, k, t, percentage, slack)
  PROVE  IInv' /\ PoolsAged
<1> DEFINE p       == WithTwap(k, pools[k])
           removed == Portion(p, u, percentage)
           s       == Other(k, t)
           part    == [x \in TokensOf(k) |-> (p.reserve[x] * removed) \div p.liquidity]
           l       == WithLiquidity(p, u, -removed)
           left    == WithReserves(k, l, p.reserve[k[1]] - part[k[1]], p.reserve[k[2]] - part[k[2]])
           swapOut == IF part[s] = 0 THEN 0 ELSE OutOf(k, left, s, part[s])
           swapped == IF part[s] = 0 THEN left ELSE Exchanged(k, left, s, part[s], swapOut)
           out     == part[t] + swapOut
           q       == WithChange(swapped, u, t, slack)
<1>1. /\ percentage > 0 /\ percentage <= 10000
      /\ pools' = [pools EXCEPT ![k] = q] /\ Moved(None, Of(t, out - slack))
      /\ UNCHANGED <<admin, now, burnt, donated>>
  <2> DEFINE r == RemoveSingleResult(k, p, u, t, removed)
  <2>1. r.swapped = swapped /\ r.out = out BY DEF RemoveSingleResult
  <2>2. /\ percentage > 0 /\ percentage <= 10000
        /\ pools' = [pools EXCEPT ![k] = WithChange(r.swapped, u, t, slack)]
        /\ Moved(None, Of(t, r.out - slack)) /\ UNCHANGED <<admin, now, burnt, donated>>
    <3> HIDE DEF s, part, l, left, swapOut, swapped, out, q
    <3>1. percentage > 0 /\ percentage <= 10000 /\ UNCHANGED <<admin, now, burnt, donated>>
      BY DEF RemoveLiquiditySingleToken
    <3>2. pools' = [pools EXCEPT ![k] = WithChange(r.swapped, u, t, slack)]
      BY DEF RemoveLiquiditySingleToken
    <3>3. Moved(None, Of(t, r.out - slack)) BY DEF RemoveLiquiditySingleToken
    <3>4. QED BY <3>1, <3>2, <3>3
  <2> HIDE DEF r, swapped, out
  <2>3. QED BY <2>1, <2>2
<1> HIDE DEF q, out, swapped, swapOut, left, l, part
<1>2. /\ k \in Keys /\ Fee(k) <= MaxFee /\ burnt[k] \in Nat \ {0}
      /\ PoolInv(k, pools[k], burnt[k])
      /\ PoolInv(k, p, burnt[k]) /\ p.stamp <= now
      /\ p.reserve = pools[k].reserve /\ p.change = pools[k].change
      /\ p.stamp = now /\ p.window = pools[k].window /\ p.windowSum = Averages(k, pools[k])
  BY Current
<1>3. slack \in Nat /\ percentage \in Nat
      /\ admin.owner \in Addresses /\ admin.protocolFee \in 0 .. 50
  <2>1. slack \in Nat /\ percentage \in Int BY DozerAssumption
  <2>2. percentage > 0 BY <1>1
  <2>3. percentage \in Nat BY <2>1, <2>2, SMT
  <2>4. QED BY <2>1, <2>3 DEF IInv, AdminTypes
<1>4. s \in TokensOf(k) /\ s # t /\ k[1] \in TokensOf(k) /\ k[2] \in TokensOf(k) /\ k[1] # k[2]
      /\ Other(k, s) = t /\ (t = k[1] => s = k[2]) /\ (t # k[1] => t = k[2] /\ s = k[1])
  BY <1>2, TokensOfKey DEF TokensOf, Other
<1> HIDE DEF p
<1>5. p.reserve \in [TokensOf(k) -> Nat \ {0}] /\ p.change \in [TokensOf(k) -> Nat]
      /\ p.liquidity \in Nat \ {0}
      /\ p.userLiquidity[u] \in Nat /\ p.userLiquidity[u] < p.liquidity
  BY <1>2, PoolTypes
<1>6. removed \in Nat /\ removed <= p.userLiquidity[u]
  <2> DEFINE mine == p.userLiquidity[u]
  <2>1. mine \in Nat BY <1>5
  <2> HIDE DEF mine
  <2> DEFINE n == mine * percentage
  <2>2. n \in Nat BY <1>3, <2>1, Products
  <2>3. n <= mine * 10000 BY <1>1, <1>3, <2>1, SMT
  <2> HIDE DEF n
  <2>4. n \div 10000 \in Nat /\ n \div 10000 <= mine BY <2>1, <2>2, <2>3, FloorBounds, FloorAtMost
  <2>5. removed = n \div 10000 BY DEF Portion, n, mine
  <2>6. QED BY <2>4, <2>5 DEF mine
<1> HIDE DEF removed
<1>7. removed < p.liquidity BY <1>5, <1>6, SMT
<1>8. ASSUME NEW x \in TokensOf(k)
      PROVE  part[x] \in Nat /\ p.reserve[x] \in Nat \ {0} /\ part[x] < p.reserve[x]
  <2> DEFINE r == p.reserve[x]
             all == p.liquidity
  <2>1. r \in Nat \ {0} /\ all \in Nat \ {0} /\ removed < all BY <1>5, <1>7
  <2>2. part[x] = (r * removed) \div all BY DEF part
  <2> HIDE DEF r, all
  <2> DEFINE n == r * removed
  <2>3. n \in Nat /\ n < r * all
    <3>1. n \in Nat BY <1>6, <2>1, Products
    <3>2. r * removed < r * all BY <1>6, <2>1, SMT
    <3>3. QED BY <3>1, <3>2
  <2> HIDE DEF n
  <2>4. n \div all \in Nat /\ n \div all < r BY <2>1, <2>3, FloorBounds, FloorAtMost
  <2>5. QED BY <2>1, <2>2, <2>4 DEF n, r
<1> DEFINE va == p.reserve[k[1]] - part[k[1]]
           vb == p.reserve[k[2]] - part[k[2]]
<1>9. va \in Nat \ {0} /\ vb \in Nat \ {0} /\ p.reserve[t] - part[t] \in Nat \ {0}
      /\ p.reserve[s] - part[s] \in Nat \ {0}
  <2>1. \A x \in TokensOf(k) : p.reserve[x] - part[x] \in Nat \ {0}
    <3> SUFFICES ASSUME NEW x \in TokensOf(k) PROVE p.reserve[x] - part[x] \in Nat \ {0}
      OBVIOUS
    <3>1. part[x] \in Nat /\ p.reserve[x] \in Nat \ {0} /\ part[x] < p.reserve[x] BY <1>8
    <3>2. QED BY <3>1, SMT
  <2>2. QED BY <1>4, <2>1
<1>10. left = WithReserves(k, l, va, vb) BY DEF left
<1>11. /\ t = k[1] => va = p.reserve[t] - part[t] /\ vb = p.reserve[s] - part[s]
       /\ t # k[1] => vb = p.reserve[t] - part[t] /\ va = p.reserve[s] - part[s]
  BY <1>4
<1> HIDE DEF va, vb
<1>12. AfterLiquidity(k, p, l, burnt[k], -removed)
  <2>1. PoolInv(k, p, burnt[k]) BY <1>2
  <2>2. -removed \in Int /\ p.userLiquidity[u] + (-removed) >= 0 BY <1>5, <1>6, SMT
  <2>3. QED BY <1>2, <2>1, <2>2, LiquidityPool DEF l
<1>13. PoolInv(k, l, burnt[k]) /\ l.stamp = p.stamp /\ l.change = p.change
  BY <1>12 DEF AfterLiquidity, SameWindow
<1>14. AfterReserves(k, l, left, burnt[k], va, vb)
  <2>1. PoolInv(k, l, burnt[k]) BY <1>13
  <2>2. QED BY <1>2, <1>9, <1>10, <2>1, ReservesPool
<1>15. /\ PoolInv(k, left, burnt[k]) /\ left.stamp = p.stamp /\ left.change = p.change
       /\ left.reserve[k[1]] = va /\ left.reserve[k[2]] = vb
  BY <1>13, <1>14 DEF AfterReserves, SameWindow
<1>16. left.reserve[t] = p.reserve[t] - part[t] /\ left.reserve[s] = p.reserve[s] - part[s]
  BY <1>4, <1>11, <1>15
<1>17. swapOut \in Nat /\ swapOut < left.reserve[t]
  <2>1. part[s] \in Nat BY <1>4, <1>8
  <2>2. OutOf(k, left, s, part[s]) \in Nat /\ OutOf(k, left, s, part[s]) < left.reserve[Other(k, s)]
    BY <1>2, <1>4, <1>15, <2>1, OutBelow
  <2>3. 0 < left.reserve[t] BY <1>9, <1>16, SMT
  <2>4. QED BY <1>4, <2>2, <2>3 DEF swapOut
<1>18. part[s] = 0 => swapOut = 0 BY DEF swapOut
<1>19. AfterExchange(k, left, swapped, burnt[k], s, part[s], swapOut)
  <2>1. part[s] \in Nat BY <1>4, <1>8
  <2>2. CASE part[s] = 0
    <3>1. left.reserve[t] \in Nat /\ left.reserve[s] \in Nat BY <1>9, <1>16
    <3>2. swapped = left /\ swapOut = 0 BY <1>18, <2>2 DEF swapped
    <3>3. left.reserve[s] + part[s] = left.reserve[s] /\ left.reserve[t] - swapOut = left.reserve[t]
      BY <2>2, <3>1, <3>2, SMT
    <3>4. QED BY <1>4, <1>15, <3>2, <3>3 DEF AfterExchange, SameWindow
  <2>3. CASE part[s] # 0
    <3>1. swapped = Exchanged(k, left, s, part[s], swapOut) BY <2>3 DEF swapped
    <3> HIDE DEF s
    <3>2. PoolInv(k, left, burnt[k]) /\ swapOut < left.reserve[Other(k, s)] BY <1>4, <1>15, <1>17
    <3>3. QED BY <1>2, <1>3, <1>4, <1>17, <2>1, <3>1, <3>2, ExchangedPool
  <2>4. QED BY <2>2, <2>3
<1>20. /\ PoolInv(k, swapped, burnt[k]) /\ swapped.stamp = p.stamp /\ swapped.change = p.change
       /\ swapped.reserve[s] = left.reserve[s] + part[s]
       /\ swapped.reserve[t] = left.reserve[t] - swapOut
  BY <1>4, <1>15, <1>19 DEF AfterExchange, SameWindow
<1>21. AfterChange(k, swapped, q, burnt[k], t, slack)
  <2>1. PoolInv(k, swapped, burnt[k]) BY <1>20
  <2>2. QED BY <1>2, <1>3, <2>1, ChangePool DEF q
<1>22. PoolInv(k, q, burnt[k]) /\ q.stamp <= now
  BY <1>2, <1>20, <1>21 DEF AfterChange, SameWindow
<1>23. Flow(k, pools[k], q, None, Of(t, out - slack))
  <2> DEFINE g == p.change[t]
             h == p.change[s]
             ot == p.reserve[t]
             os == p.reserve[s]
             pt == part[t]
             ps == part[s]
             gain == out - slack
  <2>1. g \in Nat /\ h \in Nat /\ ot \in Nat /\ os \in Nat /\ pt \in Nat /\ ps \in Nat
    BY <1>4, <1>5, <1>8
  <2>2. /\ q.reserve[t] = left.reserve[t] - swapOut /\ q.reserve[s] = left.reserve[s] + ps
        /\ q.change[t] = g + slack /\ q.change[s] = h
    BY <1>4, <1>20, <1>21 DEF AfterChange
  <2>3. left.reserve[t] = ot - pt /\ left.reserve[s] = os - ps BY <1>16
  <2>4. /\ ot = pools[k].reserve[t] /\ os = pools[k].reserve[s]
        /\ g = pools[k].change[t] /\ h = pools[k].change[s]
    BY <1>2
  <2> HIDE DEF g, h, ot, os, ps, s
  <2>5. gain = pt + swapOut - slack
    <3>1. gain = out - slack OBVIOUS
    <3>2. out = pt + swapOut BY DEF out
    <3> HIDE DEF gain, pt
    <3>3. QED BY <1>3, <1>17, <2>1, <3>1, <3>2, SMT
  <2> HIDE DEF pt, gain
  <2>6. /\ (ot - pt) - swapOut + (g + slack) = ot + g + 0 - gain
        /\ (os - ps) + ps + h = os + h + 0 - 0
        /\ gain \in Int
    BY <1>3, <1>17, <2>1, <2>5, SMT
  <2>7. /\ q.reserve[t] + q.change[t] = pools[k].reserve[t] + pools[k].change[t] + 0 - gain
        /\ q.reserve[s] + q.change[s] = pools[k].reserve[s] + pools[k].change[s] + 0 - 0
    BY <2>2, <2>3, <2>4, <2>6
  <2>8. Flow(k, pools[k], q, None, Of(t, gain)) BY <1>2, <2>6, <2>7, FlowOfOne DEF s
  <2>9. QED BY <2>8 DEF gain
<1> DEFINE w == Of(t, out - slack)
<1>24. Moved(None, w) /\ Flow(k, pools[k], q, None, w) BY <1>1, <1>23
<1> HIDE DEF w, removed, s
<1>25. pools' = [pools EXCEPT ![k] = q] /\ UNCHANGED <<admin, now, burnt, donated>> BY <1>1
<1>26. IInv' BY <1>22, <1>24, <1>25, OnePoolStep
<1>27. Aged(k, pools[k], q)
  BY <1>2, <1>12, <1>14, <1>19, <1>21
  DEF AfterLiquidity, AfterReserves, AfterExchange, AfterChange, SameWindow, Aged
<1>28. PoolsAged BY <1>25, <1>27, OnePoolAges
<1>29. QED BY <1>26, <1>28

LEMMA WithdrawCashbackStep ==
  ASSUME IInv, NEW u \in Addresses, NEW k \in Keys, NEW ts \in (SUBSET TokensOf(k)) \ {{}},
         NEW a \in (Amounts \cup Slacks) \ {0},
         WithdrawCashback(u, k, [t \in ts |-> a])
  PROVE  IInv' /\ PoolsAged
<1> DEFINE taken == [t \in ts |-> a]
           o == pools[k]
           mine == [t \in TokensOf(k) |-> o.userChange[u][t] - Given(taken, t)]
           all == [t \in TokensOf(k) |-> o.change[t] - Given(taken, t)]
           q == [o EXCEPT !.userChange = [o.userChange EXCEPT ![u] = mine], !.change = all]
<1>1. k \in Existing /\ a \in Nat /\ DOMAIN taken = ts
  BY DozerAssumption DEF WithdrawCashback
<1>2. k \in Keys /\ burnt[k] \in Nat \ {0} /\ PoolInv(k, o, burnt[k]) /\ o.stamp <= now
  BY <1>1 DEF IInv, TableInv, Existing
<1>3. /\ \A t \in ts : a <= o.userChange[u][t]
      /\ Moved(None, taken) /\ UNCHANGED <<admin, now, burnt, donated>>
  BY DEF WithdrawCashback
<1>4. /\ o.change \in [TokensOf(k) -> Nat]
      /\ o.userChange \in [Addresses -> [TokensOf(k) -> Nat]]
  BY <1>2, PoolTypes
<1>5. \A t : Given(taken, t) = IF t \in ts THEN a ELSE 0 BY DEF Given
<1>6. pools' = [pools EXCEPT ![k] = q]
  <2>1. pools = [x \in Existing |-> pools[x]] BY DEF IInv, TableInv, Existing
  <2>2. o \in PoolRecords(k) BY <1>2 DEF PoolInv
  <2>3. mine = [t \in TokensOf(k) |-> o.userChange[u][t]
                                      - (IF t \in DOMAIN taken THEN taken[t] ELSE 0)]
        /\ all = [t \in TokensOf(k) |-> o.change[t]
                                        - (IF t \in DOMAIN taken THEN taken[t] ELSE 0)]
    BY DEF Given
  <2> DEFINE rest(table) == [t \in TokensOf(k) |->
                               table[t] - (IF t \in DOMAIN taken THEN taken[t] ELSE 0)]
  <2>4. pools' = [pools EXCEPT ![k].userChange[u] = rest(@), ![k].change = rest(@)]
    BY DEF WithdrawCashback
  <2>5. QED BY <1>1, <2>1, <2>2, <2>3, <2>4 DEF PoolRecords
<1> HIDE DEF taken
<1>7. ASSUME NEW t \in TokensOf(k)
      PROVE  /\ mine[t] \in Nat /\ all[t] \in Nat
             /\ Given(taken, t) \in Nat
             /\ all[t] = SumFunctionOnSet(
                  [v \in Addresses |-> IF v = u THEN mine[t] ELSE o.userChange[v][t]], Addresses)
  <2> DEFINE f == [v \in Addresses |-> o.userChange[v][t]]
             g == [v \in Addresses |-> IF v = u THEN mine[t] ELSE o.userChange[v][t]]
             n == Given(taken, t)
  <2>1. n \in Nat /\ n <= f[u] /\ f[u] \in Nat BY <1>1, <1>3, <1>4, <1>5
  <2>2. f \in [Addresses -> Nat] BY <1>4
  <2>3. o.change[t] = SumFunctionOnSet(f, Addresses) /\ o.change[t] \in Nat
    BY <1>2, <1>4 DEF PoolInv, Books
  <2>4. mine[t] = f[u] - n /\ all[t] = o.change[t] - n /\ g[u] = mine[t] OBVIOUS
  <2>5. \A v \in Addresses \ {u} : g[v] = f[v] OBVIOUS
  <2>6. g \in [Addresses -> Nat]
    <3>1. f[u] - n \in Nat BY <2>1, SMT
    <3>2. \A v \in Addresses : o.userChange[v][t] \in Nat BY <1>4
    <3> HIDE DEF n
    <3>3. QED BY <2>4, <3>1, <3>2
  <2>7. IsFiniteSet(Addresses) BY DozerAssumption
  <2> HIDE DEF f, g, n, mine, all
  <2>8. f[u] <= SumFunctionOnSet(f, Addresses) BY <2>2, <2>7, SumBounds
  <2>9. f \in [Addresses -> Int] /\ g \in [Addresses -> Int] BY <2>2, <2>6
  <2>10. SumFunctionOnSet(g, Addresses) = SumFunctionOnSet(f, Addresses) - f[u] + g[u]
    BY <2>5, <2>7, <2>9, SumUpdate
  <2>11. all[t] = SumFunctionOnSet(g, Addresses) BY <2>1, <2>3, <2>4, <2>10, SMT
  <2>12. mine[t] \in Nat /\ all[t] \in Nat BY <2>1, <2>3, <2>4, <2>8, SMT
  <2>13. QED BY <2>1, <2>11, <2>12 DEF g, n
<1>8. mine \in [TokensOf(k) -> Nat] /\ all \in [TokensOf(k) -> Nat] BY <1>7
<1>9. \A t \in TokensOf(k) : all[t] = o.change[t] - Given(taken, t) OBVIOUS
<1> HIDE DEF mine, all, o
<1>10. /\ q \in PoolRecords(k) /\ q.stamp = o.stamp /\ q.reserve = o.reserve
       /\ q.window = o.window /\ q.windowSum = o.windowSum
       /\ q.liquidity = o.liquidity /\ q.userLiquidity = o.userLiquidity
       /\ q.change = all /\ q.userChange = [o.userChange EXCEPT ![u] = mine]
  <2>1. o \in PoolRecords(k) BY <1>2 DEF PoolInv
  <2>2. [o.userChange EXCEPT ![u] = mine] \in [Addresses -> [TokensOf(k) -> Nat]]
    BY <1>4, <1>8
  <2>3. QED BY <1>8, <2>1, <2>2 DEF PoolRecords
<1> HIDE DEF q
<1>11. PoolInv(k, q, burnt[k])
  <2>1. Books(k, o, burnt[k]) BY <1>2 DEF PoolInv
  <2>2. ASSUME NEW t \in TokensOf(k)
        PROVE  q.change[t] = SumFunctionOnSet([v \in Addresses |-> q.userChange[v][t]], Addresses)
    <3>1. [v \in Addresses |-> q.userChange[v][t]]
            = [v \in Addresses |-> IF v = u THEN mine[t] ELSE o.userChange[v][t]]
      BY <1>4, <1>10
    <3>2. QED BY <1>7, <1>10, <3>1
  <2>3. QED BY <1>10, <2>1, <2>2 DEF PoolInv, Books
<1>12. Flow(k, o, q, None, taken)
  <2>1. \A t : Given(taken, t) \in Int /\ Given(None, t) = 0 /\ Given(None, t) \in Int
    BY <1>1, <1>5, GivenNone, SMT
  <2>2. \A t : t \notin TokensOf(k) => Given(taken, t) = 0 BY <1>5
  <2>3. ASSUME NEW t \in TokensOf(k)
        PROVE  q.reserve[t] + q.change[t]
                 = o.reserve[t] + o.change[t] + Given(None, t) - Given(taken, t)
    <3>1. o.reserve[t] \in Nat /\ o.change[t] \in Nat BY <1>2, <1>4, PoolTypes
    <3>2. q.reserve[t] = o.reserve[t] /\ q.change[t] = o.change[t] - Given(taken, t)
      BY <1>9, <1>10
    <3>3. QED BY <2>1, <3>1, <3>2, SMT
  <2>4. QED BY <2>1, <2>2, <2>3 DEF Flow
<1>13. q.stamp <= now BY <1>2, <1>10
<1>14. IInv' BY <1>1, <1>3, <1>6, <1>11, <1>12, <1>13, OnePoolStep DEF o
<1>15. Aged(k, pools[k], q) BY <1>10 DEF Aged, o
<1>16. PoolsAged BY <1>1, <1>6, <1>15, OnePoolAges
<1>17. QED BY <1>14, <1>16

-----------------------------------------------------------------------------
(* The calls of the owner and the signers, and the next block.             *)
\* A call of the owner or of a signer keeps the invariant when it keeps AdminTypes.
LEMMA AdminStep ==
  ASSUME IInv, UNCHANGED <<pools, held, now, burnt, donated>>, AdminTypes'
  PROVE  IInv'
<1>1. TableInv(pools)' BY DEF IInv, TableInv
<1>2. MoneyInv' BY DEF IInv, MoneyInv, Solvency, Existing
<1>3. QED BY <1>1, <1>2 DEF IInv

LEMMA OwnerSteps ==
  ASSUME IInv, NEW u \in Addresses,
         \/ \E fee \in ProtocolFees : ChangeProtocolFee(u, fee)
         \/ \E window \in NewWindows : UpdateDefaultTwapWindow(u, window)
         \/ \E v \in Addresses : \/ AddAuthorizedSigner(u, v) \/ RemoveAuthorizedSigner(u, v)
                                 \/ ChangeOwner(u, v)
         \/ InitializeReservedPools(u) \/ Pause(u) \/ Unpause(u)
  PROVE  IInv'
<1>1. AdminTypes BY DEF IInv
<1>2. ASSUME NEW fee \in ProtocolFees, ChangeProtocolFee(u, fee) PROVE IInv'
  BY <1>1, <1>2, AdminStep DEF ChangeProtocolFee, Admin, AdminTypes, Existing
<1>3. ASSUME NEW window \in NewWindows, UpdateDefaultTwapWindow(u, window) PROVE IInv'
  <2>1. window \in Int /\ window > 0 BY <1>3, DozerAssumption DEF UpdateDefaultTwapWindow
  <2>2. window \in Nat \ {0} BY <2>1, SMT
  <2>3. QED
    BY <1>1, <1>3, <2>2, AdminStep DEF UpdateDefaultTwapWindow, Admin, AdminTypes, Existing
<1>4. ASSUME NEW v \in Addresses, AddAuthorizedSigner(u, v) PROVE IInv'
  BY <1>1, <1>4, AdminStep DEF AddAuthorizedSigner, Admin, AdminTypes, Existing
<1>5. ASSUME NEW v \in Addresses, RemoveAuthorizedSigner(u, v) PROVE IInv'
  BY <1>1, <1>5, AdminStep DEF RemoveAuthorizedSigner, Admin, AdminTypes, Existing
<1>6. ASSUME NEW v \in Addresses, ChangeOwner(u, v) PROVE IInv'
  BY <1>1, <1>6, AdminStep DEF ChangeOwner, Admin, AdminTypes, Existing
<1>7. CASE InitializeReservedPools(u)
  BY <1>1, <1>7, AdminStep DEF InitializeReservedPools, Admin, AdminTypes, Existing, None
<1>8. CASE Pause(u) \/ Unpause(u)
  BY <1>1, <1>8, AdminStep DEF Pause, Unpause, Admin, AdminTypes, Existing
<1>9. QED BY <1>2, <1>3, <1>4, <1>5, <1>6, <1>7, <1>8

LEMMA ListingSteps ==
  ASSUME IInv, NEW u \in Addresses,
         \/ \E t \in Tokens : ReservePoolCreation(u, t) \/ ReleasePoolReservation(u, t)
         \/ \E k \in Keys : SignPool(u, k) \/ UnsignPool(u, k)
  PROVE  IInv'
<1>1. AdminTypes BY DEF IInv
<1>2. ASSUME NEW t \in Tokens, ReservePoolCreation(u, t) PROVE IInv'
  BY <1>1, <1>2, AdminStep DEF ReservePoolCreation, Admin, AdminTypes, Existing
<1>3. ASSUME NEW t \in Tokens, ReleasePoolReservation(u, t) PROVE IInv'
  BY <1>1, <1>3, AdminStep DEF ReleasePoolReservation, Admin, AdminTypes, Existing, Restrict
<1>4. ASSUME NEW k \in Keys, SignPool(u, k) PROVE IInv'
  BY <1>1, <1>4, AdminStep DEF SignPool, Admin, AdminTypes, Existing
<1>5. ASSUME NEW k \in Keys, UnsignPool(u, k) PROVE IInv'
  BY <1>1, <1>5, AdminStep DEF UnsignPool, Admin, AdminTypes, Existing, Restrict
<1>6. QED BY <1>2, <1>3, <1>4, <1>5

LEMMA ReplenishFundsStep ==
  ASSUME IInv, NEW u \in Addresses, NEW t \in Tokens, NEW amount \in Slacks,
         ReplenishFunds(u, t, amount)
  PROVE  IInv'
<1>1. amount \in Nat BY DozerAssumption
<1>2. /\ donated' = [donated EXCEPT ![t] = @ + amount] /\ Moved(Of(t, amount), None)
      /\ UNCHANGED <<pools, admin, now, burnt>>
  BY DEF ReplenishFunds
<1>3. TableInv(pools)' BY <1>2 DEF IInv, TableInv
<1>4. AdminTypes' BY <1>2 DEF IInv, AdminTypes, Existing
<1>5. held \in [Tokens -> Int] /\ donated \in [Tokens -> Nat]
      /\ \A x \in Tokens : held[x] = donated[x] + Total(pools, x)
  BY DEF IInv, MoneyInv, Solvency, Total, Existing
<1>6. /\ held' = [x \in Tokens |-> held[x] + Given(Of(t, amount), x) - Given(None, x)]
      /\ \A x : Given(None, x) = 0
  BY <1>2, GivenNone DEF Moved, Given
<1>7. \A x : Given(Of(t, amount), x) = IF x = t THEN amount ELSE 0 BY <1>1, GivenOf
<1>8. ASSUME NEW x \in Tokens
      PROVE  /\ held'[x] \in Int /\ donated'[x] \in Nat
             /\ held'[x] = donated'[x] + Total(pools, x)
  <2>1. held[x] \in Int /\ donated[x] \in Nat /\ held[x] = donated[x] + Total(pools, x)
    BY <1>5
  <2>2. Total(pools, x) \in Nat BY TotalNat DEF IInv
  <2>3. held'[x] = held[x] + (IF x = t THEN amount ELSE 0) - 0 BY <1>6, <1>7
  <2>4. donated'[x] = donated[x] + (IF x = t THEN amount ELSE 0)
    <3>1. CASE x = t BY <1>2, <1>5, <3>1
    <3>2. CASE x # t BY <1>2, <1>5, <2>1, <3>2, SMT
    <3>3. QED BY <3>1, <3>2
  <2>5. QED BY <1>1, <2>1, <2>2, <2>3, <2>4, SMT
<1>9. held' \in [Tokens -> Int] BY <1>6, <1>8
<1>10. donated' \in [Tokens -> Nat] BY <1>2, <1>5, <1>8
<1>11. Solvency'
  <2>1. \A x \in Tokens : held'[x] = donated'[x] + Total(pools', x) BY <1>2, <1>8
  <2>2. QED BY <2>1 DEF Solvency, Total, Existing
<1>12. MoneyInv' BY <1>9, <1>10, <1>11 DEF MoneyInv
<1>13. QED BY <1>2, <1>3, <1>4, <1>12 DEF IInv

LEMMA TickStep ==
  ASSUME IInv, Tick
  PROVE  IInv'
<1>1. PICK s \in Steps : now' = now + s BY DEF Tick
<1>2. UNCHANGED <<pools, admin, held, burnt, donated>> BY DEF Tick
<1>3. s \in Nat /\ now \in Nat \ {0} BY DozerAssumption DEF IInv
<1>4. now' \in Nat \ {0} /\ now <= now' BY <1>1, <1>3, SMT
<1>5. TableInv(pools)'
  <2>1. ASSUME NEW k \in DOMAIN pools PROVE pools[k].stamp <= now'
    <3>1. pools[k].stamp \in Nat /\ pools[k].stamp <= now
      BY PoolTypes DEF IInv, TableInv
    <3>2. QED BY <1>3, <1>4, <3>1, SMT
  <2>2. QED BY <1>2, <2>1 DEF IInv, TableInv, PoolInv, Books
<1>6. MoneyInv' BY <1>2 DEF IInv, MoneyInv, Solvency, Existing
<1>7. AdminTypes' BY <1>2 DEF IInv, AdminTypes, Existing
<1>8. QED BY <1>4, <1>5, <1>6, <1>7 DEF IInv

LEMMA UpdatePoolTwapWindowStep ==
  ASSUME IInv, NEW u \in Addresses, NEW k \in Keys, NEW window \in NewWindows,
         UpdatePoolTwapWindow(u, k, window)
  PROVE  IInv'
<1> DEFINE o == pools[k]
           sums == [t \in TokensOf(k) |-> Price(k, o, t) * window]
           q == [o EXCEPT !.windowSum = sums, !.stamp = now, !.window = window]
<1>1. k \in Existing /\ window > 0 /\ UNCHANGED <<admin, held, now, burnt, donated>>
  BY DEF UpdatePoolTwapWindow
<1>2. window \in Nat \ {0} /\ now \in Nat \ {0}
  <2>1. window \in Int BY DozerAssumption
  <2>2. QED BY <1>1, <2>1, SMT DEF IInv
<1>3. burnt[k] \in Nat \ {0} /\ PoolInv(k, o, burnt[k])
  BY <1>1 DEF IInv, TableInv, Existing
<1>4. pools' = [pools EXCEPT ![k] = q]
  <2>1. o \in PoolRecords(k) BY <1>3 DEF PoolInv
  <2>2. pools' = [pools EXCEPT ![k].windowSum = sums, ![k].stamp = now, ![k].window = window]
    BY DEF UpdatePoolTwapWindow
  <2> HIDE DEF sums
  <2>3. QED BY <1>1, <2>1, <2>2 DEF PoolRecords, Existing
<1> HIDE DEF o
<1>5. sums \in [TokensOf(k) -> Nat]
  <2> SUFFICES ASSUME NEW t \in TokensOf(k) PROVE Price(k, o, t) * window \in Nat
    OBVIOUS
  <2>1. o.reserve \in [TokensOf(k) -> Nat \ {0}] BY <1>3, PoolTypes
  <2>2. o.reserve[t] \in Nat \ {0} /\ o.reserve[Other(k, t)] \in Nat BY <2>1, TokensOfKey
  <2>3. Price(k, o, t) \in Nat BY <2>2, SpotPriceNat DEF Price
  <2>4. QED BY <1>2, <2>3, Products
<1> HIDE DEF sums
<1>6. o \in PoolRecords(k) /\ Books(k, o, burnt[k]) BY <1>3 DEF PoolInv
<1>7. /\ q \in PoolRecords(k) /\ q.stamp = now /\ q.reserve = o.reserve /\ q.change = o.change
      /\ q.liquidity = o.liquidity /\ q.userLiquidity = o.userLiquidity
      /\ q.userChange = o.userChange
  BY <1>2, <1>5, <1>6 DEF PoolRecords
<1> HIDE DEF q
<1>8. Books(k, q, burnt[k]) BY <1>6, <1>7 DEF Books
<1>9. PoolInv(k, q, burnt[k]) /\ q.stamp <= now BY <1>2, <1>7, <1>8, SMT DEF PoolInv
<1>10. \A t : Given(None, t) = 0 BY GivenNone
<1>11. Flow(k, o, q, None, None)
  <2>1. \A t \in TokensOf(k) : o.reserve[t] \in Nat /\ o.change[t] \in Nat
    BY <1>3, PoolTypes
  <2>2. \A x, y \in Nat : x + y = x + y + 0 - 0 BY SMT
  <2>3. QED BY <1>7, <1>10, <2>1, <2>2 DEF Flow
<1>12. Moved(None, None)
  <2>1. held \in [Tokens -> Int] /\ held' = held BY <1>1 DEF IInv, MoneyInv
  <2>2. \A t \in Tokens : held[t] = held[t] + 0 - 0 BY <2>1, SMT
  <2>3. held' = [t \in Tokens |-> held[t] + 0 - 0] BY <2>1, <2>2
  <2>4. QED BY <2>3 DEF Moved, None
<1>13. QED BY <1>1, <1>4, <1>9, <1>11, <1>12, OnePoolStep DEF o

-----------------------------------------------------------------------------
(* A new pool.                                                             *)
\* The sum of a table with one entry is that entry.
LEMMA SumOfOne ==
  ASSUME NEW u \in Addresses, NEW n \in Nat
  PROVE  SumFunctionOnSet([x \in Addresses |-> IF x = u THEN n ELSE 0], Addresses) = n
<1> DEFINE f == [x \in Addresses |-> 0]
           g == [x \in Addresses |-> IF x = u THEN n ELSE 0]
<1>1. IsFiniteSet(Addresses) BY DozerAssumption
<1>2. f \in [Addresses -> Int] /\ g \in [Addresses -> Int] BY SMT
<1>3. \A x \in Addresses : f[x] = 0 OBVIOUS
<1>4. g[u] = n /\ \A x \in Addresses \ {u} : g[x] = f[x] OBVIOUS
<1> HIDE DEF f, g
<1>5. SumFunctionOnSet(f, Addresses) = 0 BY <1>1, <1>2, <1>3, SumZero
<1>6. SumFunctionOnSet(g, Addresses) = SumFunctionOnSet(f, Addresses) - f[u] + g[u]
  BY <1>1, <1>2, <1>4, SumUpdate
<1>7. SumFunctionOnSet(g, Addresses) = n BY <1>3, <1>4, <1>5, <1>6, SMT
<1>8. QED BY <1>7 DEF g

LEMMA SumOfNone == SumFunctionOnSet([x \in Addresses |-> 0], Addresses) = 0
<1> DEFINE f == [x \in Addresses |-> 0]
<1>1. IsFiniteSet(Addresses) BY DozerAssumption
<1>2. f \in [Addresses -> Int] /\ \A x \in Addresses : f[x] = 0 BY SMT
<1> HIDE DEF f
<1>3. SumFunctionOnSet(f, Addresses) = 0 BY <1>1, <1>2, SumZero
<1>4. QED BY <1>3 DEF f

LEMMA NewPoolBooks ==
  ASSUME NEW k \in Keys, NEW u \in Addresses, NEW a \in Nat \ {0}, NEW b \in Nat \ {0},
         NEW window \in Nat \ {0}, NEW time \in Nat \ {0}, Isqrt(a * b) > 0
  PROVE  LET root == Isqrt(a * b)
             pool == NewPool(k, u, a, b, window, time)
         IN  /\ root * MinimumLiquidity \in Nat \ {0}
             /\ PoolInv(k, pool, root * MinimumLiquidity)
             /\ pool.stamp = time
             /\ \A t : InPool(k, pool, t) = Given(Pair(k, a, b), t)
<1> DEFINE root == Isqrt(a * b)
           pool == NewPool(k, u, a, b, window, time)
           mine == root * Precision
           burn == root * MinimumLiquidity
           shares == [x \in Addresses |-> IF x = u THEN mine ELSE 0]
           changes == [x \in Addresses |-> Pair(k, 0, 0)]
           sums == Pair(k, SpotPrice(a, b) * window, SpotPrice(b, a) * window)
<1>1. pool = [reserve |-> Pair(k, a, b), change |-> Pair(k, 0, 0), liquidity |-> mine + burn,
              userLiquidity |-> shares, userChange |-> changes, windowSum |-> sums,
              stamp |-> time, window |-> window]
  BY DEF NewPool
<1>2. root \in Nat \ {0}
  <2>1. a * b \in Nat BY Products
  <2>2. root \in Nat BY <2>1, IsqrtMonotone, SMT
  <2> HIDE DEF root
  <2>3. root > 0 BY DEF root
  <2>4. QED BY <2>2, <2>3, SMT
<1> HIDE DEF root, pool
<1>3. mine \in Nat \ {0} /\ burn \in Nat \ {0}
  <2>1. Precision \in Nat \ {0} /\ MinimumLiquidity \in Nat \ {0} BY DozerMathAssumption
  <2>2. \A x, y \in Nat \ {0} : x * y \in Nat \ {0} BY SMT
  <2>3. QED BY <1>2, <2>1, <2>2
<1> HIDE DEF mine, burn
<1>4. k[1] \in TokensOf(k) /\ k[2] \in TokensOf(k) /\ k[1] # k[2] BY TokensOfKey
<1>5. \A t : t \in TokensOf(k) <=> t = k[1] \/ t = k[2] BY DEF TokensOf
<1>6. /\ Pair(k, a, b) \in [TokensOf(k) -> Nat \ {0}] /\ Pair(k, 0, 0) \in [TokensOf(k) -> Nat]
      /\ \A t \in TokensOf(k) : Pair(k, 0, 0)[t] = 0
  BY <1>4 DEF Pair
<1>7. sums \in [TokensOf(k) -> Nat]
  <2>1. SpotPrice(a, b) \in Nat /\ SpotPrice(b, a) \in Nat BY SpotPriceNat
  <2>2. SpotPrice(a, b) * window \in Nat /\ SpotPrice(b, a) * window \in Nat
    BY <2>1, Products
  <2>3. QED BY <2>2 DEF Pair
<1>8. shares \in [Addresses -> Nat] /\ SumFunctionOnSet(shares, Addresses) = mine
  BY <1>3, SumOfOne
<1>9. changes \in [Addresses -> [TokensOf(k) -> Nat]]
      /\ \A t \in TokensOf(k) : [x \in Addresses |-> changes[x][t]] = [x \in Addresses |-> 0]
  BY <1>6
<1>10. mine + burn \in Nat \ {0} /\ mine + burn = burn + mine BY <1>3, SMT
<1> HIDE DEF shares, changes, sums
<1>11. pool \in PoolRecords(k)
  BY <1>1, <1>6, <1>7, <1>8, <1>9, <1>10 DEF PoolRecords
<1>12. Books(k, pool, burn)
  <2>1. pool.liquidity = burn + SumFunctionOnSet(pool.userLiquidity, Addresses)
    BY <1>1, <1>8, <1>10
  <2>2. ASSUME NEW t \in TokensOf(k)
        PROVE  pool.change[t]
                 = SumFunctionOnSet([x \in Addresses |-> pool.userChange[x][t]], Addresses)
    BY <1>1, <1>6, <1>9, SumOfNone
  <2>3. QED BY <2>1, <2>2 DEF Books
<1>13. ASSUME NEW t PROVE InPool(k, pool, t) = Given(Pair(k, a, b), t)
  <2>1. CASE t \in TokensOf(k)
    <3> DEFINE n == Pair(k, a, b)[t]
    <3>1. pool.reserve[t] = n /\ pool.change[t] = 0 BY <1>1, <1>6, <2>1
    <3>2. n \in Nat BY <1>6, <2>1
    <3>3. Given(Pair(k, a, b), t) = n BY <2>1 DEF Given, Pair
    <3> HIDE DEF n
    <3>4. n + 0 = n BY <3>2, SMT
    <3>5. QED BY <2>1, <3>1, <3>3, <3>4 DEF InPool
  <2>2. CASE t \notin TokensOf(k) BY <2>2 DEF InPool, Given, Pair
  <2>3. QED BY <2>1, <2>2
<1>14. pool.stamp = time BY <1>1
<1>15. QED BY <1>3, <1>11, <1>12, <1>13, <1>14 DEF PoolInv, burn, pool, root

LEMMA CreatePoolStep ==
  ASSUME IInv, NEW u \in Addresses, NEW k \in Keys, NEW d \in FirstDeposits,
         CreatePool(u, k, d[1], d[2])
  PROVE  IInv'
<1> DEFINE a == d[1]
           b == d[2]
           pool == NewPool(k, u, a, b, admin.defaultWindow, now)
           burn == Isqrt(a * b) * MinimumLiquidity
           S == Existing
           deposit == Pair(k, a, b)
<1>1. /\ k \notin S /\ Fee(k) <= MaxFee /\ Isqrt(a * b) > 0
      /\ pools' = [x \in S \cup {k} |-> IF x = k THEN pool ELSE pools[x]]
      /\ burnt' = [x \in S \cup {k} |-> IF x = k THEN burn ELSE burnt[x]]
      /\ Moved(deposit, None) /\ UNCHANGED <<admin, now, donated>>
  BY DEF CreatePool
<1>2. a \in Nat \ {0} /\ b \in Nat \ {0} BY DozerAssumption
<1>3. admin.defaultWindow \in Nat \ {0} /\ now \in Nat \ {0} BY DEF IInv, AdminTypes
<1>4. /\ burn \in Nat \ {0} /\ PoolInv(k, pool, burn) /\ pool.stamp = now
      /\ \A t : InPool(k, pool, t) = Given(deposit, t)
  <2> DEFINE w == admin.defaultWindow
             root == Isqrt(a * b)
  <2>1. w \in Nat \ {0} /\ root > 0 BY <1>1, <1>3
  <2> HIDE DEF a, b, w, S, deposit
  <2>2. /\ root * MinimumLiquidity \in Nat \ {0}
        /\ PoolInv(k, NewPool(k, u, a, b, w, now), root * MinimumLiquidity)
        /\ NewPool(k, u, a, b, w, now).stamp = now
        /\ \A t : InPool(k, NewPool(k, u, a, b, w, now), t) = Given(Pair(k, a, b), t)
    BY <1>2, <1>3, <2>1, NewPoolBooks
  <2>3. QED BY <2>2 DEF w, deposit
<1> HIDE DEF pool, burn, S
<1>5. IsFiniteSet(S)
      /\ \A x \in S : x \in Keys /\ Fee(x) <= MaxFee /\ burnt[x] \in Nat \ {0}
                      /\ PoolInv(x, pools[x], burnt[x]) /\ pools[x].stamp <= now
  BY DEF IInv, TableInv, S, Existing
<1>6. DOMAIN pools' = S \cup {k} /\ pools' = [x \in S \cup {k} |-> pools'[x]]
      /\ pools'[k] = pool /\ \A x \in S : pools'[x] = pools[x]
  BY <1>1
<1>7. burnt'[k] = burn /\ \A x \in S : burnt'[x] = burnt[x] BY <1>1
<1>8. TableInv(pools)'
  <2>1. IsFiniteSet(S \cup {k}) BY <1>5, FS_AddElement
  <2>2. ASSUME NEW x \in S \cup {k}
        PROVE  /\ x \in Keys /\ Fee(x) <= MaxFee /\ burnt'[x] \in Nat \ {0}
               /\ PoolInv(x, pools'[x], burnt'[x]) /\ pools'[x].stamp <= now
    <3>1. CASE x = k BY <1>1, <1>3, <1>4, <1>6, <1>7, <3>1, SMT
    <3>2. CASE x # k BY <1>5, <1>6, <1>7, <3>2
    <3>3. QED BY <3>1, <3>2
  <2>3. QED BY <1>1, <1>6, <2>1, <2>2 DEF TableInv, PoolInv, Books
<1>9. ASSUME NEW t \in Tokens
      PROVE  /\ Given(deposit, t) \in Int /\ Given(None, t) \in Int
             /\ Total(pools', t) = Total(pools, t) + Given(deposit, t) - Given(None, t)
  <2> DEFINE f == [x \in S |-> InPool(x, pools[x], t)]
             g == [x \in S \cup {k} |-> InPool(x, pools'[x], t)]
             n == Given(deposit, t)
  <2>1. InPool(k, pool, t) \in Nat /\ n = InPool(k, pool, t) BY <1>4, InPoolNat
  <2>2. f \in [S -> Nat] BY <1>5, InPoolNat
  <2>3. \A x \in S : g[x] = f[x] BY <1>6
  <2>4. g[k] = n BY <1>6, <2>1
  <2>5. g \in [S \cup {k} -> Nat]
    <3>1. \A x \in S \cup {k} : InPool(x, pools'[x], t) \in Nat BY <1>1, <1>6, <2>1, <2>2
    <3>2. QED BY <3>1
  <2>6. Total(pools, t) = SumFunctionOnSet(f, S) /\ Total(pools', t) = SumFunctionOnSet(g, S \cup {k})
    BY <1>6 DEF Total, S, Existing
  <2> HIDE DEF f, g, n, deposit
  <2>7. f \in [S -> Int] /\ g \in [S \cup {k} -> Int] BY <2>2, <2>5
  <2>8. SumFunctionOnSet(f, S) \in Int
        /\ SumFunctionOnSet(g, S \cup {k}) = SumFunctionOnSet(f, S) + g[k]
    BY <1>1, <1>5, <2>3, <2>7, SumAdd
  <2>9. n \in Int /\ Given(None, t) = 0 BY <2>1, GivenNone, SMT
  <2>10. QED BY <2>4, <2>6, <2>8, <2>9, SMT DEF n
<1>10. MoneyInv' BY <1>1, <1>9, MoneyStep
<1>11. AdminTypes' BY <1>1, <1>6 DEF IInv, AdminTypes, S, Existing
<1>12. QED BY <1>1, <1>8, <1>10, <1>11 DEF IInv

-----------------------------------------------------------------------------
(* Hops: a hop keeps the books of every pool of a table and shifts the     *)
(* totals of its two tokens; what a path leaves over is kept as change.    *)
AfterFlow(k, ps, qs, q, d, w) ==
  /\ TableInv(qs) /\ DOMAIN qs = DOMAIN ps
  /\ qs[k] = q /\ \A x \in DOMAIN ps \ {k} : qs[x] = ps[x]
  /\ \A t : Total(qs, t) = Total(ps, t) + Given(d, t) - Given(w, t)

(* A pool of a table that gains d and loses w changes the table's totals   *)
(* by as much. *)
LEMMA TableFlow ==
  ASSUME NEW ps, TableInv(ps), NEW k \in DOMAIN ps, NEW q, NEW d, NEW w,
         PoolInv(k, q, burnt[k]), q.stamp <= now, Flow(k, ps[k], q, d, w)
  PROVE  AfterFlow(k, ps, [ps EXCEPT ![k] = q], q, d, w)
<1> DEFINE qs == [ps EXCEPT ![k] = q]
<1>1. k \in Keys /\ burnt[k] \in Nat \ {0} /\ PoolInv(k, ps[k], burnt[k]) BY DEF TableInv
<1>2. /\ TableInv(qs) /\ DOMAIN qs = DOMAIN ps
      /\ qs[k] = q /\ \A x \in DOMAIN ps \ {k} : qs[x] = ps[x]
      /\ \A t : Total(qs, t) = Total(ps, t) - InPool(k, ps[k], t) + InPool(k, q, t)
  BY TableUpdate
<1> HIDE DEF qs
<1>3. ASSUME NEW t PROVE Total(qs, t) = Total(ps, t) + Given(d, t) - Given(w, t)
  <2>1. InPool(k, ps[k], t) \in Nat /\ InPool(k, q, t) \in Nat BY <1>1, InPoolNat
  <2>2. Given(d, t) \in Int /\ Given(w, t) \in Int BY DEF Flow
  <2>3. InPool(k, q, t) = InPool(k, ps[k], t) + Given(d, t) - Given(w, t)
    <3>1. CASE t \in TokensOf(k) BY <3>1 DEF Flow, InPool
    <3>2. CASE t \notin TokensOf(k) BY <2>2, <3>2, SMT DEF Flow, InPool
    <3>3. QED BY <3>1, <3>2
  <2>4. Total(ps, t) \in Nat BY TotalNat
  <2>5. Total(qs, t) = Total(ps, t) - InPool(k, ps[k], t) + InPool(k, q, t) BY <1>2
  <2>6. QED BY <2>1, <2>2, <2>3, <2>4, <2>5, SMT
<1>4. QED BY <1>2, <1>3 DEF qs, AfterFlow

\* The totals of qs are those of ps with in units of t more and out of s less.
Shifted(ps, qs, t, in, s, out) ==
  \A x : Total(qs, x) = Total(ps, x) + (IF x = t THEN in ELSE 0) - (IF x = s THEN out ELSE 0)

AfterHop(k, ps, qs, t, in, out) ==
  /\ TableInv(qs) /\ DOMAIN qs = DOMAIN ps
  /\ \A x \in DOMAIN ps \ {k} : qs[x] = ps[x]
  /\ Shifted(ps, qs, t, in, Other(k, t), out)
  /\ Aged(k, ps[k], qs[k])
  /\ qs[k].reserve[t] = ps[k].reserve[t] + in
  /\ qs[k].reserve[Other(k, t)] = ps[k].reserve[Other(k, t)] - out

LEMMA HopTable ==
  ASSUME IInv, NEW ps, TableInv(ps), NEW k \in DOMAIN ps, NEW t \in TokensOf(k),
         NEW in \in Nat, NEW out \in Nat, out < ps[k].reserve[Other(k, t)]
  PROVE  AfterHop(k, ps, [ps EXCEPT ![k] = Exchanged(k, WithTwap(k, ps[k]), t, in, out)],
                  t, in, out)
<1> DEFINE o == ps[k]
           p == WithTwap(k, o)
           q == Exchanged(k, p, t, in, out)
           s == Other(k, t)
           d == Of(t, in)
           w == Of(s, out)
           b == burnt[k]
<1>1. k \in Keys /\ Fee(k) <= MaxFee /\ b \in Nat \ {0} /\ PoolInv(k, o, b) /\ o.stamp <= now
  BY DEF TableInv
<1>2. now \in Nat \ {0} /\ admin.owner \in Addresses /\ admin.protocolFee \in 0 .. 50
  BY DEF IInv, AdminTypes
<1>3. s \in TokensOf(k) /\ s # t /\ TokensOf(k) = {t, s} BY <1>1, TokensOfKey
<1>4. out < o.reserve[s] OBVIOUS
<1> HIDE DEF o, b, p, q
<1>5. AfterTwap(k, o, p, b) BY <1>1, <1>2, TwapPool DEF p
<1>6. PoolInv(k, p, b) /\ p.stamp = now /\ p.reserve = o.reserve /\ p.change = o.change
  BY <1>5 DEF AfterTwap
<1>7. AfterExchange(k, p, q, b, t, in, out)
  <2>1. PoolInv(k, p, b) /\ out < p.reserve[Other(k, t)] BY <1>4, <1>6
  <2> HIDE DEF s, d, w
  <2>2. QED BY <1>1, <1>2, <2>1, ExchangedPool DEF q
<1>8. /\ PoolInv(k, q, b) /\ q.stamp = now /\ q.change = o.change
      /\ q.reserve[t] = o.reserve[t] + in /\ q.reserve[s] = o.reserve[s] - out
  BY <1>6, <1>7 DEF AfterExchange, SameWindow
<1>9. o.reserve[t] \in Nat /\ o.reserve[s] \in Nat /\ o.change[t] \in Nat /\ o.change[s] \in Nat
  BY <1>1, <1>3, PoolTypes
<1>10. in \in Int /\ out \in Int BY SMT
<1>11. /\ \A x : Given(d, x) = IF x = t THEN in ELSE 0
       /\ \A x : Given(w, x) = IF x = s THEN out ELSE 0
  BY <1>10, GivenOf
<1> HIDE DEF d, w, s
<1>12. Flow(k, o, q, d, w)
  <2> DEFINE a == o.reserve[t]
             c == o.reserve[s]
             g == o.change[t]
             h == o.change[s]
  <2>1. a \in Nat /\ c \in Nat /\ g \in Nat /\ h \in Nat BY <1>9
  <2>2. q.reserve[t] = a + in /\ q.reserve[s] = c - out /\ q.change[t] = g /\ q.change[s] = h
    BY <1>8
  <2> HIDE DEF a, c, g, h
  <2>3. (a + in) + g = a + g + in - 0 /\ (c - out) + h = c + h + 0 - out
    BY <1>10, <2>1, SMT
  <2>4. /\ Given(d, t) = in /\ Given(w, t) = 0 /\ Given(d, s) = 0 /\ Given(w, s) = out
    BY <1>3, <1>11
  <2>5. /\ q.reserve[t] + q.change[t] = o.reserve[t] + o.change[t] + Given(d, t) - Given(w, t)
        /\ q.reserve[s] + q.change[s] = o.reserve[s] + o.change[s] + Given(d, s) - Given(w, s)
    BY <2>2, <2>3, <2>4 DEF a, c, g, h
  <2>6. \A x : Given(d, x) \in Int /\ Given(w, x) \in Int BY <1>10, <1>11
  <2>7. \A x : x \notin TokensOf(k) => Given(d, x) = 0 /\ Given(w, x) = 0 BY <1>3, <1>11
  <2>8. QED BY <1>3, <2>5, <2>6, <2>7 DEF Flow
<1>13. q.stamp <= now BY <1>2, <1>8
<1> DEFINE qs == [ps EXCEPT ![k] = q]
<1>14. /\ TableInv(qs) /\ DOMAIN qs = DOMAIN ps /\ \A x \in DOMAIN ps \ {k} : qs[x] = ps[x]
       /\ qs[k] = q
       /\ \A x : Total(qs, x) = Total(ps, x) + Given(d, x) - Given(w, x)
  <2>1. PoolInv(k, q, burnt[k]) /\ Flow(k, ps[k], q, d, w) BY <1>8, <1>12 DEF o, b
  <2>2. AfterFlow(k, ps, [ps EXCEPT ![k] = q], q, d, w) BY <1>13, <2>1, TableFlow
  <2>3. QED BY <2>2 DEF AfterFlow
<1> HIDE DEF qs
<1>15. Shifted(ps, qs, t, in, s, out) BY <1>11, <1>14 DEF Shifted
<1>16. qs[k].reserve[t] = ps[k].reserve[t] + in /\ qs[k].reserve[s] = ps[k].reserve[s] - out
  BY <1>8, <1>14 DEF o
<1>17. Aged(k, ps[k], qs[k])
  BY <1>5, <1>7, <1>14 DEF AfterTwap, AfterExchange, SameWindow, Aged, o
<1>18. QED BY <1>14, <1>15, <1>16, <1>17 DEF AfterHop, qs, q, p, o, s

AfterKept(ps, qs, t, amount) ==
  /\ TableInv(qs) /\ DOMAIN qs = DOMAIN ps
  /\ \A x \in DOMAIN ps : qs[x].reserve = ps[x].reserve /\ Aged(x, ps[x], qs[x])
  /\ \A x : Total(qs, x) = Total(ps, x) + (IF x = t THEN amount ELSE 0)

\* Change kept in a pool of the table.
LEMMA ChangeTable ==
  ASSUME IInv, NEW ps, TableInv(ps), NEW k \in DOMAIN ps, NEW t \in TokensOf(k),
         NEW u \in Addresses, NEW amount \in Nat
  PROVE  AfterKept(ps, [ps EXCEPT ![k] = WithChange(ps[k], u, t, amount)], t, amount)
<1> DEFINE o == ps[k]
           q == WithChange(o, u, t, amount)
           d == Of(t, amount)
           b == burnt[k]
           s == Other(k, t)
           qs == [ps EXCEPT ![k] = q]
<1>1. k \in Keys /\ b \in Nat \ {0} /\ PoolInv(k, o, b) /\ o.stamp <= now
  BY DEF TableInv
<1>2. s \in TokensOf(k) /\ s # t /\ TokensOf(k) = {t, s} BY <1>1, TokensOfKey
<1> HIDE DEF o, b, q, qs
<1>3. AfterChange(k, o, q, b, t, amount) BY <1>1, ChangePool DEF q
<1>4. /\ PoolInv(k, q, b) /\ q.stamp <= now /\ q.reserve = o.reserve
      /\ q.change[t] = o.change[t] + amount /\ q.change[s] = o.change[s]
  BY <1>1, <1>2, <1>3 DEF AfterChange, SameWindow
<1>5. o.reserve[t] \in Nat /\ o.reserve[s] \in Nat /\ o.change[t] \in Nat /\ o.change[s] \in Nat
  BY <1>1, <1>2, PoolTypes
<1>6. /\ q.reserve[t] + q.change[t] = o.reserve[t] + o.change[t] + amount - 0
      /\ q.reserve[s] + q.change[s] = o.reserve[s] + o.change[s] + 0 - 0
  BY <1>4, <1>5, SMT
<1>7. amount \in Int BY SMT
<1>8. Flow(k, o, q, d, None) BY <1>1, <1>6, <1>7, FlowOfOne
<1>9. \A x : Given(d, x) = (IF x = t THEN amount ELSE 0) /\ Given(None, x) = 0
  BY <1>7, GivenOf, GivenNone
<1> HIDE DEF d
<1>10. /\ TableInv(qs) /\ DOMAIN qs = DOMAIN ps
       /\ qs[k] = q /\ \A x \in DOMAIN ps \ {k} : qs[x] = ps[x]
       /\ \A x : Total(qs, x) = Total(ps, x) + Given(d, x) - Given(None, x)
  <2>1. PoolInv(k, q, burnt[k]) /\ Flow(k, ps[k], q, d, None) BY <1>4, <1>8 DEF o, b
  <2>2. q.stamp <= now BY <1>4
  <2>3. AfterFlow(k, ps, [ps EXCEPT ![k] = q], q, d, None) BY <2>1, <2>2, TableFlow
  <2>4. QED BY <2>3 DEF AfterFlow, qs
<1>11. ASSUME NEW x PROVE Total(qs, x) = Total(ps, x) + (IF x = t THEN amount ELSE 0)
  <2>1. Total(ps, x) \in Nat BY TotalNat
  <2>2. Total(qs, x) = Total(ps, x) + (IF x = t THEN amount ELSE 0) - 0 BY <1>9, <1>10
  <2>3. QED BY <2>1, <2>2, SMT
<1>12. \A x \in DOMAIN ps : qs[x].reserve = ps[x].reserve BY <1>4, <1>10 DEF o
<1>13. \A x \in DOMAIN ps : Aged(x, ps[x], qs[x])
  BY <1>3, <1>10 DEF AfterChange, SameWindow, Aged, o
<1>14. QED BY <1>10, <1>11, <1>12, <1>13 DEF AfterKept, qs, q, o

\* A route that ends in a table of pools that keep their books.
LEMMA RouteStep ==
  ASSUME IInv, NEW d, NEW w, TableInv(pools'), DOMAIN pools' = Existing,
         \A t : Given(d, t) \in Int /\ Given(w, t) \in Int
                /\ Total(pools', t) = Total(pools, t) + Given(d, t) - Given(w, t),
         Moved(d, w), UNCHANGED <<admin, now, burnt, donated>>
  PROVE  IInv'
<1>1. MoneyInv' BY MoneyStep
<1>2. TableInv(pools)' BY DEF TableInv
<1>3. AdminTypes' BY DEF IInv, AdminTypes, Existing
<1>4. QED BY <1>1, <1>2, <1>3 DEF IInv

-----------------------------------------------------------------------------
\* What the recursion of RouteToken gives for the paths a call accepts.
LEMMA RouteTokens ==
  ASSUME NEW path, NEW t, Len(path) \in 1 .. 3
  PROVE  LET token == RouteToken(path, t)
         IN  /\ token[1] = t
             /\ \A i \in 1 .. Len(path) : token[i + 1] = Other(path[i], token[i])
<1> DEFINE n == Len(path)
           Body(h) == [i \in 1 .. n + 1 |-> IF i = 1 THEN t ELSE Other(path[i - 1], h[i - 1])]
           second == Other(path[1], t)
           third == Other(path[2], second)
           w == [i \in 1 .. n + 1 |-> IF i = 1 THEN t ELSE IF i = 2 THEN second
                                      ELSE IF i = 3 THEN third ELSE Other(path[3], third)]
           R == RouteToken(path, t)
<1>1. w = Body(w)
  <2> SUFFICES ASSUME NEW i \in 1 .. n + 1
               PROVE  w[i] = IF i = 1 THEN t ELSE Other(path[i - 1], w[i - 1])
    OBVIOUS
  <2>1. i = 1 \/ i = 2 \/ i = 3 \/ i = 4
    <3> HIDE DEF w, Body, second, third
    <3>1. n \in 1 .. 3 OBVIOUS
    <3> HIDE DEF n
    <3>2. QED BY <3>1, SMT
  <2>2. i # 1 => i - 1 \in 1 .. n + 1 BY SMT
  <2>3. CASE i = 1 BY <2>3
  <2>4. CASE i = 2 BY <2>2, <2>4, SMT
  <2>5. CASE i = 3 BY <2>2, <2>5, SMT
  <2>6. CASE i = 4 BY <2>2, <2>6, SMT
  <2>7. QED BY <2>1, <2>3, <2>4, <2>5, <2>6
<1>2. R = Body(R)
  <2> HIDE DEF w
  <2>1. QED BY <1>1 DEF RouteToken
<1> HIDE DEF R, n
<1>3. R[1] = t
  <2>1. 1 \in 1 .. n + 1 BY SMT DEF n
  <2>2. QED BY <1>2, <2>1
<1>4. ASSUME NEW i \in 1 .. n PROVE R[i + 1] = Other(path[i], R[i])
  <2>1. i + 1 \in 1 .. n + 1 /\ i + 1 # 1 /\ (i + 1) - 1 = i BY SMT DEF n
  <2> DEFINE j == i + 1
  <2> HIDE DEF j
  <2>2. R[j] = Other(path[j - 1], R[j - 1]) BY <1>2, <2>1 DEF j
  <2>3. QED BY <2>1, <2>2 DEF j
<1>5. QED BY <1>3, <1>4 DEF R, n

-----------------------------------------------------------------------------
(* The pools behind a hop are as the call found them, so a hop is priced   *)
(* by the reserves it is applied to.                                       *)
\* A route of the paths a call accepts: its pools exist and share tokens in turn.
Routed(path, t) ==
  /\ Len(path) \in 1 .. 3
  /\ \A i \in 1 .. Len(path) :
       path[i] \in Existing /\ RouteToken(path, t)[i] \in TokensOf(path[i])

\* No pool is met twice.
Distinct(path) ==
  \A i, j \in 1 .. Len(path) : path[i] = path[j] => i = j

\* The swap of in for out is on the curve of reserves r and s.
Priced(in, out, r, s, fee) ==
  /\ Fits(in, out, r, s, fee)
  /\ ~ Fits(in, out + 1, r, s, fee) \/ ~ Fits(in - 1, out, r, s, fee)

\* From p to q pool k has been swapped in along its curve, or not at all.
OnCurve(k, p, q) ==
  \A t \in TokensOf(k) :
    LET r   == p.reserve[t]
        s   == p.reserve[Other(k, t)]
        in  == q.reserve[t] - r
        out == s - q.reserve[Other(k, t)]
    IN  in > 0 => Priced(in, out, r, s, Fee(k))

LEMMA SameReserveOnCurve ==
  ASSUME NEW k \in Keys, NEW p, NEW q, p.reserve \in [TokensOf(k) -> Nat \ {0}],
         q.reserve = p.reserve
  PROVE  OnCurve(k, p, q)
<1> SUFFICES ASSUME NEW t \in TokensOf(k) PROVE ~ (q.reserve[t] - p.reserve[t] > 0)
  BY DEF OnCurve
<1> DEFINE r == p.reserve[t]
<1>1. r \in Nat /\ q.reserve[t] = r OBVIOUS
<1> HIDE DEF r
<1>2. ~ (r - r > 0) BY <1>1, SMT
<1>3. QED BY <1>1, <1>2 DEF r

LEMMA SwapOnCurve ==
  ASSUME NEW k \in Keys, NEW p, NEW q, p.reserve \in [TokensOf(k) -> Nat \ {0}],
         NEW t \in TokensOf(k), NEW in \in Nat, NEW out \in Nat,
         q.reserve[t] = p.reserve[t] + in,
         q.reserve[Other(k, t)] = p.reserve[Other(k, t)] - out,
         in > 0 => Priced(in, out, p.reserve[t], p.reserve[Other(k, t)], Fee(k))
  PROVE  OnCurve(k, p, q)
<1> DEFINE z == Other(k, t)
           r == p.reserve[t]
           s == p.reserve[z]
<1>1. z \in TokensOf(k) /\ TokensOf(k) = {t, z} /\ Other(k, z) = t
  BY TokensOfKey DEF Other, TokensOf
<1>2. r \in Nat /\ s \in Nat BY <1>1
<1>3. q.reserve[t] = r + in /\ q.reserve[z] = s - out OBVIOUS
<1>4. in > 0 => Priced(in, out, r, s, Fee(k)) OBVIOUS
<1> HIDE DEF r, s
<1>5. (r + in) - r = in /\ s - (s - out) = out /\ ~ ((s - out) - s > 0) BY <1>2, SMT
<1>6. q.reserve[t] - r = in /\ s - q.reserve[z] = out /\ ~ (q.reserve[z] - s > 0)
  BY <1>3, <1>5
<1> HIDE DEF z
<1>7. ASSUME NEW x \in TokensOf(k), q.reserve[x] - p.reserve[x] > 0
      PROVE  Priced(q.reserve[x] - p.reserve[x],
                    p.reserve[Other(k, x)] - q.reserve[Other(k, x)],
                    p.reserve[x], p.reserve[Other(k, x)], Fee(k))
  <2>1. CASE x = t BY <1>4, <1>6, <1>7, <2>1 DEF r, s, z
  <2>2. CASE x = z BY <1>6, <1>7, <2>2 DEF s
  <2>3. QED BY <1>1, <2>1, <2>2
<1>8. QED BY <1>7 DEF OnCurve

\* What an exact-output or exact-input hop is priced by, at the reserves it meets.
LEMMA OutOfIsPriced ==
  ASSUME NEW k \in Keys, Fee(k) <= MaxFee, NEW p, NEW b \in Nat \ {0}, PoolInv(k, p, b),
         NEW t \in TokensOf(k), NEW in \in Nat
  PROVE  Priced(in, OutOf(k, p, t, in), p.reserve[t], p.reserve[Other(k, t)], Fee(k))
<1> DEFINE r == p.reserve[t]
           s == p.reserve[Other(k, t)]
<1>1. r \in Nat \ {0} /\ s \in Nat \ {0} BY PoolTypes, TokensOfKey
<1>2. Fee(k) \in 0 .. (FeeDenominator - 1) BY FeeBelow
<1>3. OutOf(k, p, t, in) = AmountOut(in, r, s, Fee(k)) BY DEF OutOf
<1> HIDE DEF r, s
<1>4. Priced(in, AmountOut(in, r, s, Fee(k)), r, s, Fee(k))
  BY <1>1, <1>2, AmountOutIsOnCurve DEF Priced
<1>5. QED BY <1>3, <1>4 DEF r, s

\* After i hops of a path: every pool is on its curve, and the pools of the hops
\* to come are as they were.
Traced(path, i, ps) ==
  /\ \A k \in Existing : OnCurve(k, pools[k], ps[k])
  /\ \A j \in 1 .. Len(path) : j > i => ps[path[j]].reserve = pools[path[j]].reserve

LEMMA TracedAtStart ==
  ASSUME IInv, NEW path, NEW ps, \A k \in Existing : ps[k].reserve = pools[k].reserve,
         \A j \in 1 .. Len(path) : path[j] \in Existing
  PROVE  Traced(path, 0, ps)
<1>1. ASSUME NEW k \in Existing PROVE OnCurve(k, pools[k], ps[k])
  <2>1. k \in Keys /\ burnt[k] \in Nat \ {0} /\ PoolInv(k, pools[k], burnt[k])
    BY DEF IInv, TableInv, Existing
  <2>2. pools[k].reserve \in [TokensOf(k) -> Nat \ {0}] BY <2>1, PoolTypes
  <2>3. QED BY <2>1, <2>2, SameReserveOnCurve
<1>2. QED BY <1>1 DEF Traced

LEMMA HopTraced ==
  ASSUME IInv, NEW path, NEW t, Routed(path, t), Distinct(path), NEW i \in 1 .. Len(path),
         NEW ps, DOMAIN ps = Existing, Traced(path, i - 1, ps), NEW qs,
         NEW s \in TokensOf(path[i]), NEW in \in Nat, NEW out \in Nat,
         AfterHop(path[i], ps, qs, s, in, out),
         in > 0 => Priced(in, out, ps[path[i]].reserve[s],
                          ps[path[i]].reserve[Other(path[i], s)], Fee(path[i]))
  PROVE  Traced(path, i, qs)
<1> DEFINE k == path[i]
<1>1. k \in Existing BY DEF Routed
<1>2. /\ \A x \in Existing \ {k} : qs[x] = ps[x]
      /\ qs[k].reserve[s] = ps[k].reserve[s] + in
      /\ qs[k].reserve[Other(k, s)] = ps[k].reserve[Other(k, s)] - out
  BY DEF AfterHop
<1>3. i > i - 1 /\ \A j \in 1 .. Len(path) : j > i => j > i - 1 /\ j # i
  <2> DEFINE n == Len(path)
  <2>1. n \in Nat BY SMT DEF Routed
  <2> HIDE DEF n
  <2>2. \A j \in 1 .. n : j > i => j > i - 1 /\ j # i BY <2>1, SMT DEF n
  <2>3. i > i - 1 BY <2>1, SMT DEF n
  <2>4. QED BY <2>2, <2>3 DEF n
<1>4. ps[k].reserve = pools[k].reserve BY <1>3 DEF Traced
<1>5. k \in Keys /\ burnt[k] \in Nat \ {0} /\ PoolInv(k, pools[k], burnt[k])
  BY <1>1 DEF IInv, TableInv, Existing
<1>6. pools[k].reserve \in [TokensOf(k) -> Nat \ {0}] BY <1>5, PoolTypes
<1>7. in > 0 => Priced(in, out, pools[k].reserve[s], pools[k].reserve[Other(k, s)], Fee(k))
  BY <1>4
<1>8. s \in TokensOf(k) OBVIOUS
<1> HIDE DEF k
<1>9. OnCurve(k, pools[k], qs[k])
  <2> DEFINE p == pools[k]
             q == qs[k]
  <2>1. /\ q.reserve[s] = p.reserve[s] + in
        /\ q.reserve[Other(k, s)] = p.reserve[Other(k, s)] - out
    BY <1>2, <1>4
  <2>2. /\ p.reserve \in [TokensOf(k) -> Nat \ {0}]
        /\ in > 0 => Priced(in, out, p.reserve[s], p.reserve[Other(k, s)], Fee(k))
    BY <1>6, <1>7
  <2> HIDE DEF p, q
  <2>3. OnCurve(k, p, q) BY <1>5, <1>8, <2>1, <2>2, SwapOnCurve
  <2>4. QED BY <2>3 DEF p, q
<1>10. \A x \in Existing : OnCurve(x, pools[x], qs[x]) BY <1>2, <1>9 DEF Traced
<1>11. ASSUME NEW j \in 1 .. Len(path), j > i
       PROVE  qs[path[j]].reserve = pools[path[j]].reserve
  <2>1. path[j] \in Existing /\ path[j] # k BY <1>3, <1>11 DEF Routed, Distinct, k
  <2>2. ps[path[j]].reserve = pools[path[j]].reserve BY <1>3, <1>11 DEF Traced
  <2>3. QED BY <1>2, <2>1, <2>2
<1>12. QED BY <1>10, <1>11 DEF Traced

-----------------------------------------------------------------------------
(* Routes with an exact input, of one to three hops.                       *)
LEMMA ShiftedTwice ==
  ASSUME NEW ps, NEW qs, NEW rs, TableInv(ps), TableInv(qs), TableInv(rs),
         NEW t, NEW s, NEW r, NEW in \in Int, NEW mid \in Int, NEW out \in Int,
         Shifted(ps, qs, t, in, s, mid), Shifted(qs, rs, s, mid, r, out)
  PROVE  Shifted(ps, rs, t, in, r, out)
<1> SUFFICES ASSUME NEW x
             PROVE  Total(rs, x) = Total(ps, x) + (IF x = t THEN in ELSE 0)
                                                - (IF x = r THEN out ELSE 0)
  BY DEF Shifted
<1>1. Total(ps, x) \in Nat /\ Total(qs, x) \in Nat /\ Total(rs, x) \in Nat BY TotalNat
<1>2. /\ Total(qs, x) = Total(ps, x) + (IF x = t THEN in ELSE 0) - (IF x = s THEN mid ELSE 0)
      /\ Total(rs, x) = Total(qs, x) + (IF x = s THEN mid ELSE 0) - (IF x = r THEN out ELSE 0)
  BY DEF Shifted
<1>3. QED BY <1>1, <1>2, SMT

\* The run of RunExactIn with all its states.
InRun(path, t, in) ==
  LET token == RouteToken(path, t)
      run[i \in 0 .. Len(path)] ==
        IF i = 0 THEN [pools |-> pools, amount |-> in, kept |-> TRUE]
        ELSE LET s == run[i - 1]
             IN  Hop(s, path[i], token[i], s.amount,
                     OutOf(path[i], s.pools[path[i]], token[i], s.amount))
  IN  run

LEMMA InRunUnrolled ==
  ASSUME NEW path, NEW t, NEW in, Len(path) \in 1 .. 3
  PROVE  LET run == InRun(path, t, in)
             token == RouteToken(path, t)
         IN  /\ RunExactIn(path, t, in) = run[Len(path)]
             /\ run[0] = [pools |-> pools, amount |-> in, kept |-> TRUE]
             /\ \A i \in 1 .. Len(path) :
                  run[i] = Hop(run[i - 1], path[i], token[i], run[i - 1].amount,
                               OutOf(path[i], run[i - 1].pools[path[i]], token[i],
                                     run[i - 1].amount))
<1> DEFINE n == Len(path)
           token == RouteToken(path, t)
           first == [pools |-> pools, amount |-> in, kept |-> TRUE]
           After(s, i) == Hop(s, path[i], token[i], s.amount,
                              OutOf(path[i], s.pools[path[i]], token[i], s.amount))
           Body(r) == [i \in 0 .. n |-> IF i = 0 THEN first ELSE After(r[i - 1], i)]
           one == After(first, 1)
           two == After(one, 2)
           w == [i \in 0 .. n |-> IF i = 0 THEN first ELSE IF i = 1 THEN one
                                  ELSE IF i = 2 THEN two ELSE After(two, 3)]
           R == InRun(path, t, in)
<1>1. w = Body(w)
  <2> HIDE DEF first, After
  <2> SUFFICES ASSUME NEW i \in 0 .. n
               PROVE  w[i] = IF i = 0 THEN first ELSE After(w[i - 1], i)
    OBVIOUS
  <2>1. i = 0 \/ i = 1 \/ i = 2 \/ i = 3
    <3> HIDE DEF w, Body, one, two
    <3>1. n \in 1 .. 3 OBVIOUS
    <3> HIDE DEF n
    <3>2. QED BY <3>1, SMT
  <2>2. i # 0 => i - 1 \in 0 .. n BY SMT
  <2>3. CASE i = 0 BY <2>3
  <2>4. CASE i = 1 BY <2>2, <2>4, SMT
  <2>5. CASE i = 2 BY <2>2, <2>5, SMT
  <2>6. CASE i = 3 BY <2>2, <2>6, SMT
  <2>7. QED BY <2>1, <2>3, <2>4, <2>5, <2>6
<1>2. R = Body(R)
  <2> HIDE DEF w
  <2>1. QED BY <1>1 DEF InRun
<1>3. RunExactIn(path, t, in) = R[n]
  BY DEF RunExactIn, InRun
<1> HIDE DEF R, n, first, After
<1>4. R[0] = first
  <2>1. 0 \in 0 .. n BY SMT DEF n
  <2>2. QED BY <1>2, <2>1
<1>5. ASSUME NEW i \in 1 .. n PROVE R[i] = After(R[i - 1], i)
  <2>1. i \in 0 .. n /\ i # 0 BY SMT DEF n
  <2>2. QED BY <1>2, <2>1
<1>6. QED BY <1>3, <1>4, <1>5 DEF R, n, first, After

\* What holds of a table of pools that in of t has entered and amount of s left.
Carried(start, ps, t, in, s, amount) ==
  /\ TableInv(ps) /\ DOMAIN ps = Existing /\ amount \in Nat
  /\ Shifted(start, ps, t, in, s, amount)
  /\ \A x \in Existing : Aged(x, start[x], ps[x])

LEMMA RunExactInTable ==
  ASSUME IInv, NEW path, NEW t, NEW in \in Nat, Routed(path, t), Distinct(path)
  PROVE  LET run == RunExactIn(path, t, in)
         IN  /\ Carried(pools, run.pools, t, in, RouteToken(path, t)[Len(path) + 1], run.amount)
             /\ Traced(path, Len(path), run.pools)
<1> DEFINE n == Len(path)
           token == RouteToken(path, t)
           R == InRun(path, t, in)
           Good(i) == /\ Carried(pools, R[i].pools, t, in, token[i + 1], R[i].amount)
                      /\ Traced(path, i, R[i].pools)
<1>1. n \in 1 .. 3 /\ \A i \in 1 .. n : path[i] \in Existing /\ token[i] \in TokensOf(path[i])
  BY DEF Routed
<1>2. token[1] = t /\ \A i \in 1 .. n : token[i + 1] = Other(path[i], token[i])
  BY <1>1, RouteTokens
<1>3. /\ RunExactIn(path, t, in) = R[n]
      /\ R[0] = [pools |-> pools, amount |-> in, kept |-> TRUE]
      /\ \A i \in 1 .. n :
           R[i] = Hop(R[i - 1], path[i], token[i], R[i - 1].amount,
                      OutOf(path[i], R[i - 1].pools[path[i]], token[i], R[i - 1].amount))
  BY <1>1, InRunUnrolled
<1> HIDE DEF n, token, R
<1>4. Good(0)
  <2>1. TableInv(pools) /\ DOMAIN pools = Existing BY DEF IInv, Existing
  <2>2. R[0].pools = pools /\ R[0].amount = in /\ token[0 + 1] = t BY <1>2, <1>3
  <2>3. Shifted(pools, pools, t, in, t, in)
    <3>1. \A x : Total(pools, x) \in Nat BY <2>1, TotalNat
    <3>2. \A y, z \in Int : y = y + z - z BY SMT
    <3>3. in \in Int /\ 0 \in Int BY SMT
    <3>4. QED BY <3>1, <3>2, <3>3, SMT DEF Shifted
  <2>4. Traced(path, 0, pools) BY <1>1, TracedAtStart DEF n
  <2>5. QED BY <2>1, <2>2, <2>3, <2>4 DEF Carried, Aged
<1>5. ASSUME NEW i \in 1 .. n, Good(i - 1) PROVE Good(i)
  <2> DEFINE k == path[i]
             ps == R[i - 1].pools
             a == R[i - 1].amount
             s == token[i]
             out == OutOf(k, ps[k], s, a)
             qs == [ps EXCEPT ![k] = Exchanged(k, WithTwap(k, ps[k]), s, a, out)]
  <2>1. k \in Existing /\ s \in TokensOf(k) /\ token[i + 1] = Other(k, s) BY <1>1, <1>2
  <2>2. (i - 1) + 1 = i BY <1>1, SMT
  <2>3. Carried(pools, ps, t, in, s, a) BY <1>5, <2>2
  <2>4. TableInv(ps) /\ DOMAIN ps = Existing /\ a \in Nat /\ Shifted(pools, ps, t, in, s, a)
        /\ \A x \in Existing : Aged(x, pools[x], ps[x])
    BY <2>3 DEF Carried
  <2>5. R[i].pools = qs /\ R[i].amount = out
    <3>1. R[i] = Hop(R[i - 1], k, s, a, out) BY <1>3
    <3> HIDE DEF k, s, a, out
    <3>2. QED BY <3>1 DEF Hop
  <2> HIDE DEF k, ps, a, s, qs
  <2>6. k \in Keys /\ Fee(k) <= MaxFee /\ burnt[k] \in Nat \ {0} /\ PoolInv(k, ps[k], burnt[k])
    BY <2>1, <2>4 DEF TableInv
  <2>7. out \in Nat /\ out < ps[k].reserve[Other(k, s)] BY <2>1, <2>4, <2>6, OutBelow
  <2> HIDE DEF out
  <2>8. AfterHop(k, ps, qs, s, a, out) BY <2>1, <2>4, <2>7, HopTable DEF qs
  <2>9. /\ TableInv(qs) /\ DOMAIN qs = Existing /\ Shifted(ps, qs, s, a, Other(k, s), out)
    BY <2>4, <2>8 DEF AfterHop
  <2>10. Shifted(pools, qs, t, in, Other(k, s), out)
    <3>1. a \in Int /\ out \in Int /\ in \in Int BY <2>4, <2>7, SMT
    <3>2. TableInv(pools) BY DEF IInv
    <3>3. QED BY <2>4, <2>9, <3>1, <3>2, ShiftedTwice
  <2>14. \A x \in Existing : Aged(x, pools[x], qs[x])
    <3>1. Aged(k, ps[k], qs[k]) /\ \A x \in Existing \ {k} : qs[x] = ps[x]
      BY <2>4, <2>8 DEF AfterHop
    <3>2. Aged(k, pools[k], qs[k]) BY <2>1, <2>4, <3>1, AgedOnce
    <3>3. QED BY <2>4, <3>1, <3>2
  <2>11. Carried(pools, qs, t, in, Other(k, s), out) BY <2>7, <2>9, <2>10, <2>14 DEF Carried
  <2>12. Traced(path, i, qs)
    <3>1. Priced(a, out, ps[k].reserve[s], ps[k].reserve[Other(k, s)], Fee(k))
      BY <2>1, <2>4, <2>6, OutOfIsPriced DEF out
    <3>2. Traced(path, i - 1, ps) /\ i \in 1 .. Len(path) BY <1>5 DEF ps, n
    <3>3. s \in TokensOf(path[i]) /\ AfterHop(path[i], ps, qs, s, a, out)
          /\ Priced(a, out, ps[path[i]].reserve[s], ps[path[i]].reserve[Other(path[i], s)],
                    Fee(path[i]))
      BY <2>1, <2>8, <3>1 DEF k
    <3>4. QED BY <2>4, <2>7, <3>2, <3>3, HopTraced
  <2>13. QED BY <2>1, <2>5, <2>11, <2>12
<1> HIDE DEF Good
<1>6. Good(n)
  <2>1. 1 \in 1 .. n /\ 1 - 1 = 0 /\ 2 - 1 = 1 /\ 3 - 1 = 2 BY <1>1, SMT
  <2>2. Good(1) BY <1>4, <1>5, <2>1
  <2>3. CASE n = 1 BY <2>2, <2>3
  <2>4. CASE n = 2
    <3>1. 2 \in 1 .. n BY <2>4, SMT
    <3>2. QED BY <1>5, <2>1, <2>2, <2>4, <3>1
  <2>5. CASE n = 3
    <3>1. 2 \in 1 .. n /\ 3 \in 1 .. n BY <2>5, SMT
    <3>2. Good(2) BY <1>5, <2>1, <2>2, <3>1
    <3>3. QED BY <1>5, <2>1, <2>5, <3>1, <3>2
  <2>6. QED BY <1>1, <2>3, <2>4, <2>5, SMT
<1>7. QED BY <1>3, <1>6 DEF Good, n, token

LEMMA SwapExactInStep ==
  ASSUME IInv, NEW u \in Addresses, NEW path, NEW t \in Tokens, NEW in \in Amounts,
         NEW slack \in Slacks, Routed(path, t), Distinct(path),
         SwapExactIn(u, path, t, in, slack),
         UNCHANGED <<admin, now, burnt, donated>>
  PROVE  IInv' /\ PoolsAged /\ \A k \in Existing : OnCurve(k, pools[k], pools'[k])
<1> DEFINE run == RunExactIn(path, t, in)
           n == Len(path)
           last == path[n]
           token == RouteToken(path, t)
           out == token[n + 1]
           ps == run.pools
           qs == [ps EXCEPT ![last] = WithChange(ps[last], u, out, slack)]
           d == Of(t, in)
           paid == run.amount - slack
           w == Of(out, paid)
<1>1. out # t /\ pools' = qs /\ Moved(d, w)
  BY DEF SwapExactIn
<1>2. in \in Nat /\ slack \in Nat BY DozerAssumption
<1>3. Carried(pools, ps, t, in, out, run.amount) /\ Traced(path, n, ps)
  BY <1>2, RunExactInTable
<1>4. TableInv(ps) /\ DOMAIN ps = Existing /\ run.amount \in Nat
      /\ Shifted(pools, ps, t, in, out, run.amount)
      /\ \A x \in Existing : Aged(x, pools[x], ps[x])
  BY <1>3 DEF Carried
<1>5. last \in Existing /\ token[n] \in TokensOf(last) /\ out = Other(last, token[n])
  <2>1. n \in 1 .. 3 /\ \A i \in 1 .. n : path[i] \in Existing /\ token[i] \in TokensOf(path[i])
    BY DEF Routed
  <2>2. n \in 1 .. n
    <3> HIDE DEF n
    <3>1. QED BY <2>1, SMT
  <2>3. \A i \in 1 .. n : token[i + 1] = Other(path[i], token[i]) BY <2>1, RouteTokens
  <2> HIDE DEF n, token
  <2>4. QED BY <2>1, <2>2, <2>3
<1> HIDE DEF run, last, token, ps, out
<1>6. out \in TokensOf(last)
  <2>1. last \in Keys BY <1>5 DEF IInv, TableInv, Existing
  <2>2. QED BY <1>5, <2>1, TokensOfKey
<1>7. /\ TableInv(qs) /\ DOMAIN qs = DOMAIN ps
      /\ \A x : Total(qs, x) = Total(ps, x) + (IF x = out THEN slack ELSE 0)
      /\ \A x \in DOMAIN ps : qs[x].reserve = ps[x].reserve /\ Aged(x, ps[x], qs[x])
  <2>1. AfterKept(ps, qs, out, slack) BY <1>2, <1>4, <1>5, <1>6, ChangeTable
  <2>2. QED BY <2>1 DEF AfterKept
<1>8. paid \in Int /\ in \in Int BY <1>2, <1>4, SMT
<1>9. /\ \A x : Given(d, x) = IF x = t THEN in ELSE 0
      /\ \A x : Given(w, x) = IF x = out THEN paid ELSE 0
  <2> HIDE DEF paid
  <2>1. QED BY <1>8, GivenOf
<1> HIDE DEF qs, d, w
<1>10. ASSUME NEW x
       PROVE  /\ Given(d, x) \in Int /\ Given(w, x) \in Int
              /\ Total(qs, x) = Total(pools, x) + Given(d, x) - Given(w, x)
  <2>1. Total(pools, x) \in Nat BY TotalNat DEF IInv
  <2>2. Total(ps, x) = Total(pools, x) + (IF x = t THEN in ELSE 0)
                                       - (IF x = out THEN run.amount ELSE 0)
    BY <1>4 DEF Shifted
  <2>3. Total(qs, x) = Total(ps, x) + (IF x = out THEN slack ELSE 0) BY <1>7
  <2>4. Given(d, x) = (IF x = t THEN in ELSE 0)
        /\ Given(w, x) = (IF x = out THEN run.amount - slack ELSE 0)
    BY <1>9
  <2> DEFINE m == run.amount
  <2>5. m \in Nat BY <1>4
  <2> HIDE DEF m, paid
  <2>6. QED BY <1>2, <2>1, <2>2, <2>3, <2>4, <2>5, SMT DEF m
<1>11. TableInv(pools') /\ DOMAIN pools' = Existing BY <1>1, <1>4, <1>7
<1>12. IInv' BY <1>1, <1>10, <1>11, RouteStep
<1>13. ASSUME NEW k \in Existing PROVE OnCurve(k, pools[k], pools'[k])
  <2>1. OnCurve(k, pools[k], ps[k]) BY <1>3 DEF Traced
  <2>2. pools'[k].reserve = ps[k].reserve BY <1>1, <1>4, <1>7
  <2>3. QED BY <2>1, <2>2 DEF OnCurve
<1>14. PoolsAged BY <1>1, <1>4, <1>7, AgedOnce DEF PoolsAged
<1>15. QED BY <1>12, <1>13, <1>14

-----------------------------------------------------------------------------
(* Routes with an exact output, of one to three hops.                      *)
\* Before a hop of an exact-output route: what the hop needs to give out need.
InputOf(path, t, i, need) ==
  LET r == pools[path[i]].reserve
      token == RouteToken(path, t)
  IN  IF need \in 1 .. (r[token[i + 1]] - 1)
      THEN AmountIn(need, r[token[i]], r[token[i + 1]], Fee(path[i]))
      ELSE 0

LEMMA NeededUnrolled ==
  ASSUME NEW path, NEW t, NEW out, Len(path) \in 1 .. 3
  PROVE  LET need == Needed(path, t, out)
         IN  /\ need[Len(path) + 1] = out
             /\ \A i \in 1 .. Len(path) : need[i] = InputOf(path, t, i, need[i + 1])
<1> DEFINE n == Len(path)
           In(i, x) == InputOf(path, t, i, x)
           Body(f) == [i \in 1 .. n + 1 |-> IF i = n + 1 THEN out ELSE In(i, f[i + 1])]
           one == In(n, out)
           two == In(n - 1, one)
           w == [i \in 1 .. n + 1 |-> IF i = n + 1 THEN out ELSE IF i = n THEN one
                                      ELSE IF i = n - 1 THEN two ELSE In(n - 2, two)]
           N == Needed(path, t, out)
<1>1. n \in 1 .. 3 OBVIOUS
<1>2. w = Body(w)
  <2> HIDE DEF In, n
  <2> SUFFICES ASSUME NEW i \in 1 .. n + 1
               PROVE  w[i] = IF i = n + 1 THEN out ELSE In(i, w[i + 1])
    OBVIOUS
  <2>1. i = n + 1 \/ i = n \/ i = n - 1 \/ i = n - 2
    <3> HIDE DEF w, Body, one, two
    <3>1. QED BY <1>1, SMT
  <2>2. n \in Int BY <1>1, SMT
  <2>3. i # n + 1 => i + 1 \in 1 .. n + 1 BY <1>1, SMT
  <2>4. CASE i = n + 1 BY <2>4
  <2>5. CASE i = n
    <3>1. i # n + 1 /\ i + 1 = n + 1 BY <2>2, <2>5, SMT
    <3>2. w[i] = one BY <2>5, <3>1
    <3>3. w[i + 1] = out BY <2>3, <3>1
    <3> HIDE DEF w
    <3>4. QED BY <2>5, <3>1, <3>2, <3>3
  <2>6. CASE i = n - 1
    <3>1. i # n + 1 /\ i # n /\ i + 1 = n /\ i + 1 # n + 1 BY <2>2, <2>6, SMT
    <3>2. w[i] = two BY <2>6, <3>1
    <3>3. w[i + 1] = one BY <2>3, <3>1
    <3> HIDE DEF w
    <3>4. QED BY <2>6, <3>1, <3>2, <3>3
  <2>7. CASE i = n - 2
    <3>1. i # n + 1 /\ i # n /\ i # n - 1 /\ i + 1 = n - 1 /\ i + 1 # n /\ i + 1 # n + 1
      BY <2>2, <2>7, SMT
    <3>2. w[i] = In(n - 2, two) BY <2>7, <3>1
    <3>3. w[i + 1] = two BY <2>3, <3>1
    <3> HIDE DEF w
    <3>4. QED BY <2>7, <3>1, <3>2, <3>3
  <2>8. QED BY <2>1, <2>4, <2>5, <2>6, <2>7
<1>3. N = Body(N)
  <2> HIDE DEF w
  <2>1. QED BY <1>2 DEF Needed, InputOf
<1> HIDE DEF N, n, In
<1>4. N[n + 1] = out
  <2>1. n + 1 \in 1 .. n + 1 BY <1>1, SMT
  <2>2. QED BY <1>3, <2>1
<1>5. ASSUME NEW i \in 1 .. n PROVE N[i] = In(i, N[i + 1])
  <2>1. i \in 1 .. n + 1 /\ i # n + 1 BY <1>1, SMT
  <2>2. QED BY <1>3, <2>1
<1>6. QED BY <1>4, <1>5 DEF N, n, In

\* The run of RunExactOut with all its states.
OutRun(path, t, need, start) ==
  LET token == RouteToken(path, t)
      run[i \in 0 .. Len(path)] ==
        IF i = 0 THEN [pools |-> start, amount |-> need[1], kept |-> TRUE]
        ELSE Hop(run[i - 1], path[i], token[i], need[i], need[i + 1])
  IN  run

LEMMA OutRunUnrolled ==
  ASSUME NEW path, NEW t, NEW need, NEW start, Len(path) \in 1 .. 3
  PROVE  LET run == OutRun(path, t, need, start)
             token == RouteToken(path, t)
         IN  /\ RunExactOut(path, t, need, start) = run[Len(path)]
             /\ run[0] = [pools |-> start, amount |-> need[1], kept |-> TRUE]
             /\ \A i \in 1 .. Len(path) :
                  run[i] = Hop(run[i - 1], path[i], token[i], need[i], need[i + 1])
<1> DEFINE n == Len(path)
           token == RouteToken(path, t)
           first == [pools |-> start, amount |-> need[1], kept |-> TRUE]
           After(s, i) == Hop(s, path[i], token[i], need[i], need[i + 1])
           Body(r) == [i \in 0 .. n |-> IF i = 0 THEN first ELSE After(r[i - 1], i)]
           one == After(first, 1)
           two == After(one, 2)
           w == [i \in 0 .. n |-> IF i = 0 THEN first ELSE IF i = 1 THEN one
                                  ELSE IF i = 2 THEN two ELSE After(two, 3)]
           R == OutRun(path, t, need, start)
<1>1. w = Body(w)
  <2> HIDE DEF first, After
  <2> SUFFICES ASSUME NEW i \in 0 .. n
               PROVE  w[i] = IF i = 0 THEN first ELSE After(w[i - 1], i)
    OBVIOUS
  <2>1. i = 0 \/ i = 1 \/ i = 2 \/ i = 3
    <3> HIDE DEF w, Body, one, two
    <3>1. n \in 1 .. 3 OBVIOUS
    <3> HIDE DEF n
    <3>2. QED BY <3>1, SMT
  <2>2. i # 0 => i - 1 \in 0 .. n BY SMT
  <2>3. CASE i = 0 BY <2>3
  <2>4. CASE i = 1 BY <2>2, <2>4, SMT
  <2>5. CASE i = 2 BY <2>2, <2>5, SMT
  <2>6. CASE i = 3 BY <2>2, <2>6, SMT
  <2>7. QED BY <2>1, <2>3, <2>4, <2>5, <2>6
<1>2. R = Body(R)
  <2> HIDE DEF w
  <2>1. QED BY <1>1 DEF OutRun
<1>3. RunExactOut(path, t, need, start) = R[n]
  BY DEF RunExactOut, OutRun
<1> HIDE DEF R, n, first, After
<1>4. R[0] = first
  <2>1. 0 \in 0 .. n BY SMT DEF n
  <2>2. QED BY <1>2, <2>1
<1>5. ASSUME NEW i \in 1 .. n PROVE R[i] = After(R[i - 1], i)
  <2>1. i \in 0 .. n /\ i # 0 BY SMT DEF n
  <2>2. QED BY <1>2, <2>1
<1>6. QED BY <1>3, <1>4, <1>5 DEF R, n, first, After

LEMMA RunExactOutTable ==
  ASSUME IInv, NEW path, NEW t, NEW out \in Nat, Routed(path, t), Distinct(path),
         NEW start, TableInv(start), DOMAIN start = Existing,
         \A k \in Existing : start[k].reserve = pools[k].reserve,
         \A i \in 1 .. Len(path) : Needed(path, t, out)[i] > 0
  PROVE  LET need == Needed(path, t, out)
             run == RunExactOut(path, t, need, start)
         IN  /\ need[1] \in Nat
             /\ Carried(start, run.pools, t, need[1], RouteToken(path, t)[Len(path) + 1], out)
             /\ Traced(path, Len(path), run.pools)
<1> DEFINE n == Len(path)
           token == RouteToken(path, t)
           need == Needed(path, t, out)
           R == OutRun(path, t, need, start)
           Good(i) == /\ Carried(start, R[i].pools, t, need[1], token[i + 1], need[i + 1])
                      /\ Traced(path, i, R[i].pools)
<1>1. n \in 1 .. 3 /\ \A i \in 1 .. n : path[i] \in Existing /\ token[i] \in TokensOf(path[i])
  BY DEF Routed
<1>2. token[1] = t /\ \A i \in 1 .. n : token[i + 1] = Other(path[i], token[i])
  BY <1>1, RouteTokens
<1>3. /\ RunExactOut(path, t, need, start) = R[n]
      /\ R[0] = [pools |-> start, amount |-> need[1], kept |-> TRUE]
      /\ \A i \in 1 .. n : R[i] = Hop(R[i - 1], path[i], token[i], need[i], need[i + 1])
  BY <1>1, OutRunUnrolled
<1>4. need[n + 1] = out /\ \A i \in 1 .. n : need[i] = InputOf(path, t, i, need[i + 1])
  BY <1>1, NeededUnrolled
<1>5. \A i \in 1 .. n : need[i] > 0 OBVIOUS
<1>7. \A k \in Existing : start[k].reserve = pools[k].reserve OBVIOUS
<1> HIDE DEF n, token, need, R
<1>8. ASSUME NEW i \in 1 .. n
      PROVE  /\ need[i] \in Nat
             /\ need[i + 1] \in Nat
             /\ need[i + 1] < pools[path[i]].reserve[Other(path[i], token[i])]
             /\ Priced(need[i], need[i + 1], pools[path[i]].reserve[token[i]],
                       pools[path[i]].reserve[Other(path[i], token[i])], Fee(path[i]))
  <2> DEFINE k == path[i]
             s == token[i]
             r == pools[k].reserve
             x == need[i + 1]
             ri == r[s]
             ro == r[Other(k, s)]
  <2>1. k \in Existing /\ s \in TokensOf(k) /\ token[i + 1] = Other(k, s) BY <1>1, <1>2
  <2>2. k \in Keys /\ Fee(k) <= MaxFee /\ burnt[k] \in Nat \ {0} /\ PoolInv(k, pools[k], burnt[k])
    BY <2>1 DEF IInv, TableInv, Existing
  <2>3. ri \in Nat \ {0} /\ ro \in Nat \ {0} BY <2>1, <2>2, PoolTypes, TokensOfKey
  <2>4. need[i] = IF x \in 1 .. (ro - 1) THEN AmountIn(x, ri, ro, Fee(k)) ELSE 0
    BY <1>4, <2>1 DEF InputOf, token
  <2>5. need[i] > 0 BY <1>5
  <2>6. Fee(k) \in 0 .. (FeeDenominator - 1) BY <2>2, FeeBelow
  <2> HIDE DEF k, s, r, x, ri, ro
  <2>7. x \in 1 .. (ro - 1)
    <3>1. x \notin 1 .. (ro - 1) => need[i] = 0 BY <2>4
    <3>2. need[i] # 0 BY <2>5, SMT
    <3>3. QED BY <3>1, <3>2
  <2>8. x \in Nat /\ x < ro /\ x \in 0 .. (ro - 1) BY <2>3, <2>7, SMT
  <2>9. need[i] = AmountIn(x, ri, ro, Fee(k)) BY <2>4, <2>7
  <2>10. need[i] \in Nat /\ Fits(need[i], x, ri, ro, Fee(k))
         /\ ~ Fits(need[i] - 1, x, ri, ro, Fee(k))
    BY <2>3, <2>5, <2>6, <2>8, <2>9, AmountInIsOnCurve
  <2>11. Priced(need[i], x, ri, ro, Fee(k)) BY <2>10 DEF Priced
  <2>12. QED BY <2>8, <2>10, <2>11 DEF x, ro, ri, r, s, k
<1>9. need[1] \in Nat
  <2>1. 1 \in 1 .. n BY <1>1, SMT
  <2>2. QED BY <1>8, <2>1
<1>10. Good(0)
  <2>1. R[0].pools = start /\ token[0 + 1] = t /\ need[0 + 1] = need[1] BY <1>2, <1>3
  <2>2. Shifted(start, start, t, need[1], t, need[1])
    <3>1. \A x : Total(start, x) \in Nat BY TotalNat
    <3>2. \A y, z \in Int : y = y + z - z BY SMT
    <3>3. need[1] \in Int /\ 0 \in Int BY <1>9, SMT
    <3>4. QED BY <3>1, <3>2, <3>3, SMT DEF Shifted
  <2>3. Carried(start, R[0].pools, t, need[1], token[0 + 1], need[0 + 1])
    BY <1>9, <2>1, <2>2 DEF Carried, Aged
  <2>4. Traced(path, 0, start) BY <1>1, <1>7, TracedAtStart DEF n
  <2>5. QED BY <2>1, <2>3, <2>4
<1>11. ASSUME NEW i \in 1 .. n, Good(i - 1) PROVE Good(i)
  <2> DEFINE k == path[i]
             ps == R[i - 1].pools
             a == need[i]
             b == need[i + 1]
             s == token[i]
             qs == [ps EXCEPT ![k] = Exchanged(k, WithTwap(k, ps[k]), s, a, b)]
  <2>1. k \in Existing /\ s \in TokensOf(k) /\ token[i + 1] = Other(k, s) BY <1>1, <1>2
  <2>2. (i - 1) + 1 = i /\ i > i - 1 /\ i \in Int BY <1>1, SMT
  <2>3. Carried(start, ps, t, need[1], s, a) /\ Traced(path, i - 1, ps) BY <1>11, <2>2
  <2>4. TableInv(ps) /\ DOMAIN ps = Existing /\ a \in Nat
        /\ Shifted(start, ps, t, need[1], s, a)
        /\ \A x \in Existing : Aged(x, start[x], ps[x])
    BY <2>3 DEF Carried
  <2>5. ps[k].reserve = pools[k].reserve BY <2>2, <2>3 DEF Traced, n
  <2>6. R[i].pools = qs
    <3>1. R[i] = Hop(R[i - 1], k, s, a, b) BY <1>3
    <3> HIDE DEF k, s, a, b
    <3>2. QED BY <3>1 DEF Hop
  <2>7. b \in Nat /\ b < ps[k].reserve[Other(k, s)]
        /\ Priced(a, b, ps[k].reserve[s], ps[k].reserve[Other(k, s)], Fee(k))
    BY <1>8, <2>5
  <2> HIDE DEF k, ps, a, b, s, qs
  <2>8. AfterHop(k, ps, qs, s, a, b) BY <2>1, <2>4, <2>7, HopTable DEF qs
  <2>9. /\ TableInv(qs) /\ DOMAIN qs = Existing /\ Shifted(ps, qs, s, a, Other(k, s), b)
        /\ \A x \in Existing \ {k} : qs[x] = ps[x]
    BY <2>4, <2>8 DEF AfterHop
  <2>10. Shifted(start, qs, t, need[1], Other(k, s), b)
    <3>1. a \in Int /\ b \in Int /\ need[1] \in Int BY <1>9, <2>4, <2>7, SMT
    <3>2. QED BY <2>4, <2>9, <3>1, ShiftedTwice
  <2>14. \A x \in Existing : Aged(x, start[x], qs[x])
    <3>1. Aged(k, ps[k], qs[k]) BY <2>8 DEF AfterHop
    <3>2. Aged(k, start[k], qs[k]) BY <2>1, <2>4, <3>1, AgedOnce
    <3>3. QED BY <2>4, <2>9, <3>2
  <2>11. Carried(start, R[i].pools, t, need[1], token[i + 1], need[i + 1])
    BY <2>1, <2>6, <2>7, <2>9, <2>10, <2>14 DEF Carried, b
  <2>12. Traced(path, i, R[i].pools)
    <3>1. i \in 1 .. Len(path) BY DEF n
    <3>2. s \in TokensOf(path[i]) /\ AfterHop(path[i], ps, qs, s, a, b)
          /\ Priced(a, b, ps[path[i]].reserve[s], ps[path[i]].reserve[Other(path[i], s)],
                    Fee(path[i]))
      BY <2>1, <2>7, <2>8 DEF k
    <3>3. Traced(path, i, qs) BY <2>3, <2>4, <2>7, <3>1, <3>2, HopTraced
    <3>4. QED BY <2>6, <3>3
  <2>13. QED BY <2>11, <2>12
<1> HIDE DEF Good
<1>12. Good(n)
  <2>1. 1 \in 1 .. n /\ 1 - 1 = 0 /\ 2 - 1 = 1 /\ 3 - 1 = 2 BY <1>1, SMT
  <2>2. Good(1) BY <1>10, <1>11, <2>1
  <2>3. CASE n = 1 BY <2>2, <2>3
  <2>4. CASE n = 2
    <3>1. 2 \in 1 .. n BY <2>4, SMT
    <3>2. QED BY <1>11, <2>1, <2>2, <2>4, <3>1
  <2>5. CASE n = 3
    <3>1. 2 \in 1 .. n /\ 3 \in 1 .. n BY <2>5, SMT
    <3>2. Good(2) BY <1>11, <2>1, <2>2, <3>1
    <3>3. QED BY <1>11, <2>1, <2>5, <3>1, <3>2
  <2>6. QED BY <1>1, <2>3, <2>4, <2>5, SMT
<1>13. QED BY <1>3, <1>4, <1>9, <1>12 DEF Good, n, token, need

-----------------------------------------------------------------------------
(* The invariant holds in every reachable state.                           *)
LEMMA SwapExactOutStep ==
  ASSUME IInv, NEW u \in Addresses, NEW path, NEW t \in Tokens, NEW out \in Amounts,
         NEW slack \in Slacks, Routed(path, t), Distinct(path),
         SwapExactOut(u, path, t, out, slack), UNCHANGED <<admin, now, burnt, donated>>
  PROVE  IInv' /\ PoolsAged /\ \A x \in Existing : OnCurve(x, pools[x], pools'[x])
<1> DEFINE need == Needed(path, t, out)
           k == path[1]
           start == [pools EXCEPT ![k] = WithChange(pools[k], u, t, slack)]
           run == RunExactOut(path, t, need, start)
           last == RouteToken(path, t)[Len(path) + 1]
           ps == run.pools
           paid == need[1] + slack
           d == Of(t, paid)
           w == Of(last, out)
<1>1. /\ last # t /\ \A i \in 1 .. Len(path) : need[i] > 0
      /\ pools' = ps /\ Moved(d, w)
  BY DEF SwapExactOut
<1>2. out \in Nat /\ slack \in Nat BY DozerAssumption
<1>3. TableInv(pools) /\ DOMAIN pools = Existing BY DEF IInv, Existing
<1>4. k \in Existing /\ t \in TokensOf(k)
  <2>1. 1 \in 1 .. Len(path) BY SMT DEF Routed
  <2>2. RouteToken(path, t)[1] = t BY RouteTokens DEF Routed
  <2>3. QED BY <2>1, <2>2 DEF Routed
<1> HIDE DEF k
<1>5. AfterKept(pools, start, t, slack)
  BY <1>2, <1>3, <1>4, ChangeTable
<1>6. /\ TableInv(start) /\ DOMAIN start = Existing
      /\ \A x \in Existing : start[x].reserve = pools[x].reserve /\ Aged(x, pools[x], start[x])
      /\ \A x : Total(start, x) = Total(pools, x) + (IF x = t THEN slack ELSE 0)
  BY <1>3, <1>5 DEF AfterKept
<1> HIDE DEF start
<1>7. need[1] \in Nat /\ Carried(start, ps, t, need[1], last, out)
      /\ Traced(path, Len(path), ps)
  BY <1>1, <1>2, <1>6, RunExactOutTable
<1> HIDE DEF need, run, last, ps
<1>8. /\ TableInv(ps) /\ DOMAIN ps = Existing
      /\ Shifted(start, ps, t, need[1], last, out)
  BY <1>7 DEF Carried
<1>9. paid \in Int /\ out \in Int BY <1>2, <1>7, SMT
<1>10. /\ \A x : Given(d, x) = IF x = t THEN paid ELSE 0
       /\ \A x : Given(w, x) = IF x = last THEN out ELSE 0
  <2> HIDE DEF paid
  <2>1. QED BY <1>9, GivenOf
<1> HIDE DEF d, w
<1>11. ASSUME NEW x
       PROVE  /\ Given(d, x) \in Int /\ Given(w, x) \in Int
              /\ Total(ps, x) = Total(pools, x) + Given(d, x) - Given(w, x)
  <2>1. Total(pools, x) \in Nat BY <1>3, TotalNat
  <2>2. Total(start, x) = Total(pools, x) + (IF x = t THEN slack ELSE 0) BY <1>6
  <2>3. Total(ps, x) = Total(start, x) + (IF x = t THEN need[1] ELSE 0)
                                       - (IF x = last THEN out ELSE 0)
    BY <1>8 DEF Shifted
  <2>4. Given(d, x) = (IF x = t THEN need[1] + slack ELSE 0)
        /\ Given(w, x) = (IF x = last THEN out ELSE 0)
    BY <1>10
  <2> DEFINE m == need[1]
  <2>5. m \in Nat BY <1>7
  <2> HIDE DEF m, paid
  <2>6. QED BY <1>2, <2>1, <2>2, <2>3, <2>4, <2>5, SMT DEF m
<1>12. TableInv(pools') /\ DOMAIN pools' = Existing BY <1>1, <1>8
<1>13. IInv' BY <1>1, <1>11, <1>12, RouteStep
<1>14. \A x \in Existing : OnCurve(x, pools[x], pools'[x]) BY <1>1, <1>7 DEF Traced
<1>15. PoolsAged
  <2>1. \A x \in Existing : Aged(x, start[x], ps[x]) BY <1>7 DEF Carried
  <2>2. QED BY <1>1, <1>6, <1>12, <2>1, AgedOnce DEF PoolsAged
<1>16. QED BY <1>13, <1>14, <1>15

LEMMA RoutedPool ==
  ASSUME NEW k \in Existing, NEW t, Connected(<<k>>, t)
  PROVE  Routed(<<k>>, t) /\ Distinct(<<k>>)
<1>1. Len(<<k>>) = 1 /\ DOMAIN <<k>> = 1 .. 1 /\ <<k>>[1] = k OBVIOUS
<1>2. \A i \in 1 .. 1 : i = 1 BY SMT
<1>3. 1 \in 1 .. 3 BY SMT
<1> DEFINE path == <<k>>
<1> HIDE DEF path
<1>4. Len(path) = 1 /\ DOMAIN path = 1 .. 1 /\ path[1] = k BY <1>1 DEF path
<1>5. Connected(path, t) BY DEF path
<1>6. Routed(path, t) BY <1>2, <1>3, <1>4, <1>5 DEF Routed, Connected
<1>7. Distinct(path) BY <1>2, <1>4 DEF Distinct
<1>8. QED BY <1>6, <1>7 DEF path

LEMMA RoutedPath ==
  ASSUME NEW path \in Paths, NEW t, ValidPath(path), Connected(path, t)
  PROVE  Routed(path, t) /\ Distinct(path)
<1>1. path \in Seq(Keys) BY DozerAssumption
<1>2. DOMAIN path = 1 .. Len(path) BY <1>1
<1>3. Routed(path, t) BY <1>2 DEF ValidPath, Connected, Routed
<1>4. Distinct(path) BY <1>2 DEF ValidPath, Distinct, IsInjective
<1>5. QED BY <1>3, <1>4

LEMMA SwapSteps ==
  IInv /\ SwapNext => IInv' /\ PoolsAged /\ \A k \in Existing : OnCurve(k, pools[k], pools'[k])
<1> DEFINE Goal == IInv' /\ PoolsAged /\ \A k \in Existing : OnCurve(k, pools[k], pools'[k])
<1> SUFFICES ASSUME IInv, SwapNext PROVE Goal OBVIOUS
<1>1. PICK u \in Addresses, s \in Slacks, a \in Amounts :
        \/ \E k \in Existing, t \in Tokens : SwapExactTokensForTokens(u, k, t, a, s)
        \/ \E k \in Existing, t \in Tokens : SwapTokensForExactTokens(u, k, t, a, s)
        \/ \E path \in Paths, t \in Tokens :
             ValidPath(path) /\ SwapExactTokensForTokensThroughPath(u, path, t, a, s)
        \/ \E path \in Paths, t \in Tokens :
             ValidPath(path) /\ SwapTokensForExactTokensThroughPath(u, path, t, a, s)
  BY DEF SwapNext
<1>2. ASSUME NEW k \in Existing, NEW t \in Tokens, SwapExactTokensForTokens(u, k, t, a, s)
      PROVE  Goal
  <2>1. SwapExactIn(u, <<k>>, t, a, s) /\ UNCHANGED <<admin, now, burnt, donated>>
    BY <1>2 DEF SwapExactTokensForTokens
  <2>2. Connected(<<k>>, t) BY <2>1 DEF SwapExactIn
  <2>3. Routed(<<k>>, t) /\ Distinct(<<k>>) BY <2>2, RoutedPool
  <2>4. QED BY <2>1, <2>3, SwapExactInStep
<1>3. ASSUME NEW k \in Existing, NEW t \in Tokens, SwapTokensForExactTokens(u, k, t, a, s)
      PROVE  Goal
  <2>1. SwapExactOut(u, <<k>>, t, a, s) /\ UNCHANGED <<admin, now, burnt, donated>>
    BY <1>3 DEF SwapTokensForExactTokens
  <2>2. Connected(<<k>>, t) BY <2>1 DEF SwapExactOut
  <2>3. Routed(<<k>>, t) /\ Distinct(<<k>>) BY <2>2, RoutedPool
  <2>4. QED BY <2>1, <2>3, SwapExactOutStep
<1>4. ASSUME NEW path \in Paths, NEW t \in Tokens, ValidPath(path),
             SwapExactTokensForTokensThroughPath(u, path, t, a, s)
      PROVE  Goal
  <2>1. SwapExactIn(u, path, t, a, s) /\ UNCHANGED <<admin, now, burnt, donated>>
    BY <1>4 DEF SwapExactTokensForTokensThroughPath
  <2>2. Connected(path, t) BY <2>1 DEF SwapExactIn
  <2>3. Routed(path, t) /\ Distinct(path) BY <1>4, <2>2, RoutedPath
  <2>4. QED BY <2>1, <2>3, SwapExactInStep
<1>5. ASSUME NEW path \in Paths, NEW t \in Tokens, ValidPath(path),
             SwapTokensForExactTokensThroughPath(u, path, t, a, s)
      PROVE  Goal
  <2>1. SwapExactOut(u, path, t, a, s) /\ UNCHANGED <<admin, now, burnt, donated>>
    BY <1>5 DEF SwapTokensForExactTokensThroughPath
  <2>2. Connected(path, t) BY <2>1 DEF SwapExactOut
  <2>3. Routed(path, t) /\ Distinct(path) BY <1>5, <2>2, RoutedPath
  <2>4. QED BY <2>1, <2>3, SwapExactOutStep
<1>6. QED BY <1>1, <1>2, <1>3, <1>4, <1>5

LEMMA LiquiditySteps ==
  IInv /\ LiquidityNext => IInv' /\ (method' # "create" => PoolsAged)
<1> DEFINE Goal == IInv' /\ (method' # "create" => PoolsAged)
<1> SUFFICES ASSUME IInv, LiquidityNext PROVE Goal OBVIOUS
<1>1. PICK u \in Addresses, k \in Keys :
        \/ \E d \in FirstDeposits : CreatePool(u, k, d[1], d[2])
        \/ \E a, b \in Amounts : k \in Existing /\ AddLiquidity(u, k, a, b)
        \/ \E a \in Amounts, s \in Slacks : k \in Existing /\ RemoveLiquidity(u, k, a, s)
        \/ \E t \in TokensOf(k), a \in Amounts :
             k \in Existing /\ AddLiquiditySingleToken(u, k, t, a)
        \/ \E t \in TokensOf(k), c \in Percentages, s \in Slacks :
             k \in Existing /\ RemoveLiquiditySingleToken(u, k, t, c, s)
        \/ \E ts \in (SUBSET TokensOf(k)) \ {{}}, a \in (Amounts \cup Slacks) \ {0} :
             WithdrawCashback(u, k, [t \in ts |-> a])
  BY DEF LiquidityNext
<1>2. ASSUME NEW d \in FirstDeposits, CreatePool(u, k, d[1], d[2]) PROVE Goal
  BY <1>2, CreatePoolStep DEF CreatePool, Called
<1>3. ASSUME NEW a \in Amounts, NEW b \in Amounts, k \in Existing, AddLiquidity(u, k, a, b)
      PROVE  Goal
  BY <1>3, AddLiquidityStep
<1>4. ASSUME NEW a \in Amounts, NEW s \in Slacks, k \in Existing, RemoveLiquidity(u, k, a, s)
      PROVE  Goal
  BY <1>4, RemoveLiquidityStep
<1>5. ASSUME NEW t \in TokensOf(k), NEW a \in Amounts, k \in Existing,
             AddLiquiditySingleToken(u, k, t, a)
      PROVE  Goal
  BY <1>5, AddLiquiditySingleTokenStep
<1>6. ASSUME NEW t \in TokensOf(k), NEW c \in Percentages, NEW s \in Slacks, k \in Existing,
             RemoveLiquiditySingleToken(u, k, t, c, s)
      PROVE  Goal
  BY <1>6, RemoveLiquiditySingleTokenStep
<1>7. ASSUME NEW ts \in (SUBSET TokensOf(k)) \ {{}}, NEW a \in (Amounts \cup Slacks) \ {0},
             WithdrawCashback(u, k, [t \in ts |-> a])
      PROVE  Goal
  BY <1>7, WithdrawCashbackStep
<1>8. QED BY <1>1, <1>2, <1>3, <1>4, <1>5, <1>6, <1>7

LEMMA AdministrationSteps ==
  ASSUME IInv, OwnerNext \/ ListingNext
  PROVE  IInv'
<1>1. CASE OwnerNext
  <2>1. PICK u \in Addresses :
          \/ \E fee \in ProtocolFees : ChangeProtocolFee(u, fee)
          \/ \E w \in NewWindows : UpdateDefaultTwapWindow(u, w)
          \/ \E k \in Keys, w \in NewWindows : UpdatePoolTwapWindow(u, k, w)
          \/ \E v \in Addresses : ChangeOwner(u, v)
          \/ \E t \in Tokens, a \in Slacks \ {0} : ReplenishFunds(u, t, a)
    BY <1>1 DEF OwnerNext
  <2>2. ASSUME NEW k \in Keys, NEW w \in NewWindows, UpdatePoolTwapWindow(u, k, w) PROVE IInv'
    BY <2>2, UpdatePoolTwapWindowStep
  <2>3. ASSUME NEW t \in Tokens, NEW a \in Slacks, ReplenishFunds(u, t, a) PROVE IInv'
    BY <2>3, ReplenishFundsStep
  <2>4. QED BY <2>1, <2>2, <2>3, OwnerSteps
<1>2. CASE ListingNext
  <2>1. PICK u \in Addresses :
          \/ \E v \in Addresses : AddAuthorizedSigner(u, v) \/ RemoveAuthorizedSigner(u, v)
          \/ InitializeReservedPools(u)
          \/ \E t \in Tokens : ReservePoolCreation(u, t) \/ ReleasePoolReservation(u, t)
          \/ \E k \in Keys : SignPool(u, k) \/ UnsignPool(u, k)
          \/ Pause(u) \/ Unpause(u)
    BY <1>2 DEF ListingNext
  <2>2. QED BY <2>1, OwnerSteps, ListingSteps
<1>3. QED BY <1>1, <1>2

LEMMA InitIInv == Init => IInv
<1> SUFFICES ASSUME Init PROVE IInv OBVIOUS
<1>1. /\ pools = [k \in {} |-> None] /\ admin = FirstAdmin
      /\ held = [t \in Tokens |-> 0] /\ donated = [t \in Tokens |-> 0] /\ now = 1
  BY DEF Init
<1>2. TableInv(pools)
  <2>1. DOMAIN pools = {} /\ pools = [k \in DOMAIN pools |-> pools[k]] BY <1>1
  <2>2. IsFiniteSet({}) BY FS_EmptySet
  <2>3. QED BY <2>1, <2>2 DEF TableInv
<1>3. Solvency
  <2>1. DOMAIN pools = {} BY <1>1
  <2>2. \A f : SumFunctionOnSet(f, {}) = 0 BY SumEmpty
  <2>3. \A t \in Tokens : held[t] = 0 /\ donated[t] = 0 BY <1>1
  <2>4. \A t \in Tokens : SumFunctionOnSet([k \in Existing |-> InPool(k, pools[k], t)], Existing) = 0
    BY <2>1, <2>2 DEF Existing
  <2>5. 0 = 0 + 0 BY SMT
  <2>6. QED BY <2>3, <2>4, <2>5 DEF Solvency
<1>4. held \in [Tokens -> Int] /\ donated \in [Tokens -> Nat] BY <1>1, SMT
<1>5. AdminTypes
  <2>1. Creator \in Addresses /\ DefaultWindow \in Nat \ {0} BY DozerAssumption
  <2>2. 40 \in 0 .. 50 BY SMT
  <2>3. QED BY <1>1, <2>1, <2>2 DEF AdminTypes, FirstAdmin, None
<1>6. QED BY <1>1, <1>2, <1>3, <1>4, <1>5, SMT DEF IInv, MoneyInv

LEMMA NextIInv == IInv /\ [Next]_vars => IInv'
<1> SUFFICES ASSUME IInv, [Next]_vars PROVE IInv' OBVIOUS
<1>1. CASE LiquidityNext BY <1>1, LiquiditySteps
<1>2. CASE SwapNext BY <1>2, SwapSteps
<1>3. CASE OwnerNext \/ ListingNext BY <1>3, AdministrationSteps
<1>4. CASE Tick BY <1>4, TickStep
<1>5. CASE UNCHANGED vars
  <2>1. UNCHANGED <<pools, held, now, burnt, donated, admin>> BY <1>5 DEF vars
  <2>2. AdminTypes' BY <2>1 DEF IInv, AdminTypes, Existing
  <2>3. QED BY <2>1, <2>2, AdminStep
<1>6. QED BY <1>1, <1>2, <1>3, <1>4, <1>5 DEF Next

LEMMA AlwaysIInv == Spec => []IInv
<1>1. QED BY InitIInv, NextIInv, PTL DEF Spec

LEMMA IInvTypeOK == IInv => TypeOK
<1> SUFFICES ASSUME IInv PROVE TypeOK OBVIOUS
<1>1. ASSUME NEW k \in Existing
      PROVE  LET p == pools[k]
             IN  /\ k \in Keys
                 /\ p.reserve \in [TokensOf(k) -> Nat \ {0}]
                 /\ p.change \in [TokensOf(k) -> Nat]
                 /\ p.liquidity \in Nat \ {0}
                 /\ p.userLiquidity \in [Addresses -> Nat]
                 /\ p.userChange \in [Addresses -> [TokensOf(k) -> Nat]]
                 /\ p.windowSum \in [TokensOf(k) -> Nat]
                 /\ p.stamp \in 1 .. now /\ p.window \in Nat \ {0}
  <2>1. k \in Keys /\ burnt[k] \in Nat \ {0} /\ PoolInv(k, pools[k], burnt[k])
        /\ pools[k].stamp <= now
    BY DEF IInv, TableInv, Existing
  <2>2. now \in Nat \ {0} BY DEF IInv
  <2> DEFINE p == pools[k]
  <2> HIDE DEF p
  <2>3. PoolInv(k, p, burnt[k]) BY <2>1 DEF p
  <2>4. /\ p.reserve \in [TokensOf(k) -> Nat \ {0}]
        /\ p.change \in [TokensOf(k) -> Nat]
        /\ p.liquidity \in Nat \ {0}
        /\ p.userLiquidity \in [Addresses -> Nat]
        /\ p.userChange \in [Addresses -> [TokensOf(k) -> Nat]]
        /\ p.windowSum \in [TokensOf(k) -> Nat]
        /\ p.stamp \in Nat \ {0} /\ p.window \in Nat \ {0}
    BY <2>1, <2>3, PoolTypes
  <2>5. p.stamp \in 1 .. now
    <3>1. p.stamp <= now BY <2>1 DEF p
    <3>2. QED BY <2>2, <2>4, <3>1, SMT
  <2>6. QED BY <2>1, <2>4, <2>5 DEF p
<1>2. held \in [Tokens -> Nat]
  <2>1. held \in [Tokens -> Int] /\ donated \in [Tokens -> Nat] /\ TableInv(pools)
        /\ \A t \in Tokens : held[t] = donated[t] + Total(pools, t)
    BY DEF IInv, MoneyInv, Solvency, Total, Existing
  <2>2. ASSUME NEW t \in Tokens PROVE held[t] \in Nat
    <3>1. Total(pools, t) \in Nat BY <2>1, TotalNat
    <3>2. donated[t] \in Nat /\ held[t] = donated[t] + Total(pools, t) BY <2>1
    <3>3. QED BY <3>1, <3>2, SMT
  <2>3. QED BY <2>1, <2>2
<1>3. AdminTypes /\ now \in Nat \ {0} BY DEF IInv
<1>4. QED BY <1>1, <1>2, <1>3 DEF TypeOK, AdminTypes

(* Every field of the state keeps its type: no reserve reaches zero and no *)
(* change or liquidity falls below it, by any sequence of calls.           *)
THEOREM DozerTypes == Spec => []TypeOK
<1>1. QED BY AlwaysIInv, IInvTypeOK, PTL

(* The contract holds of every token what its pools have in reserve and    *)
(* owe as change, and what the owner put in, to the unit, through every    *)
(* method and every route.                                                 *)
THEOREM DozerSolvent == Spec => []Solvency
<1>1. IInv => Solvency BY DEF IInv, MoneyInv
<1>2. QED BY <1>1, AlwaysIInv, PTL

(* The liquidity and the change of a pool are the sums of what its users   *)
(* have, and the liquidity burnt when it was created.                      *)
THEOREM SharesAlwaysAddUp == Spec => []SharesAddUp
<1>1. IInv => SharesAddUp
  BY DEF IInv, TableInv, PoolInv, Books, SharesAddUp, Existing
<1>2. QED BY <1>1, AlwaysIInv, PTL

-----------------------------------------------------------------------------
(* No provider takes from the others, and every swap stays on the curve.   *)
ShareValuesKept ==
  method' = "liquidity" =>
    \A k \in Existing :
      LET p == pools[k]
          q == pools'[k]
      IN  /\ q.reserve[k[1]] * p.liquidity >= p.reserve[k[1]] * q.liquidity
          /\ (q.reserve[k[2]] + 1) * p.liquidity >= p.reserve[k[2]] * q.liquidity

\* A pool that does not change keeps what its shares stand for.
LEMMA UnchangedKeepsValue ==
  ASSUME IInv, NEW k \in Existing
  PROVE  ValueKept(k, pools[k], pools[k])
<1> DEFINE x == pools[k].reserve[k[1]]
           y == pools[k].reserve[k[2]]
           all == pools[k].liquidity
<1>1. k \in Keys /\ burnt[k] \in Nat \ {0} /\ PoolInv(k, pools[k], burnt[k])
  BY DEF IInv, TableInv, Existing
<1>2. x \in Nat /\ y \in Nat /\ all \in Nat BY <1>1, PoolTypes
<1> HIDE DEF x, y, all
<1>3. x * all >= x * all /\ (y + 1) * all >= y * all
  <2>1. (y + 1) * all = y * all + all /\ y * all \in Int /\ x * all \in Int BY <1>2, SMT
  <2>2. QED BY <1>2, <2>1, SMT
<1>4. QED BY <1>3 DEF ValueKept, x, y, all

LEMMA ValueStep == IInv /\ [Next]_vars => [ShareValuesKept]_vars
<1> SUFFICES ASSUME IInv, Next, method' = "liquidity"
             PROVE  \A k \in Existing : ValueKept(k, pools[k], pools'[k])
  BY DEF ShareValuesKept, ValueKept
<1>1. ASSUME NEW u \in Addresses, NEW k \in Existing, NEW a \in Amounts, NEW b \in Amounts,
             AddLiquidity(u, k, a, b)
      PROVE  \A x \in Existing : ValueKept(x, pools[x], pools'[x])
  BY <1>1, AddLiquidityStep, UnchangedKeepsValue
<1>2. ASSUME NEW u \in Addresses, NEW k \in Existing, NEW a \in Amounts, NEW s \in Slacks,
             RemoveLiquidity(u, k, a, s)
      PROVE  \A x \in Existing : ValueKept(x, pools[x], pools'[x])
  BY <1>2, RemoveLiquidityStep, UnchangedKeepsValue
<1>3. CASE LiquidityNext
  <2>1. \A u, k, a, b : ~ CreatePool(u, k, a, b) BY DEF CreatePool, Called
  <2>2. \A u, k, t, a : ~ AddLiquiditySingleToken(u, k, t, a)
    BY DEF AddLiquiditySingleToken, Called
  <2>3. \A u, k, t, c, s : ~ RemoveLiquiditySingleToken(u, k, t, c, s)
    BY DEF RemoveLiquiditySingleToken, Called
  <2>4. \A u, k, taken : ~ WithdrawCashback(u, k, taken) BY DEF WithdrawCashback, Called
  <2>5. QED BY <1>1, <1>2, <1>3, <2>1, <2>2, <2>3, <2>4 DEF LiquidityNext
<1>4. CASE SwapNext
  BY <1>4 DEF SwapNext, Called, SwapExactTokensForTokens, SwapTokensForExactTokens,
              SwapExactTokensForTokensThroughPath, SwapTokensForExactTokensThroughPath
<1>5. CASE OwnerNext
  BY <1>5 DEF OwnerNext, OwnerCall, Called, ChangeProtocolFee, UpdateDefaultTwapWindow,
              UpdatePoolTwapWindow, ChangeOwner, ReplenishFunds
<1>6. CASE ListingNext
  BY <1>6 DEF ListingNext, OwnerCall, Called, AddAuthorizedSigner, RemoveAuthorizedSigner,
              InitializeReservedPools, ReservePoolCreation, ReleasePoolReservation,
              SignPool, UnsignPool, Pause, Unpause
<1>7. CASE Tick BY <1>7, UnchangedKeepsValue DEF Tick
<1>8. QED BY <1>3, <1>4, <1>5, <1>6, <1>7 DEF Next

(* Adding and removing liquidity never lowers what a share of the others   *)
(* stands for: liquidity is rounded down when added and up when removed.   *)
THEOREM SharesAlwaysKeepTheirValue == Spec => SharesKeepTheirValue
<1>1. QED BY AlwaysIInv, ValueStep, PTL DEF Spec, SharesKeepTheirValue, ShareValuesKept

(* A step of a swap leaves every pool on its curve. *)
CurvesKept ==
  method' = "swap" => \A k \in Existing : OnCurve(k, pools[k], pools'[k])

LEMMA CurveStep == IInv /\ [Next]_vars => [CurvesKept]_vars
<1> SUFFICES ASSUME IInv, Next, method' = "swap"
             PROVE  \A k \in Existing : OnCurve(k, pools[k], pools'[k])
  BY DEF CurvesKept
<1>1. CASE LiquidityNext
  BY <1>1 DEF LiquidityNext, Called, CreatePool, AddLiquidity, RemoveLiquidity,
              AddLiquiditySingleToken, RemoveLiquiditySingleToken, WithdrawCashback
<1>2. CASE SwapNext BY <1>2, SwapSteps
<1>3. CASE OwnerNext
  BY <1>3 DEF OwnerNext, OwnerCall, Called, ChangeProtocolFee, UpdateDefaultTwapWindow,
              UpdatePoolTwapWindow, ChangeOwner, ReplenishFunds
<1>4. CASE ListingNext
  BY <1>4 DEF ListingNext, OwnerCall, Called, AddAuthorizedSigner, RemoveAuthorizedSigner,
              InitializeReservedPools, ReservePoolCreation, ReleasePoolReservation,
              SignPool, UnsignPool, Pause, Unpause
<1>5. CASE Tick
  <2>1. UNCHANGED pools BY <1>5 DEF Tick
  <2>2. ASSUME NEW k \in Existing PROVE OnCurve(k, pools[k], pools[k])
    <3>1. k \in Keys /\ burnt[k] \in Nat \ {0} /\ PoolInv(k, pools[k], burnt[k])
      BY DEF IInv, TableInv, Existing
    <3>2. pools[k].reserve \in [TokensOf(k) -> Nat \ {0}] BY <3>1, PoolTypes
    <3>3. QED BY <3>1, <3>2, SameReserveOnCurve
  <2>3. QED BY <2>1, <2>2
<1>6. QED BY <1>1, <1>2, <1>3, <1>4, <1>5 DEF Next

(* Every swap, alone or in a route, with an exact input or output, leaves  *)
(* the pools it goes through on their curves and the others alone.         *)
THEOREM SwapsAlwaysStayOnCurve == Spec => SwapsStayOnCurve
<1>1. [CurvesKept]_vars => [method' = "swap" =>
       \A k \in Existing : \A t \in TokensOf(k) :
         LET r   == pools[k].reserve[t]
             s   == pools[k].reserve[Other(k, t)]
             in  == pools'[k].reserve[t] - r
             out == s - pools'[k].reserve[Other(k, t)]
         IN  in > 0 =>
               /\ Fits(in, out, r, s, Fee(k))
               /\ ~ Fits(in, out + 1, r, s, Fee(k)) \/ ~ Fits(in - 1, out, r, s, Fee(k))]_vars
  BY DEF CurvesKept, OnCurve, Priced
<1>2. QED BY AlwaysIInv, CurveStep, <1>1, PTL DEF Spec, SwapsStayOnCurve

-----------------------------------------------------------------------------
(* The average price stays within what was seen at the end of a block.     *)
\* The average of pool k and, as long as its stamp is not of the current block,
\* its price are within what was seen of them.
WithinSeen(k, p, s) ==
  \A t \in TokensOf(k) :
    /\ s[t].lo \in Nat /\ s[t].hi \in Nat
    /\ s[t].lo * p.window <= p.windowSum[t] /\ p.windowSum[t] <= s[t].hi * p.window
    /\ p.stamp < now => s[t].lo <= Price(k, p, t) /\ Price(k, p, t) <= s[t].hi

TwapInv ==
  /\ seen = [k \in Existing |-> seen[k]]
  /\ \A k \in Existing : WithinSeen(k, pools[k], seen[k])

(* A window sum of averages within bounds is within them after an update   *)
(* with a price within them: the weights add up to the window.             *)
LEMMA WindowSumWithin ==
  ASSUME NEW sum \in Nat, NEW price \in Nat, NEW elapsed \in Nat, NEW window \in Nat \ {0},
         NEW lo \in Nat, NEW hi \in Nat, lo <= price, price <= hi,
         lo * window <= sum, sum <= hi * window
  PROVE  /\ lo * window <= WindowSum(sum, price, elapsed, window)
         /\ WindowSum(sum, price, elapsed, window) <= hi * window
<1> DEFINE remaining == IF elapsed < window THEN window - elapsed ELSE 0
           weight    == IF elapsed < window THEN elapsed ELSE window
           old       == (sum * remaining) \div window
<1>1. remaining \in Nat /\ weight \in Nat /\ weight + remaining = window BY SMT
<1> HIDE DEF remaining, weight
<1>2. sum * remaining \in Nat BY <1>1, Products
<1>3. old \in Nat /\ old * window <= sum * remaining /\ sum * remaining < (old + 1) * window
  BY <1>2, FloorBounds
<1>4. WindowSum(sum, price, elapsed, window) = price * weight + old
  BY DEF WindowSum, remaining, weight
<1> HIDE DEF old
<1>5. old <= hi * remaining
  <2> DEFINE m == hi * remaining
  <2>1. m \in Nat BY <1>1, Products
  <2>2. sum * remaining <= (hi * window) * remaining
    <3> DEFINE n == hi * window
    <3>1. n \in Nat /\ sum <= n BY Products
    <3> HIDE DEF n
    <3>2. sum * remaining <= n * remaining BY <1>1, <3>1, SMT
    <3>3. QED BY <3>2 DEF n
  <2>3. (hi * window) * remaining = m * window BY <1>1, SMT
  <2> HIDE DEF m
  <2>4. SUFFICES ASSUME old > m PROVE FALSE BY <1>3, <2>1, SMT DEF m
  <2>5. old * window > m * window BY <1>3, <2>1, <2>4, SMT
  <2>6. old * window \in Int /\ m * window \in Int BY <1>3, <2>1, SMT
  <2>7. QED BY <1>2, <1>3, <2>2, <2>3, <2>5, <2>6, SMT
<1>6. lo * remaining <= old
  <2> DEFINE m == lo * remaining
  <2>1. m \in Nat BY <1>1, Products
  <2>2. (lo * window) * remaining <= sum * remaining
    <3> DEFINE n == lo * window
    <3>1. n \in Nat /\ n <= sum BY Products
    <3> HIDE DEF n
    <3>2. n * remaining <= sum * remaining BY <1>1, <3>1, SMT
    <3>3. QED BY <3>2 DEF n
  <2>3. (lo * window) * remaining = m * window BY <1>1, SMT
  <2> HIDE DEF m
  <2>4. SUFFICES ASSUME old + 1 <= m PROVE FALSE BY <1>3, <2>1, SMT DEF m
  <2>5. (old + 1) * window <= m * window BY <1>3, <2>1, <2>4, SMT
  <2>6. (old + 1) * window \in Int /\ m * window \in Int BY <1>3, <2>1, SMT
  <2>7. QED BY <1>2, <1>3, <2>2, <2>3, <2>5, <2>6, SMT
<1>7. lo * window = lo * weight + lo * remaining /\ hi * window = hi * weight + hi * remaining
  <2>1. \A x, y, z \in Nat : z * (x + y) = z * x + z * y BY SMT
  <2>2. QED BY <1>1, <2>1
<1>8. lo * weight <= price * weight /\ price * weight <= hi * weight BY <1>1, SMT
<1>9. /\ lo * weight \in Nat /\ price * weight \in Nat /\ hi * weight \in Nat
      /\ lo * remaining \in Nat /\ hi * remaining \in Nat
  BY <1>1, Products
<1>10. QED BY <1>3, <1>4, <1>5, <1>6, <1>7, <1>8, <1>9, SMT

LEMMA MinMaxOfTwo ==
  ASSUME NEW x \in Nat, NEW y \in Nat
  PROVE  /\ Min({x, y}) \in {x, y} /\ Min({x, y}) <= x /\ Min({x, y}) <= y
         /\ Max({x, y}) \in {x, y} /\ Max({x, y}) >= x /\ Max({x, y}) >= y
<1>1. \E m \in {x, y} : \A n \in {x, y} : m <= n
  <2>1. CASE x <= y BY <2>1, SMT
  <2>2. CASE ~ (x <= y) BY <2>2, SMT
  <2>3. QED BY <2>1, <2>2
<1>2. \E m \in {x, y} : \A n \in {x, y} : m >= n
  <2>1. CASE x <= y BY <2>1, SMT
  <2>2. CASE ~ (x <= y) BY <2>2, SMT
  <2>3. QED BY <2>1, <2>2
<1> DEFINE least(m) == m \in {x, y} /\ \A n \in {x, y} : m <= n
           most(m) == m \in {x, y} /\ \A n \in {x, y} : m >= n
<1>3. least(Min({x, y})) BY <1>1 DEF Min
<1>4. most(Max({x, y})) BY <1>2 DEF Max
<1>5. QED BY <1>3, <1>4

\* A pool that a call ages keeps within what was seen.
LEMMA AgedWithin ==
  ASSUME NEW k \in Keys, NEW p, NEW q, NEW b \in Nat \ {0}, NEW s, PoolInv(k, p, b),
         p.stamp <= now, now \in Nat, WithinSeen(k, p, s), Aged(k, p, q)
  PROVE  WithinSeen(k, q, s)
<1>1. p.stamp \in Nat /\ p.window \in Nat \ {0} /\ p.windowSum \in [TokensOf(k) -> Nat]
      /\ p.reserve \in [TokensOf(k) -> Nat \ {0}]
  BY PoolTypes
<1>2. CASE q.stamp = p.stamp /\ q.windowSum = p.windowSum /\ q.reserve = p.reserve
  <2>1. q.window = p.window BY DEF Aged
  <2>2. \A t : Price(k, q, t) = Price(k, p, t) BY <1>2 DEF Price
  <2>3. QED BY <1>2, <2>1, <2>2 DEF WithinSeen
<1>3. CASE q.stamp = now /\ q.windowSum = Averages(k, p)
  <2>1. ~ (q.stamp < now) BY <1>3, SMT
  <2>2. q.window = p.window BY DEF Aged
  <2>3. ASSUME NEW t \in TokensOf(k)
        PROVE  s[t].lo * p.window <= q.windowSum[t] /\ q.windowSum[t] <= s[t].hi * p.window
    <3>1. CASE p.stamp = now BY <1>3, <3>1 DEF Averages, WithinSeen
    <3>2. CASE p.stamp # now
      <4> DEFINE lo == s[t].lo
                 hi == s[t].hi
                 price == Price(k, p, t)
                 elapsed == now - p.stamp
                 w == p.window
                 sum == p.windowSum[t]
                 new == q.windowSum[t]
      <4>1. p.stamp < now /\ elapsed \in Nat BY <1>1, <3>2, SMT
      <4>2. /\ lo \in Nat /\ hi \in Nat /\ lo <= price /\ price <= hi
            /\ lo * p.window <= p.windowSum[t] /\ p.windowSum[t] <= hi * p.window
        BY <4>1 DEF WithinSeen
      <4>3. price \in Nat
        <5>1. Other(k, t) \in TokensOf(k) BY TokensOfKey
        <5>2. p.reserve[t] \in Nat \ {0} /\ p.reserve[Other(k, t)] \in Nat BY <1>1, <5>1
        <5>3. QED BY <5>2, SpotPriceNat DEF Price
      <4>4. q.windowSum[t] = WindowSum(p.windowSum[t], price, elapsed, p.window)
        BY <1>3, <3>2 DEF Averages
      <4>5. sum \in Nat /\ w \in Nat \ {0} BY <1>1
      <4> HIDE DEF lo, hi, price, elapsed, w, sum, new
      <4>6. lo <= price /\ price <= hi /\ lo * w <= sum /\ sum <= hi * w
        BY <4>2 DEF w, sum
      <4>7. lo * w <= WindowSum(sum, price, elapsed, w)
            /\ WindowSum(sum, price, elapsed, w) <= hi * w
        BY <4>1, <4>2, <4>3, <4>5, <4>6, WindowSumWithin
      <4>8. new = WindowSum(sum, price, elapsed, w) BY <4>4 DEF new, sum, w
      <4>9. lo * w <= new /\ new <= hi * w BY <4>7, <4>8
      <4>10. QED BY <4>9 DEF lo, hi, w, new
    <3>3. QED BY <3>1, <3>2
  <2>4. QED BY <2>1, <2>2, <2>3 DEF WithinSeen
<1>4. QED BY <1>2, <1>3 DEF Aged

\* A pool whose window starts at its price, which is all that was seen of it.
LEMMA FreshWithin ==
  ASSUME NEW k \in Keys, NEW p, NEW b \in Nat \ {0}, PoolInv(k, p, b), p.stamp = now,
         now \in Nat, \A t \in TokensOf(k) : p.windowSum[t] = Price(k, p, t) * p.window
  PROVE  WithinSeen(k, p, FirstSeen(k, p))
<1>1. ~ (p.stamp < now) BY SMT
<1>2. ASSUME NEW t \in TokensOf(k)
      PROVE  /\ Price(k, p, t) \in Nat
             /\ Price(k, p, t) * p.window <= p.windowSum[t]
             /\ p.windowSum[t] <= Price(k, p, t) * p.window
  <2> DEFINE price == Price(k, p, t)
             w == p.window
  <2>1. p.reserve \in [TokensOf(k) -> Nat \ {0}] /\ w \in Nat BY PoolTypes
  <2>2. p.reserve[t] \in Nat \ {0} /\ p.reserve[Other(k, t)] \in Nat
    BY <2>1, TokensOfKey
  <2>3. price \in Nat BY <2>2, SpotPriceNat DEF Price
  <2>4. p.windowSum[t] = price * w OBVIOUS
  <2> HIDE DEF price, w
  <2>5. price * w \in Nat BY <2>1, <2>3, Products
  <2>6. price * w <= price * w BY <2>5, SMT
  <2>7. QED BY <2>3, <2>4, <2>6 DEF price, w
<1>3. \A t \in TokensOf(k) :
        FirstSeen(k, p)[t].lo = Price(k, p, t) /\ FirstSeen(k, p)[t].hi = Price(k, p, t)
  BY DEF FirstSeen
<1>4. QED BY <1>1, <1>2, <1>3 DEF WithinSeen

\* A step that changes no pool, no block and nothing of what was seen.
LEMMA SameWithin ==
  ASSUME TwapInv, UNCHANGED <<pools, now, seen>>
  PROVE  TwapInv'
BY DEF TwapInv, WithinSeen, Existing, TokensOf, Price, Other

\* A call within a block that ages the pools.
LEMMA AgedTwap ==
  ASSUME IInv, TwapInv, PoolsAged, UNCHANGED <<now, seen>>
  PROVE  TwapInv'
<1>1. ASSUME NEW k \in Existing PROVE WithinSeen(k, pools'[k], seen[k])
  <2>1. k \in Keys /\ burnt[k] \in Nat \ {0} /\ PoolInv(k, pools[k], burnt[k])
        /\ pools[k].stamp <= now /\ now \in Nat
    BY DEF IInv, TableInv, Existing
  <2>2. Aged(k, pools[k], pools'[k]) /\ WithinSeen(k, pools[k], seen[k])
    BY DEF PoolsAged, TwapInv
  <2> DEFINE p == pools[k]
             q == pools'[k]
             s == seen[k]
             b == burnt[k]
  <2> HIDE DEF p, q, s, b
  <2>3. WithinSeen(k, q, s) BY <2>1, <2>2, AgedWithin DEF p, q, s, b
  <2>4. QED BY <2>3 DEF q, s
<1>2. Existing' = Existing BY DEF PoolsAged, Existing
<1>3. seen' = [k \in Existing' |-> seen'[k]] BY <1>2 DEF TwapInv
<1>4. ASSUME NEW k \in Existing' PROVE WithinSeen(k, pools[k], seen[k])'
  BY <1>1, <1>2 DEF WithinSeen, TokensOf, Price, Other
<1>5. QED BY <1>3, <1>4 DEF TwapInv

\* Pool k starts its window at the price of the moment; the others do not change.
LEMMA FreshTwap ==
  ASSUME TwapInv, UNCHANGED now, now \in Nat, NEW k \in Keys, NEW b \in Nat \ {0}, NEW q,
         DOMAIN pools' = Existing \cup {k}, pools'[k] = q,
         \A x \in Existing \ {k} : pools'[x] = pools[x],
         seen' = [x \in Existing \cup {k} |-> IF x = k THEN FirstSeen(k, q) ELSE seen[x]],
         PoolInv(k, q, b), q.stamp = now,
         \A t \in TokensOf(k) : q.windowSum[t] = Price(k, q, t) * q.window
  PROVE  TwapInv'
<1>1. WithinSeen(k, q, FirstSeen(k, q)) BY FreshWithin
<1>2. ASSUME NEW x \in Existing \cup {k} PROVE WithinSeen(x, pools'[x], seen'[x])
  <2>1. CASE x = k BY <1>1, <2>1
  <2>2. CASE x # k BY <2>2 DEF TwapInv
  <2>3. QED BY <2>1, <2>2
<1>3. Existing' = Existing \cup {k} BY DEF Existing
<1>4. seen' = [x \in Existing' |-> seen'[x]] BY <1>3
<1>5. ASSUME NEW x \in Existing' PROVE WithinSeen(x, pools[x], seen[x])'
  BY <1>2, <1>3 DEF WithinSeen, TokensOf, Price, Other
<1>6. QED BY <1>4, <1>5 DEF TwapInv

LEMMA CreatePoolTwap ==
  ASSUME IInv, TwapInv, NEW u \in Addresses, NEW k \in Keys, NEW d \in FirstDeposits,
         CreatePool(u, k, d[1], d[2])
  PROVE  TwapInv'
<1> DEFINE a == d[1]
           b == d[2]
           w == admin.defaultWindow
           pool == NewPool(k, u, a, b, w, now)
           burn == Isqrt(a * b) * MinimumLiquidity
<1>1. /\ k \notin Existing /\ Isqrt(a * b) > 0
      /\ pools' = [x \in Existing \cup {k} |-> IF x = k THEN pool ELSE pools[x]]
      /\ seen' = [x \in Existing \cup {k} |-> IF x = k THEN FirstSeen(k, pool) ELSE seen[x]]
      /\ UNCHANGED now
  BY DEF CreatePool
<1>2. a \in Nat \ {0} /\ b \in Nat \ {0} BY DozerAssumption
<1>3. w \in Nat \ {0} /\ now \in Nat \ {0} BY DEF IInv, AdminTypes
<1> HIDE DEF a, b, w
<1>4. /\ burn \in Nat \ {0} /\ PoolInv(k, pool, burn) /\ pool.stamp = now
  BY <1>1, <1>2, <1>3, NewPoolBooks
<1>5. \A t \in TokensOf(k) : pool.windowSum[t] = Price(k, pool, t) * pool.window
  <2>1. k[1] # k[2] /\ \A t \in TokensOf(k) : t = k[1] \/ t = k[2] BY TokensOfKey DEF TokensOf
  <2>2. /\ pool.reserve = Pair(k, a, b) /\ pool.window = w
        /\ pool.windowSum = Pair(k, SpotPrice(a, b) * w, SpotPrice(b, a) * w)
    BY DEF NewPool
  <2> HIDE DEF pool
  <2>3. /\ pool.reserve[k[1]] = a /\ pool.reserve[k[2]] = b
        /\ pool.windowSum[k[1]] = SpotPrice(a, b) * w
        /\ pool.windowSum[k[2]] = SpotPrice(b, a) * w
    BY <2>1, <2>2 DEF Pair, TokensOf
  <2>4. Other(k, k[1]) = k[2] /\ Other(k, k[2]) = k[1] BY <2>1 DEF Other
  <2>5. QED BY <2>1, <2>2, <2>3, <2>4 DEF Price
<1> HIDE DEF pool, burn
<1>6. DOMAIN pools' = Existing \cup {k} /\ pools'[k] = pool
      /\ \A x \in Existing \ {k} : pools'[x] = pools[x]
  BY <1>1
<1>7. now \in Nat BY <1>3
<1>8. QED BY <1>1, <1>4, <1>5, <1>6, <1>7, FreshTwap

LEMMA UpdateWindowTwap ==
  ASSUME IInv, TwapInv, NEW u \in Addresses, NEW k \in Keys, NEW w \in NewWindows,
         UpdatePoolTwapWindow(u, k, w)
  PROVE  TwapInv'
<1> DEFINE o == pools[k]
           q == [o EXCEPT !.windowSum = [t \in TokensOf(k) |-> Price(k, o, t) * w],
                          !.stamp = now, !.window = w]
<1>1. /\ k \in Existing /\ UNCHANGED <<now, burnt>>
      /\ seen' = [seen EXCEPT ![k] = FirstSeen(k, o)]
  BY DEF UpdatePoolTwapWindow
<1>2. pools' = [pools EXCEPT ![k] = q]
  BY DEF UpdatePoolTwapWindow
<1>3. k \in Keys /\ burnt[k] \in Nat \ {0} /\ PoolInv(k, o, burnt[k]) /\ now \in Nat
  BY <1>1 DEF IInv, TableInv, Existing
<1>4. /\ q.windowSum = [t \in TokensOf(k) |-> Price(k, o, t) * w]
      /\ q.stamp = now /\ q.window = w /\ q.reserve = o.reserve
  BY <1>3 DEF PoolInv, PoolRecords
<1> HIDE DEF q, o
<1>5. pools'[k] = q /\ DOMAIN pools' = Existing /\ \A x \in Existing \ {k} : pools'[x] = pools[x]
  BY <1>1, <1>2 DEF Existing
<1>6. PoolInv(k, q, burnt[k])
  <2>1. IInv' BY UpdatePoolTwapWindowStep
  <2>2. TableInv(pools)' /\ k \in DOMAIN pools' BY <1>1, <1>5, <2>1 DEF IInv
  <2>3. PoolInv(k, pools[k], burnt[k])' BY <2>2 DEF TableInv
  <2>4. PoolInv(k, pools'[k], burnt'[k]) BY <2>3 DEF PoolInv, Books, PoolRecords
  <2>5. QED BY <1>1, <1>5, <2>4
<1>7. \A t : Price(k, q, t) = Price(k, o, t) BY <1>4 DEF Price
<1>8. \A t \in TokensOf(k) : q.windowSum[t] = Price(k, q, t) * q.window BY <1>4, <1>7
<1>9. FirstSeen(k, o) = FirstSeen(k, q) BY <1>7 DEF FirstSeen
<1>10. seen' = [x \in Existing \cup {k} |-> IF x = k THEN FirstSeen(k, q) ELSE seen[x]]
  <2>1. seen = [x \in Existing |-> seen[x]] /\ Existing \cup {k} = Existing BY <1>1 DEF TwapInv
  <2>2. DOMAIN seen = Existing BY <2>1
  <2>3. QED BY <1>1, <1>9, <2>1, <2>2
<1>11. DOMAIN pools' = Existing \cup {k} BY <1>1, <1>5
<1>12. UNCHANGED now BY <1>1
<1>13. QED BY <1>12, <1>3, <1>4, <1>5, <1>6, <1>8, <1>10, <1>11, FreshTwap

\* The next block: what was seen grows by the prices the last one ends with.
LEMMA TickTwap ==
  ASSUME IInv, TwapInv, Tick
  PROVE  TwapInv'
<1> DEFINE price(k, t) == Price(k, pools[k], t)
           lo(k, t) == seen[k][t].lo
           hi(k, t) == seen[k][t].hi
<1>1. /\ UNCHANGED pools
      /\ seen' = [k \in Existing |-> [t \in TokensOf(k) |->
                    [lo |-> Min({price(k, t), lo(k, t)}), hi |-> Max({price(k, t), hi(k, t)})]]]
  BY DEF Tick
<1>2. \A x, y \in Nat : /\ Min({x, y}) \in {x, y} /\ Min({x, y}) <= x /\ Min({x, y}) <= y
                        /\ Max({x, y}) \in {x, y} /\ Max({x, y}) >= x /\ Max({x, y}) >= y
  BY MinMaxOfTwo
<1>3. ASSUME NEW k \in Existing, NEW t \in TokensOf(k)
      PROVE  LET l == seen'[k][t].lo
                 h == seen'[k][t].hi
             IN  /\ l \in Nat /\ h \in Nat
                 /\ l * pools[k].window <= pools[k].windowSum[t]
                 /\ pools[k].windowSum[t] <= h * pools[k].window
                 /\ l <= price(k, t) /\ price(k, t) <= h
  <2>1. k \in Keys /\ burnt[k] \in Nat \ {0} /\ PoolInv(k, pools[k], burnt[k])
    BY DEF IInv, TableInv, Existing
  <2>2. /\ seen'[k][t].lo = Min({price(k, t), lo(k, t)})
        /\ seen'[k][t].hi = Max({price(k, t), hi(k, t)})
    BY <1>1
  <2> DEFINE x == price(k, t)
             m == lo(k, t)
             n == hi(k, t)
             w == pools[k].window
             sum == pools[k].windowSum[t]
             l == seen'[k][t].lo
             h == seen'[k][t].hi
  <2>3. m \in Nat /\ n \in Nat /\ m * w <= sum /\ sum <= n * w BY DEF TwapInv, WithinSeen
  <2>4. w \in Nat /\ sum \in Nat /\ x \in Nat
    <3>1. pools[k].window \in Nat \ {0} /\ pools[k].windowSum \in [TokensOf(k) -> Nat]
          /\ pools[k].reserve \in [TokensOf(k) -> Nat \ {0}]
      BY <2>1, PoolTypes
    <3>2. pools[k].reserve[t] \in Nat \ {0} /\ pools[k].reserve[Other(k, t)] \in Nat
      BY <2>1, <3>1, TokensOfKey
    <3>3. QED BY <3>1, <3>2, SpotPriceNat DEF Price
  <2>5. l = Min({x, m}) /\ h = Max({x, n}) BY <2>2
  <2> HIDE DEF x, m, n, w, sum, l, h
  <2>6. l \in Nat /\ h \in Nat /\ l <= x /\ l <= m /\ x <= h /\ n <= h
    <3>1. l \in {x, m} /\ l <= x /\ l <= m BY <1>2, <2>3, <2>4, <2>5
    <3>2. h \in {x, n} /\ h >= x /\ h >= n BY <1>2, <2>3, <2>4, <2>5
    <3>3. QED BY <2>3, <2>4, <3>1, <3>2, SMT
  <2>7. l * w <= m * w /\ n * w <= h * w BY <2>3, <2>4, <2>6, SMT
  <2>8. l * w \in Nat /\ m * w \in Nat /\ n * w \in Nat /\ h * w \in Nat
    BY <2>3, <2>4, <2>6, Products
  <2>9. l * w <= sum /\ sum <= h * w BY <2>3, <2>4, <2>7, <2>8, SMT
  <2>10. QED BY <2>6, <2>9 DEF x, w, sum, l, h
<1>4. Existing' = Existing BY <1>1 DEF Existing
<1>5. seen' = [k \in Existing' |-> seen'[k]] BY <1>1, <1>4
<1>6. ASSUME NEW k \in Existing' PROVE WithinSeen(k, pools[k], seen[k])'
  BY <1>1, <1>3, <1>4 DEF WithinSeen, TokensOf, Price, Other
<1>7. QED BY <1>5, <1>6 DEF TwapInv

LEMMA TwapStep == IInv /\ TwapInv /\ [Next]_vars => TwapInv'
<1> SUFFICES ASSUME IInv, TwapInv, [Next]_vars PROVE TwapInv' OBVIOUS
<1>1. CASE LiquidityNext
  <2>1. CASE method' # "create"
    <3>1. PoolsAged /\ IInv' BY <1>1, <2>1, LiquiditySteps
    <3>2. UNCHANGED <<now, seen>>
      <4>1. \A u, k, a, b : CreatePool(u, k, a, b) => method' = "create"
        BY DEF CreatePool, Called
      <4>2. \A u, k, a, b : AddLiquidity(u, k, a, b) => UNCHANGED <<now, seen>>
        BY DEF AddLiquidity
      <4>3. \A u, k, a, t : RemoveLiquidity(u, k, a, t) => UNCHANGED <<now, seen>>
        BY DEF RemoveLiquidity
      <4>4. \A u, k, t, a : AddLiquiditySingleToken(u, k, t, a) => UNCHANGED <<now, seen>>
        BY DEF AddLiquiditySingleToken
      <4>5. \A u, k, t, c, s : RemoveLiquiditySingleToken(u, k, t, c, s) => UNCHANGED <<now, seen>>
        BY DEF RemoveLiquiditySingleToken
      <4>6. \A u, k, taken : WithdrawCashback(u, k, taken) => UNCHANGED <<now, seen>>
        BY DEF WithdrawCashback
      <4>7. QED BY <1>1, <2>1, <4>1, <4>2, <4>3, <4>4, <4>5, <4>6 DEF LiquidityNext
    <3>3. QED BY <3>1, <3>2, AgedTwap
  <2>2. CASE method' = "create"
    BY <1>1, <2>2, CreatePoolTwap
    DEF LiquidityNext, Called, AddLiquidity, RemoveLiquidity, AddLiquiditySingleToken,
        RemoveLiquiditySingleToken, WithdrawCashback
  <2>3. QED BY <2>1, <2>2
<1>2. CASE SwapNext
  <2>1. PoolsAged BY <1>2, SwapSteps
  <2>2. UNCHANGED <<now, seen>>
    BY <1>2 DEF SwapNext, SwapExactTokensForTokens, SwapTokensForExactTokens,
                SwapExactTokensForTokensThroughPath, SwapTokensForExactTokensThroughPath
  <2>3. QED BY <2>1, <2>2, AgedTwap
<1>3. CASE OwnerNext
  <2>1. PICK u \in Addresses :
          \/ \E fee \in ProtocolFees : ChangeProtocolFee(u, fee)
          \/ \E w \in NewWindows : UpdateDefaultTwapWindow(u, w)
          \/ \E k \in Keys, w \in NewWindows : UpdatePoolTwapWindow(u, k, w)
          \/ \E v \in Addresses : ChangeOwner(u, v)
          \/ \E t \in Tokens, a \in Slacks \ {0} : ReplenishFunds(u, t, a)
    BY <1>3 DEF OwnerNext
  <2>2. CASE \E k \in Keys, w \in NewWindows : UpdatePoolTwapWindow(u, k, w)
    BY <2>2, UpdateWindowTwap
  <2>3. CASE ~ \E k \in Keys, w \in NewWindows : UpdatePoolTwapWindow(u, k, w)
    <3>1. UNCHANGED <<pools, now, seen>>
      BY <2>1, <2>3 DEF ChangeProtocolFee, UpdateDefaultTwapWindow, ChangeOwner,
                        ReplenishFunds, Admin
    <3>2. QED BY <3>1, SameWithin
  <2>4. QED BY <2>2, <2>3
<1>4. CASE ListingNext
  <2>1. UNCHANGED <<pools, now, seen>>
    BY <1>4 DEF ListingNext, Admin, AddAuthorizedSigner, RemoveAuthorizedSigner,
                InitializeReservedPools, ReservePoolCreation, ReleasePoolReservation,
                SignPool, UnsignPool, Pause, Unpause
  <2>2. QED BY <2>1, SameWithin
<1>5. CASE Tick BY <1>5, TickTwap
<1>6. CASE UNCHANGED vars BY <1>6, SameWithin DEF vars
<1>7. QED BY <1>1, <1>2, <1>3, <1>4, <1>5, <1>6 DEF Next

(* No call changes the average price of a pool within its block: it stays  *)
(* within the prices that held when a block ended or the window restarted. *)
THEOREM TwapAlwaysIgnoresTheBlock == Spec => []TwapIgnoresTheBlock
<1>1. Init => TwapInv BY DEF Init, TwapInv, Existing
<1>2. IInv /\ TwapInv => TwapIgnoresTheBlock
  <2> SUFFICES ASSUME IInv, TwapInv, NEW k \in Existing, NEW t \in TokensOf(k)
               PROVE  /\ pools[k].windowSum[t] >= seen[k][t].lo * pools[k].window
                      /\ pools[k].windowSum[t] <= seen[k][t].hi * pools[k].window
    BY DEF TwapIgnoresTheBlock
  <2> DEFINE w == pools[k].window
             sum == pools[k].windowSum[t]
             lo == seen[k][t].lo
  <2>1. k \in Keys /\ burnt[k] \in Nat \ {0} /\ PoolInv(k, pools[k], burnt[k])
    BY DEF IInv, TableInv, Existing
  <2>2. w \in Nat /\ sum \in Nat BY <2>1, PoolTypes
  <2>3. /\ lo \in Nat /\ lo * w <= sum
        /\ pools[k].windowSum[t] <= seen[k][t].hi * pools[k].window
    BY DEF TwapInv, WithinSeen
  <2> HIDE DEF w, sum, lo
  <2>4. lo * w \in Nat BY <2>2, <2>3, Products
  <2>5. sum >= lo * w BY <2>2, <2>3, <2>4, SMT
  <2>6. QED BY <2>3, <2>5 DEF w, sum, lo
<1>3. QED BY <1>1, <1>2, AlwaysIInv, TwapStep, PTL DEF Spec

-----------------------------------------------------------------------------
(* The administrative record keeps its fields, and its owner is a signer.  *)
SignerInv ==
  /\ DOMAIN admin = {"owner", "protocolFee", "paused", "signers", "reserved",
                     "poolSigners", "defaultWindow"}
  /\ OwnerCanSign

LEMMA SignerStart == Init => SignerInv
BY DEF Init, FirstAdmin, SignerInv, OwnerCanSign

(* What the owner and the signers may do keeps the owner a signer: only a  *)
(* change of owner and a removal take a signer away. *)
LEMMA SignerStep == SignerInv /\ [Next]_vars => SignerInv'
<1> SUFFICES ASSUME SignerInv, [Next]_vars PROVE SignerInv' OBVIOUS
<1> USE DEF SignerInv, OwnerCanSign
<1>1. ASSUME UNCHANGED admin PROVE SignerInv' BY <1>1
<1>2. CASE LiquidityNext
  <2>1. ASSUME NEW u \in Addresses, NEW k \in Keys, NEW a, NEW b, CreatePool(u, k, a, b)
        PROVE  UNCHANGED admin
    BY <2>1 DEF CreatePool
  <2>2. ASSUME NEW u \in Addresses, NEW k \in Keys, NEW a, NEW b,
               AddLiquidity(u, k, a, b) \/ RemoveLiquidity(u, k, a, b)
        PROVE  UNCHANGED admin
    BY <2>2 DEF AddLiquidity, RemoveLiquidity
  <2>3. ASSUME NEW u \in Addresses, NEW k \in Keys, NEW t, NEW a, NEW s,
               AddLiquiditySingleToken(u, k, t, a) \/ RemoveLiquiditySingleToken(u, k, t, a, s)
        PROVE  UNCHANGED admin
    BY <2>3 DEF AddLiquiditySingleToken, RemoveLiquiditySingleToken
  <2>4. ASSUME NEW u \in Addresses, NEW k \in Keys, NEW taken, WithdrawCashback(u, k, taken)
        PROVE  UNCHANGED admin
    BY <2>4 DEF WithdrawCashback
  <2>5. UNCHANGED admin BY <1>2, <2>1, <2>2, <2>3, <2>4 DEF LiquidityNext
  <2>6. QED BY <1>1, <2>5
<1>3. CASE SwapNext
  <2>1. UNCHANGED admin
    BY <1>3 DEF SwapNext, SwapExactTokensForTokens, SwapTokensForExactTokens,
                SwapExactTokensForTokensThroughPath, SwapTokensForExactTokensThroughPath
  <2>2. QED BY <1>1, <2>1
<1>4. CASE OwnerNext
  <2>1. ASSUME NEW u \in Addresses, NEW fee \in ProtocolFees, ChangeProtocolFee(u, fee)
        PROVE  SignerInv'
    BY <2>1 DEF ChangeProtocolFee, Admin
  <2>2. ASSUME NEW u \in Addresses, NEW w \in NewWindows, UpdateDefaultTwapWindow(u, w)
        PROVE  SignerInv'
    BY <2>2 DEF UpdateDefaultTwapWindow, Admin
  <2>3. ASSUME NEW u \in Addresses, NEW k \in Keys, NEW w \in NewWindows,
               UpdatePoolTwapWindow(u, k, w)
        PROVE  SignerInv'
    BY <1>1, <2>3 DEF UpdatePoolTwapWindow
  <2>4. ASSUME NEW u \in Addresses, NEW v \in Addresses, ChangeOwner(u, v)
        PROVE  SignerInv'
    BY <2>4 DEF ChangeOwner, Admin
  <2>5. ASSUME NEW u \in Addresses, NEW t \in Tokens, NEW a \in Slacks \ {0},
               ReplenishFunds(u, t, a)
        PROVE  SignerInv'
    BY <1>1, <2>5 DEF ReplenishFunds
  <2>6. QED BY <1>4, <2>1, <2>2, <2>3, <2>4, <2>5 DEF OwnerNext
<1>5. CASE ListingNext
  <2>1. ASSUME NEW u \in Addresses, NEW v \in Addresses, AddAuthorizedSigner(u, v)
        PROVE  SignerInv'
    BY <2>1 DEF AddAuthorizedSigner, Admin
  <2>2. ASSUME NEW u \in Addresses, NEW v \in Addresses, RemoveAuthorizedSigner(u, v)
        PROVE  SignerInv'
    BY <2>2 DEF RemoveAuthorizedSigner, Admin
  <2>3. ASSUME NEW u \in Addresses, InitializeReservedPools(u) PROVE SignerInv'
    BY <2>3 DEF InitializeReservedPools, Admin
  <2>4. ASSUME NEW u \in Addresses, NEW t \in Tokens,
               ReservePoolCreation(u, t) \/ ReleasePoolReservation(u, t)
        PROVE  SignerInv'
    BY <2>4 DEF ReservePoolCreation, ReleasePoolReservation, Admin
  <2>5. ASSUME NEW u \in Addresses, NEW k \in Keys, SignPool(u, k) \/ UnsignPool(u, k)
        PROVE  SignerInv'
    BY <2>5 DEF SignPool, UnsignPool, Admin
  <2>6. ASSUME NEW u \in Addresses, Pause(u) \/ Unpause(u) PROVE SignerInv'
    BY <2>6 DEF Pause, Unpause, Admin
  <2>7. QED BY <1>5, <2>1, <2>2, <2>3, <2>4, <2>5, <2>6 DEF ListingNext
<1>6. CASE Tick BY <1>1, <1>6 DEF Tick
<1>7. CASE UNCHANGED vars BY <1>1, <1>7 DEF vars
<1>8. QED BY <1>2, <1>3, <1>4, <1>5, <1>6, <1>7 DEF Next

(* In every reachable state the owner is an authorized signer, for any     *)
(* sequence of calls (change_owner, remove_authorized_signer). *)
THEOREM OwnerCanAlwaysSign == Spec => []OwnerCanSign
<1>1. SignerInv => OwnerCanSign BY DEF SignerInv
<1>2. QED BY SignerStart, SignerStep, <1>1, PTL DEF Spec

-----------------------------------------------------------------------------
(* What a deposit in one token swaps.  The formula swaps so little that    *)
(* the rest is always enough to take all of the output into the pool.      *)

LEMMA Cancel ==
  ASSUME NEW x \in Int, NEW y \in Int, NEW c \in Nat \ {0}, x * c <= y * c
  PROVE  x <= y
BY SMT

LEMMA Grow ==
  ASSUME NEW x \in Int, NEW y \in Int, NEW c \in Nat, x <= y
  PROVE  x * c <= y * c /\ x * c \in Int /\ y * c \in Int
BY SMT

\* base is r * FeeDenominator, and w what of s remains after the fee.
LEMMA OptimalSwapRoot ==
  ASSUME NEW amount \in Nat, NEW r \in Nat \ {0}, NEW fee \in 0 .. (FeeDenominator - 1),
         NEW s, s = OptimalSwapAmount(amount, r, fee),
         NEW base, base = r * FeeDenominator, NEW w, w = s * (FeeDenominator - fee)
  PROVE  /\ s \in Nat /\ base \in Nat \ {0} /\ w \in Nat
         /\ s * (2 * base + w) <= amount * base
<1>1. FeeDenominator \in Nat \ {0} BY DozerMathAssumption
<1>2. PICK F \in Nat \ {0}, net \in Nat \ {0} : F = FeeDenominator /\ net = F - fee
  BY <1>1, SMT
<1>3. s \in Nat BY OptimalSwapNat
<1>4. base \in Nat \ {0} /\ w \in Nat /\ base = r * F /\ w = s * net BY <1>2, <1>3, SMT
<1>5. s * (2 * base + w) \in Int /\ amount * base \in Nat BY <1>3, <1>4, SMT
<1>6. PICK root : root = Isqrt(r * (r * F * F + amount * F * net)) OBVIOUS
<1>7. s = IF net <= 0 \/ amount = 0 \/ root - base <= 0 THEN 0 ELSE (root - base) \div net
  BY <1>2, <1>4, <1>6 DEF OptimalSwapAmount
<1>8. CASE s = 0
  <2>1. PICK x \in Nat, y \in Nat : x = 2 * base + w /\ y = amount * base BY <1>4, <1>5
  <2>2. 0 * x = 0 BY SMT
  <2>3. s * (2 * base + w) <= amount * base BY ONLY <1>8, <2>1, <2>2
  <2>4. QED BY <1>3, <1>4, <2>3
<1>9. CASE s # 0
  <2>1. ~ (root - base <= 0) /\ s = (root - base) \div net BY <1>7, <1>9
  <2>2. PICK n \in Nat : n = r * (r * F * F + amount * F * net)
    <3>1. r * F * F \in Nat /\ amount * F * net \in Nat
      <4>1. r * F \in Nat /\ amount * F \in Nat BY Products
      <4>2. QED BY <4>1, Products
    <3>2. r * F * F + amount * F * net \in Nat BY <3>1
    <3>3. QED BY <3>2, Products
  <2>3. root \in Nat /\ root * root <= n
    <3>1. IsRoot(root, n) BY <1>6, <2>2, IsqrtIsRoot
    <3>2. QED BY <3>1 DEF IsRoot
  <2>4. n = base * base + (amount * base) * net
    <3>1. r * (r * F * F + amount * F * net) = (r * F) * (r * F) + (amount * (r * F)) * net
      BY SMT
    <3>2. QED BY <1>4, <2>2, <3>1
  <2>5. PICK rest \in Nat : rest = root - base BY <1>4, <2>1, <2>3
  <2>6. w <= rest BY <1>4, <2>1, <2>5, FloorBounds
  <2>7. rest * (2 * base + rest) <= (amount * base) * net
    <3>1. root = base + rest BY <1>4, <2>3, <2>5
    <3>2. (base + rest) * (base + rest) = base * base + rest * (2 * base + rest)
      BY <1>4, SMT
    <3>3. /\ base * base \in Int /\ rest * (2 * base + rest) \in Int
          /\ (amount * base) * net \in Int
      BY <1>4, SMT
    <3>4. QED BY <2>3, <2>4, <3>1, <3>2, <3>3
  <2>8. w * (2 * base + w) <= rest * (2 * base + rest)
    <3>1. PICK x \in Nat, y \in Nat : x = 2 * base + w /\ y = 2 * base + rest BY <1>4
    <3>2. x <= y BY <1>4, <2>6, <3>1
    <3>3. w * x <= rest * x BY <1>4, <2>6, Grow
    <3>4. x * rest <= y * rest BY <3>2, Grow
    <3>5. w * x \in Int /\ rest * x \in Int /\ x * rest = rest * x /\ y * rest = rest * y
          /\ rest * y \in Int
      BY <1>4, SMT
    <3>6. QED BY <3>1, <3>3, <3>4, <3>5
  <2>9. w * (2 * base + w) = (s * (2 * base + w)) * net BY <1>3, <1>4, SMT
  <2>10. /\ w * (2 * base + w) \in Int /\ rest * (2 * base + rest) \in Int
         /\ (amount * base) * net \in Int
    BY <1>4, SMT
  <2>11. (s * (2 * base + w)) * net <= (amount * base) * net BY <2>7, <2>8, <2>9, <2>10
  <2>12. QED BY <1>3, <1>4, <1>5, <2>11, Cancel
<1>10. QED BY <1>3, <1>4, <1>8, <1>9

\* With o of the other token in the pool, out of it swapped and rest left.
LEMMA OutputFits ==
  ASSUME NEW amount \in Nat, NEW r \in Nat \ {0}, NEW o \in Nat \ {0},
         NEW fee \in 0 .. (FeeDenominator - 1),
         NEW s, s = OptimalSwapAmount(amount, r, fee), NEW out, out = AmountOut(s, r, o, fee)
  PROVE  /\ s \in Nat /\ 2 * s <= amount
         /\ out \in 0 .. (o - 1)
         /\ out * (r + s) <= (o - out) * (amount - s)
<1>1. PICK base : base = r * FeeDenominator OBVIOUS
<1>2. PICK w : w = s * (FeeDenominator - fee) OBVIOUS
<1>3. /\ s \in Nat /\ base \in Nat \ {0} /\ w \in Nat
      /\ s * (2 * base + w) <= amount * base
  BY <1>1, <1>2, OptimalSwapRoot
<1>4. /\ s * (2 * base + w) = (2 * s) * base + s * w
      /\ s * (2 * base + w) = s * base + (s * base + s * w)
      /\ amount * base = s * base + (amount - s) * base
      /\ s * w \in Nat /\ s * base \in Int /\ (amount - s) * base \in Int
      /\ (2 * s) * base \in Int /\ amount * base \in Int
  BY <1>3, SMT
<1>5. 2 * s <= amount
  <2>1. (2 * s) * base <= amount * base BY <1>3, <1>4
  <2>2. QED BY <1>3, <2>1, Cancel
<1>6. s * base + s * w <= (amount - s) * base BY <1>3, <1>4
<1>7. w * (r + s) <= (amount - s) * base
  <2>1. w <= s * FeeDenominator
    <3>1. FeeDenominator \in Nat \ {0} BY DozerMathAssumption
    <3>2. PICK F \in Nat, net \in Nat : F = FeeDenominator /\ net = F - fee /\ net <= F
      BY <3>1, SMT
    <3>3. net * s <= F * s BY <1>3, <3>2, Grow
    <3>4. net * s = s * net /\ F * s = s * F BY <1>3, SMT
    <3>5. QED BY <1>2, <3>2, <3>3, <3>4
  <2>2. w * r <= (s * FeeDenominator) * r
    <3>1. s * FeeDenominator \in Int BY <1>3, DozerMathAssumption, SMT
    <3>2. QED BY <1>3, <2>1, <3>1, Grow
  <2>3. (s * FeeDenominator) * r = s * base BY <1>1, <1>3, DozerMathAssumption, SMT
  <2>4. w * (r + s) = w * r + s * w /\ w * r \in Int BY <1>3, SMT
  <2>5. QED BY <1>4, <1>6, <2>2, <2>3, <2>4
<1>8. out \in 0 .. (o - 1) BY <1>3, AmountOutIsOnCurve
<1>9. out * base <= (o - out) * w
  <2>1. out = (o * w) \div (base + w) BY <1>1, <1>2 DEF AmountOut
  <2>2. PICK d \in Nat \ {0} : d = base + w BY <1>3
  <2>3. o * w \in Nat BY <1>3, Products
  <2>4. out * d <= o * w BY <2>1, <2>2, <2>3, FloorBounds
  <2>5. out \in Nat BY <1>8, SMT
  <2>6. out * d = out * base + out * w /\ (o - out) * w = o * w - out * w
    BY <1>3, <2>2, <2>5, SMT
  <2>7. out * base \in Int /\ out * w \in Int BY <1>3, <2>5, SMT
  <2>8. QED BY <2>3, <2>4, <2>6, <2>7
<1>10. PICK x \in Nat, y \in Nat, z \in Nat : x = out /\ y = o - out /\ z = amount - s
  BY <1>3, <1>5, <1>8, SMT
<1>11. (x * (r + s)) * base <= (y * z) * base
  <2>1. (x * base) * (r + s) <= (y * w) * (r + s)
    <3>1. x * base \in Int /\ y * w \in Int /\ r + s \in Nat BY <1>3, SMT
    <3>2. x * base <= y * w BY <1>9, <1>10
    <3>3. QED BY <3>1, <3>2, Grow
  <2>2. (w * (r + s)) * y <= (z * base) * y
    <3>1. w * (r + s) \in Int /\ z * base \in Int BY <1>3, SMT
    <3>2. w * (r + s) <= z * base BY <1>7, <1>10
    <3>3. QED BY <3>1, <3>2, Grow
  <2>3. /\ (x * base) * (r + s) = (x * (r + s)) * base
        /\ (y * w) * (r + s) = (w * (r + s)) * y
        /\ (z * base) * y = (y * z) * base
    BY <1>3, SMT
  <2>4. /\ (x * (r + s)) * base \in Int /\ (w * (r + s)) * y \in Int /\ (y * z) * base \in Int
    BY <1>3, SMT
  <2>5. QED BY <2>1, <2>2, <2>3, <2>4
<1>12. x * (r + s) <= y * z
  <2>1. x * (r + s) \in Int /\ y * z \in Int BY <1>3, SMT
  <2>2. QED BY <1>3, <1>11, <2>1, Cancel
<1>13. QED BY <1>3, <1>5, <1>8, <1>10, <1>12

\* A quote is at least, or at most, what the products say.
LEMMA QuoteAtLeast ==
  ASSUME NEW x \in Nat, NEW y \in Nat, NEW a \in Nat \ {0}, NEW b \in Nat, y * a <= x * b
  PROVE  Quote(x, a, b) \in Nat /\ y <= Quote(x, a, b)
<1>1. x * b \in Nat BY Products
<1>2. PICK q : q = (x * b) \div a OBVIOUS
<1>3. q \in Nat /\ x * b < (q + 1) * a BY <1>1, <1>2, FloorBounds
<1>4. y <= q
  <2>1. SUFFICES ASSUME q + 1 <= y PROVE FALSE BY <1>3
  <2>2. (q + 1) * a <= y * a BY <1>3, <2>1, Grow
  <2>3. (q + 1) * a \in Int /\ y * a \in Int BY <1>3, SMT
  <2>4. QED BY <1>1, <1>3, <2>2, <2>3
<1>5. QED BY <1>2, <1>3, <1>4 DEF Quote

LEMMA QuoteAtMost ==
  ASSUME NEW x \in Nat, NEW y \in Nat, NEW a \in Nat \ {0}, NEW b \in Nat, x * b <= y * a
  PROVE  Quote(x, a, b) \in Nat /\ Quote(x, a, b) <= y
<1>1. x * b \in Nat BY Products
<1>2. PICK q : q = (x * b) \div a OBVIOUS
<1>3. q \in Nat /\ q * a <= x * b BY <1>1, <1>2, FloorBounds
<1>4. q * a <= y * a
  <2>1. q * a \in Int /\ y * a \in Int BY <1>3, SMT
  <2>2. QED BY <1>1, <1>3, <2>1
<1>5. q <= y BY <1>3, <1>4, Cancel
<1>6. QED BY <1>2, <1>3, <1>5 DEF Quote

(* A deposit in one token swaps at most half of it, so the method's check  *)
(* of that amount never refuses a call, and all of the swap's output       *)
(* enters the pool: what the caller gets back as change is only of the     *)
(* token that was deposited (_calculate_optimal_swap_amount,               *)
(* _compute_add_liquidity_single_token). *)
THEOREM SingleTokenChange ==
  ASSUME NEW k \in Keys, Fee(k) <= MaxFee, NEW p \in PoolRecords(k), NEW t \in TokensOf(k),
         NEW amount \in Nat
  PROVE  LET result == AddSingleResult(k, p, t, amount)
         IN  /\ 2 * result.swapIn <= amount
             /\ IF t = k[1] THEN result.excessA \in Nat /\ result.excessB = 0
                            ELSE result.excessB \in Nat /\ result.excessA = 0
<1> DEFINE swapIn   == OptimalSwapAmount(amount, p.reserve[t], Fee(k))
           swapOut  == OutOf(k, p, t, swapIn)
           swapped  == IF swapIn = 0 THEN p ELSE Exchanged(k, p, t, swapIn, swapOut)
           ra       == swapped.reserve[k[1]]
           rb       == swapped.reserve[k[2]]
           a        == IF t = k[1] THEN amount - swapIn ELSE swapOut
           b        == IF t = k[1] THEN swapOut ELSE amount - swapIn
           backB    == Quote(a, ra, rb)
           backA    == Quote(b, rb, ra)
           byA      == backB <= b
           usedA    == IF byA THEN a ELSE backA
           usedB    == IF byA THEN backB ELSE b
           excessA  == a - usedA
           excessB  == b - usedB
           result   == AddSingleResult(k, p, t, amount)
           s        == Other(k, t)
<1>1. PICK r \in Nat \ {0}, o \in Nat \ {0} : r = p.reserve[t] /\ o = p.reserve[s]
  BY TokensOfKey DEF PoolRecords
<1>2. Fee(k) \in 0 .. (FeeDenominator - 1) BY FeeBelow
<1>3. /\ swapIn \in Nat /\ 2 * swapIn <= amount /\ swapOut \in 0 .. (o - 1)
      /\ swapOut * (r + swapIn) <= (o - swapOut) * (amount - swapIn)
  <2>1. swapIn = OptimalSwapAmount(amount, r, Fee(k)) BY <1>1
  <2>2. swapOut = AmountOut(swapIn, r, o, Fee(k)) BY <1>1 DEF OutOf
  <2> HIDE DEF swapIn, swapOut
  <2>3. QED BY <1>2, <2>1, <2>2, OutputFits
<1>4. result.swapIn = swapIn /\ result.excessA = excessA /\ result.excessB = excessB
  BY DEF AddSingleResult
<1> HIDE DEF result
<1>5. s \in TokensOf(k) /\ s # t /\ k[1] # k[2]
      /\ (t = k[1] => s = k[2]) /\ (t # k[1] => t = k[2] /\ s = k[1])
  BY TokensOfKey DEF TokensOf, Other
<1>6. swapIn = 0 => swapOut = 0
  <2>1. Fee(k) \in Int /\ FeeDenominator \in Nat \ {0} BY <1>2, DozerMathAssumption, SMT
  <2>2. 0 * (FeeDenominator - Fee(k)) = 0 /\ r * FeeDenominator \in Nat \ {0} BY <2>1, SMT
  <2>3. AmountOut(0, r, o, Fee(k)) = (o * 0) \div (r * FeeDenominator + 0)
    BY <2>2 DEF AmountOut
  <2>4. PICK d \in Nat \ {0} : d = r * FeeDenominator + 0 BY <2>2
  <2>5. (o * 0) \div d = 0 BY SMT
  <2> HIDE DEF swapIn
  <2>6. QED BY <1>1, <2>3, <2>4, <2>5 DEF OutOf
<1> HIDE DEF swapIn, swapOut, s
<1>7. swapped.reserve[t] = r + swapIn /\ swapped.reserve[s] = o - swapOut
  <2>1. CASE swapIn = 0 BY <1>1, <1>6, <2>1
  <2>2. CASE swapIn # 0
    <3>1. PICK minted : minted = WithLiquidity(p, admin.owner, ProtocolMint(k, p, t, swapIn))
      OBVIOUS
    <3>2. swapped = [minted EXCEPT !.reserve =
                       [x \in TokensOf(k) |-> IF x = t THEN p.reserve[x] + swapIn
                                              ELSE p.reserve[x] - swapOut]]
      BY <2>2, <3>1 DEF Exchanged
    <3>3. DOMAIN minted = DOMAIN p BY <3>1 DEF WithLiquidity
    <3>4. "reserve" \in DOMAIN p BY DEF PoolRecords
    <3> HIDE DEF swapped
    <3>5. swapped.reserve = [x \in TokensOf(k) |-> IF x = t THEN p.reserve[x] + swapIn
                                                   ELSE p.reserve[x] - swapOut]
      BY <3>2, <3>3, <3>4
    <3>6. QED BY <1>1, <1>5, <3>5
  <2>3. QED BY <2>1, <2>2
<1> HIDE DEF swapped
<1>8. PICK rest \in Nat, left \in Nat \ {0}, full \in Nat \ {0}, out \in Nat :
        rest = amount - swapIn /\ left = o - swapOut /\ full = r + swapIn /\ out = swapOut
  BY <1>3, SMT
<1>9. out * full <= rest * left
  <2>1. out * full <= left * rest BY <1>3, <1>8
  <2>2. left * rest = rest * left BY SMT
  <2>3. QED BY <2>1, <2>2
<1>10. CASE t = k[1]
  <2>1. ra = full /\ rb = left /\ a = rest /\ b = out BY <1>5, <1>7, <1>8, <1>10
  <2>2. backB \in Nat /\ out <= backB BY <1>9, <2>1, QuoteAtLeast
  <2>3. backA \in Nat /\ backA <= rest BY <1>9, <2>1, QuoteAtMost
  <2> HIDE DEF a, b, backA, backB
  <2>4. excessA \in Nat /\ excessB = 0 BY <2>1, <2>2, <2>3
  <2>5. QED BY <1>3, <1>4, <1>10, <2>4 DEF result
<1>11. CASE t # k[1]
  <2>1. ra = left /\ rb = full /\ a = out /\ b = rest BY <1>5, <1>7, <1>8, <1>11
  <2>2. backB \in Nat /\ backB <= rest BY <1>9, <2>1, QuoteAtMost
  <2> HIDE DEF a, b, backA, backB
  <2>3. excessB \in Nat /\ excessA = 0 BY <2>1, <2>2
  <2>4. QED BY <1>3, <1>4, <1>11, <2>3 DEF result
<1>12. QED BY <1>10, <1>11 DEF result

-----------------------------------------------------------------------------
(* The ratio check.  Rounding a quote down moves the ratio by less than    *)
(* one unit of the quoted token, which is within the tolerance as soon as  *)
(* 200 units of each are in the pool.                                      *)

\* The inverse of what is tolerated, which is at most what is in the pool.
Tolerated(least) == IF least < 1000 THEN 200 ELSE IF least < 10000 THEN 500 ELSE 10000

LEMMA RatioByDifference ==
  ASSUME NEW a \in Nat, NEW b \in Nat, NEW x \in Nat, NEW y \in Nat,
         x >= 200, y >= 200,
         NEW d \in Nat, d < a, a * y - x * b = d \/ x * b - a * y = d
  PROVE  PriceRatioKept(a, b, x, y) /\ PriceRatioKept(b, a, y, x)
<1> DEFINE before  == a * y
           after   == x * b
           larger  == IF before >= after THEN before ELSE after
           smaller == IF before >= after THEN after ELSE before
           least   == IF x <= y THEN x ELSE y
<1>1. before \in Nat /\ after \in Nat BY Products
<1>2. y * a = before /\ b * x = after BY SMT
<1>3. least \in Nat /\ 200 <= least /\ least <= y OBVIOUS
<1>4. Tolerated(least) \in Nat /\ Tolerated(least) <= least BY <1>3 DEF Tolerated
<1> HIDE DEF least
<1>5. larger - smaller = d /\ larger >= before /\ larger \in Nat
  <2> HIDE DEF before, after
  <2>1. before - after = d \/ after - before = d BY DEF before, after
  <2>2. QED BY <1>1, <2>1
<1>6. d * Tolerated(least) <= larger
  <2>1. PICK i \in Nat : i = Tolerated(least) /\ i <= y BY <1>3, <1>4
  <2>2. d * i <= a * i BY <2>1, Grow
  <2>3. i * a <= y * a BY <2>1, Grow
  <2>4. d * i \in Int /\ a * i = i * a /\ i * a \in Int BY <2>1, SMT
  <2> HIDE DEF larger, before
  <2>5. QED BY <1>1, <1>2, <1>5, <2>1, <2>2, <2>3, <2>4
<1>7. PriceRatioKept(a, b, x, y) <=> (larger - smaller) * Tolerated(least) <= larger
  BY DEF PriceRatioKept, Tolerated, least
<1>8. PriceRatioKept(b, a, y, x) <=> d * Tolerated(least) <= larger
  <2> DEFINE larger2  == IF after >= before THEN after ELSE before
             smaller2 == IF after >= before THEN before ELSE after
             least2   == IF y <= x THEN y ELSE x
  <2>1. PriceRatioKept(b, a, y, x) <=> (larger2 - smaller2) * Tolerated(least2) <= larger2
    BY <1>2 DEF PriceRatioKept, Tolerated
  <2>2. least2 = least BY DEF least
  <2> HIDE DEF least2, before, after
  <2>3. larger2 = larger /\ smaller2 = smaller BY <1>1
  <2>4. QED BY <1>5, <2>1, <2>2, <2>3
<1>9. QED BY <1>5, <1>6, <1>7, <1>8

(* Adding or removing both tokens in proportion, one of them quoted and    *)
(* rounded down, passes the ratio check whenever 200 units of each are in  *)
(* the pool afterwards; only a smaller pool can refuse it                  *)
(* (_check_price_ratio, whose tolerance is for that rounding). *)
THEOREM ProportionIsAdmitted ==
  ASSUME NEW a \in Nat \ {0}, NEW b \in Nat \ {0}, NEW x \in Nat, NEW y, y = Quote(x, a, b)
  PROVE  /\ a + x >= 200 /\ b + y >= 200 =>
              /\ PriceRatioKept(a, b, a + x, b + y)
              /\ PriceRatioKept(b, a, b + y, a + x)
         /\ a - x >= 200 /\ b - y >= 200 =>
              /\ PriceRatioKept(a, b, a - x, b - y)
              /\ PriceRatioKept(b, a, b - y, a - x)
<1>1. x * b \in Nat BY Products
<1>2. y \in Nat /\ y * a <= x * b /\ x * b < (y + 1) * a BY <1>1, FloorBounds DEF Quote
<1>3. PICK d \in Nat : d = x * b - y * a /\ d < a
  <2>1. (y + 1) * a = y * a + a /\ y * a \in Nat BY <1>2, SMT
  <2>2. QED BY <1>1, <1>2, <2>1
<1>4. ASSUME a + x >= 200, b + y >= 200
      PROVE  PriceRatioKept(a, b, a + x, b + y) /\ PriceRatioKept(b, a, b + y, a + x)
  <2>1. a + x \in Nat /\ b + y \in Nat BY <1>2
  <2>2. PICK p \in Nat, q \in Nat : p = a + x /\ q = b + y BY ONLY <2>1
  <2>3. p * b = a * b + x * b /\ a * q = a * b + y * a /\ a * b \in Int /\ y * a \in Int
    <3>1. (a + x) * b = a * b + x * b /\ a * (b + y) = a * b + y * a BY <1>2, SMT
    <3>2. a * b \in Int /\ y * a \in Int BY <1>2, SMT
    <3>3. QED BY <2>2, <3>1, <3>2
  <2>4. p * b - a * q = d BY <1>1, <1>3, <2>3
  <2>5. p >= 200 /\ q >= 200 BY <1>4, <2>2
  <2>6. PriceRatioKept(a, b, p, q) /\ PriceRatioKept(b, a, q, p)
    BY <1>3, <2>4, <2>5, RatioByDifference
  <2>7. QED BY <2>2, <2>6
<1>5. ASSUME a - x >= 200, b - y >= 200
      PROVE  PriceRatioKept(a, b, a - x, b - y) /\ PriceRatioKept(b, a, b - y, a - x)
  <2>1. a - x \in Nat /\ b - y \in Nat BY <1>2, <1>5
  <2>2. PICK p \in Nat, q \in Nat : p = a - x /\ q = b - y BY ONLY <2>1
  <2>3. p * b = a * b - x * b /\ a * q = a * b - y * a /\ a * b \in Int /\ y * a \in Int
    <3>1. (a - x) * b = a * b - x * b /\ a * (b - y) = a * b - y * a BY <1>2, SMT
    <3>2. a * b \in Int /\ y * a \in Int BY <1>2, SMT
    <3>3. QED BY <2>2, <3>1, <3>2
  <2>4. a * q - p * b = d BY <1>1, <1>3, <2>3
  <2>5. p >= 200 /\ q >= 200 BY <1>5, <2>2
  <2>6. PriceRatioKept(a, b, p, q) /\ PriceRatioKept(b, a, q, p)
    BY <1>3, <2>4, <2>5, RatioByDifference
  <2>7. QED BY <2>2, <2>6
<1>6. QED BY <1>4, <1>5

-----------------------------------------------------------------------------
(* What the owner's part of a fee costs the providers.                     *)

(* The liquidity minted for a protocol fee of f, as a part of the root of  *)
(* the product of the reserves, is at most half of what f is of its        *)
(* reserve, and one unit of the root: rounding a fee up to 1 can never     *)
(* mint more (_get_protocol_liquidity_increase). *)
THEOREM OwnerMintIsBounded ==
  ASSUME NEW f \in Nat, NEW r \in Nat, NEW o \in Nat
  PROVE  LET root == Isqrt(r * o)
         IN  /\ LiquidityIncrease(f, r, o) \in Nat
             /\ 2 * root * LiquidityIncrease(f, r, o) <= (f * o + 2 * root) * Precision
<1>1. PICK n \in Nat, m \in Nat, g \in Nat : n = r * o /\ m = (r + f) * o /\ g = f * o
  <2>1. r * o \in Nat /\ (r + f) * o \in Nat /\ f * o \in Nat BY Products
  <2>2. QED BY <2>1
<1>2. m = n + g BY <1>1, SMT
<1>3. PICK x : x = Isqrt(n) OBVIOUS
<1>4. PICK y : y = Isqrt(m) OBVIOUS
<1>5. /\ x \in Nat /\ y \in Nat /\ x <= y
      /\ y * y <= m /\ n < (x + 1) * (x + 1)
  <2>1. n <= m BY <1>2
  <2>2. IsRoot(x, n) /\ IsRoot(y, m) BY <1>3, <1>4, IsqrtIsRoot
  <2>3. x <= y BY <1>3, <1>4, <2>1, IsqrtMonotone
  <2>4. QED BY <2>2, <2>3 DEF IsRoot
<1>6. PICK d \in Nat : d = y - x BY <1>5
<1>7. (2 * x) * d <= g + 2 * x
  <2>1. y = x + d BY <1>5, <1>6
  <2>2. y * y = x * x + (2 * x) * d + d * d BY <1>5, <2>1, SMT
  <2>3. (x + 1) * (x + 1) = x * x + 2 * x + 1 BY <1>5, SMT
  <2>4. x * x \in Nat /\ (2 * x) * d \in Nat /\ d * d \in Nat BY <1>5, SMT
  <2>5. QED BY <1>2, <1>5, <2>2, <2>3, <2>4
<1>8. PICK P \in Nat : P = Precision BY DozerMathAssumption
<1>9. LiquidityIncrease(f, r, o) = d * P
  BY <1>1, <1>3, <1>4, <1>6, <1>8 DEF LiquidityIncrease
<1>10. d * P \in Nat BY Products
<1>11. ((2 * x) * d) * P <= (g + 2 * x) * P
  <2>1. (2 * x) * d \in Int /\ g + 2 * x \in Int BY <1>5, SMT
  <2>2. QED BY <1>7, <2>1, Grow
<1>12. ((2 * x) * d) * P = 2 * x * (d * P) BY <1>5, SMT
<1>13. QED BY <1>1, <1>3, <1>8, <1>9, <1>10, <1>11, <1>12

=============================================================================
