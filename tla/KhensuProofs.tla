---------------------------- MODULE KhensuProofs -----------------------------
(***************************************************************************)
(* Proofs about Khensu, for every set of users, tokens, curves and rates.  *)
(*                                                                         *)
(*   Arithmetic   quotients rounded down or up are the greatest or the     *)
(*                least number on their side.                              *)
(*   The curve    with D = Slope(k, n) and E = Slope(k, n + T), a pool     *)
(*                that covers n tokens (P * D >= n * b), plus HTR that     *)
(*                pays for T more (H * D * E >= T * a * b), covers n + T;  *)
(*                a sale rounds down and leaves a pool that covers the     *)
(*                rest.  A pool that covers n tokens is at least           *)
(*                HtrOnCurve(k, n), so _correct_curve_deviation leaves     *)
(*                exactly that much.                                       *)
(*   Graduation   where four fifths of the supply are out, D <= 4 * S * x  *)
(*                with x = M + 5 * G, so the market cap is at least M and  *)
(*                the pool at least x / 5.                                 *)
(*   IInv         the types, every token on sale on its curve with a unit  *)
(*                left for sale, and the money.  The money needs the       *)
(*                curves (a curve pays only what it has) and the curves    *)
(*                need the money (what is sold back was out: the contract  *)
(*                holds at least the reserve).                             *)
(*   The list     Represents(l, s): the pointers of l run along s in both  *)
(*                directions, there are no others, and s fits.  Each       *)
(*                method takes a list that represents one sequence to a    *)
(*                list that represents the next one, so that a walk shows  *)
(*                the recency list.                                        *)
(***************************************************************************)
EXTENDS Khensu, SumTheorems, SequenceTheorems, TLAPS

-----------------------------------------------------------------------------
(* Quotients.                                                              *)

LEMMA FloorBounds ==
  ASSUME NEW n \in Nat, NEW d \in Nat \ {0}
  PROVE  /\ n \div d \in Nat
         /\ (n \div d) * d <= n
         /\ n < (n \div d + 1) * d
BY SMT

LEMMA CeilBounds ==
  ASSUME NEW n \in Nat, NEW d \in Nat \ {0}
  PROVE  /\ CeilDiv(n, d) \in Nat
         /\ CeilDiv(n, d) * d >= n
         /\ CeilDiv(n, d) * d < n + d
<1> DEFINE q == CeilDiv(n, d)
<1>1. n + d - 1 \in Nat BY SMT
<1>2. q = (n + d - 1) \div d BY DEF CeilDiv
<1>3. q \in Nat /\ q * d <= n + d - 1 /\ n + d - 1 < (q + 1) * d BY <1>1, <1>2, FloorBounds
<1> HIDE DEF q
<1>4. (q + 1) * d = q * d + d /\ q * d \in Nat BY <1>3, SMT
<1>5. QED BY <1>3, <1>4, SMT DEF q

LEMMA Products ==
  ASSUME NEW x \in Int, NEW y \in Int
  PROVE  x * y \in Int /\ (x \in Nat /\ y \in Nat => x * y \in Nat)
BY SMT

LEMMA TimesMonotone ==
  ASSUME NEW x \in Int, NEW y \in Int, NEW m \in Nat, x <= y
  PROVE  x * m <= y * m
BY SMT

LEMMA TimesCancel ==
  ASSUME NEW x \in Int, NEW y \in Int, NEW m \in Nat \ {0}, x * m <= y * m
  PROVE  x <= y
BY SMT

(* A quotient is the greatest, or least, number on its side. *)
LEMMA FloorGreatest ==
  ASSUME NEW n \in Nat, NEW d \in Nat \ {0}, NEW m \in Int, m * d <= n
  PROVE  m <= n \div d
<1> DEFINE q == n \div d
<1>1. q \in Nat /\ n < (q + 1) * d BY FloorBounds
<1> HIDE DEF q
<1>2. SUFFICES ASSUME m >= q + 1 PROVE FALSE BY <1>1, SMT DEF q
<1>3. (q + 1) * d <= m * d BY <1>1, <1>2, TimesMonotone
<1>4. m * d \in Int /\ (q + 1) * d \in Int BY <1>1, Products
<1>5. QED BY <1>1, <1>3, <1>4, SMT

LEMMA CeilLeast ==
  ASSUME NEW n \in Nat, NEW d \in Nat \ {0}, NEW m \in Int, n <= m * d
  PROVE  CeilDiv(n, d) <= m
<1> DEFINE q == CeilDiv(n, d)
<1>1. q \in Nat /\ q * d < n + d BY CeilBounds
<1> HIDE DEF q
<1>2. SUFFICES ASSUME m + 1 <= q PROVE FALSE BY <1>1, SMT DEF q
<1>3. (m + 1) * d <= q * d BY <1>1, <1>2, TimesMonotone
<1>4. (m + 1) * d = m * d + d /\ m * d \in Int /\ q * d \in Int BY <1>1, SMT
<1>5. QED BY <1>1, <1>3, <1>4, SMT

LEMMA CeilMonotone ==
  ASSUME NEW m \in Nat, NEW n \in Nat, NEW d \in Nat \ {0}, m <= n
  PROVE  CeilDiv(m, d) <= CeilDiv(n, d)
<1>1. CeilDiv(n, d) \in Nat /\ CeilDiv(n, d) * d >= n BY CeilBounds
<1>2. CeilDiv(n, d) * d \in Int BY <1>1, Products
<1>3. m <= CeilDiv(n, d) * d BY <1>1, <1>2
<1>4. QED BY <1>1, <1>3, CeilLeast

-----------------------------------------------------------------------------
(* The curve.                                                              *)

\* The curves that _compute_curve_constants returns.
IsCurve(k) ==
  \E cap, supply, graduation \in Int :
    ValidParameters(cap, supply, graduation) /\ k = CurveOf(cap, supply, graduation)

(* The denominators of the prices are positive while the supply is not     *)
(* exceeded: at the end of it the slope is S * (M + 25 * G).               *)
LEMMA SlopePositive ==
  ASSUME NEW k, IsCurve(k), NEW n \in 0 .. k.supply
  PROVE  /\ k.supply \in Nat \ {0} /\ k.cap \in Nat \ {0} /\ k.graduation \in Nat \ {0}
         /\ k.a \in Nat \ {0} /\ k.b \in Nat \ {0} /\ k.c \in Nat \ {0}
         /\ n \in Nat
         /\ Slope(k, n) \in Nat \ {0}
<1>1. PICK M, S, G \in Int : ValidParameters(M, S, G) /\ k = CurveOf(M, S, G) BY DEF IsCurve
<1>2. M > 0 /\ S > 0 /\ G >= 1 /\ 5 * (3 * M - 5 * G) > 0
  BY <1>1 DEF ValidParameters, FEE_TOKEN_VALUE
<1>3. /\ k.supply = S /\ k.cap = M /\ k.graduation = G /\ k.a = 16 * S * M
      /\ k.b = (M + 5 * G) * (M + 5 * G) /\ k.c = 5 * (3 * M - 5 * G)
  BY <1>1 DEF CurveOf
<1>4. k.a \in Nat \ {0} BY <1>2, <1>3, SMT
<1>5. k.b \in Nat \ {0}
  <2> DEFINE x == M + 5 * G
  <2>1. x \in Nat \ {0} BY <1>2, SMT
  <2> HIDE DEF x
  <2>2. x * x \in Nat \ {0} BY <2>1, SMT
  <2>3. QED BY <1>3, <2>2 DEF x
<1>6. k.c \in Nat \ {0} BY <1>2, <1>3, SMT
<1>7. n \in Nat /\ n <= S BY <1>1, <1>3, SMT
<1>8. n * k.c <= S * k.c BY <1>6, <1>7, TimesMonotone
<1>9. k.a - S * k.c = S * (M + 25 * G) BY <1>3, SMT
<1>10. S * (M + 25 * G) > 0 BY <1>2, SMT
<1>11. n * k.c = k.c * n /\ n * k.c \in Int /\ S * k.c \in Int BY <1>6, <1>7, SMT
<1>12. k.a - k.c * n \in Int /\ k.a - k.c * n > 0
  <2> DEFINE p == k.c * n
             q == S * k.c
             r == S * (M + 25 * G)
  <2>1. p \in Int /\ q \in Int /\ r \in Int /\ p <= q /\ k.a - q = r /\ r > 0
    BY <1>2, <1>8, <1>9, <1>10, <1>11, SMT
  <2> HIDE DEF p, q, r
  <2>2. k.a - p \in Int /\ k.a - p > 0 BY <1>4, <2>1, SMT
  <2>3. QED BY <2>2 DEF p
<1>13. QED BY <1>2, <1>3, <1>4, <1>5, <1>6, <1>7, <1>12 DEF Slope

(* Slopes differ by c for each token. *)
LEMMA SlopeSteps ==
  ASSUME NEW k, NEW n \in Nat, NEW T \in Nat, k.a \in Nat, k.c \in Nat
  PROVE  Slope(k, n + T) = Slope(k, n) - k.c * T /\ k.a = Slope(k, n) + k.c * n
<1>1. k.c * (n + T) = k.c * n + k.c * T BY SMT
<1>2. k.c * n \in Int /\ k.c * T \in Int BY Products
<1>3. QED BY <1>1, <1>2, SMT DEF Slope

(* HTR at least the price of T tokens, added to a pool that covers the n    *)
(* that are out, covers n + T (_calculate_tokens_out, _calculate_htr_needed) *)
LEMMA BuyCovers ==
  ASSUME NEW k, IsCurve(k), NEW n \in Nat, NEW T \in Nat, n + T <= k.supply,
         NEW P \in Nat, NEW H \in Nat, P * Slope(k, n) >= n * k.b,
         H * (Slope(k, n) * Slope(k, n + T)) >= T * k.a * k.b
  PROVE  (P + H) * Slope(k, n + T) >= (n + T) * k.b
<1> DEFINE D == Slope(k, n)
           E == Slope(k, n + T)
<1>1. k.supply \in Nat
  <2>1. k.supply \in Int BY DEF IsCurve, CurveOf
  <2>2. QED BY <2>1, SMT
<1>2. n \in 0 .. k.supply /\ n + T \in 0 .. k.supply BY <1>1, SMT
<1>3. k.a \in Nat /\ k.b \in Nat /\ k.c \in Nat /\ D \in Nat \ {0} /\ E \in Nat \ {0}
  BY <1>2, SlopePositive
<1>4. E = D - k.c * T /\ k.a = D + k.c * n BY <1>3, SlopeSteps
<1>5. P * D >= n * k.b /\ H * (D * E) >= T * k.a * k.b OBVIOUS
<1> HIDE DEF D, E
<1> DEFINE b == k.b
           c == k.c
           x == P * D
           y == n * b
<1>6. b \in Nat /\ c \in Nat /\ x \in Int /\ y \in Int /\ y <= x BY <1>3, <1>5, SMT
<1>7. (P + H) * E * D = x * E + H * (D * E) BY <1>3, SMT
<1>8. y * E <= x * E
  <2> HIDE DEF x, y
  <2>1. QED BY <1>3, <1>6, TimesMonotone
<1>9. y * E + T * k.a * b = (n + T) * b * D
  <2>1. y * E = n * b * D - n * b * (c * T) BY <1>3, <1>4, <1>6, SMT
  <2>2. T * k.a * b = T * b * D + n * b * (c * T) BY <1>3, <1>4, <1>6, SMT
  <2>3. (n + T) * b * D = n * b * D + T * b * D BY <1>3, <1>6, SMT
  <2>4. n * b * D \in Int /\ n * b * (c * T) \in Int /\ T * b * D \in Int BY <1>3, <1>6, SMT
  <2> HIDE DEF y, b, c
  <2>5. QED BY <2>1, <2>2, <2>3, <2>4, SMT
<1>10. x * E \in Int /\ y * E \in Int /\ H * (D * E) \in Int /\ T * k.a * b \in Int
  BY <1>3, <1>6, SMT
<1>11. (P + H) * E \in Int /\ (n + T) * b \in Int BY <1>3, <1>6, SMT
<1>12. (n + T) * b * D <= (P + H) * E * D
  <2> HIDE DEF x, y
  <2>1. QED BY <1>5, <1>7, <1>8, <1>9, <1>10, SMT DEF b
<1>13. (n + T) * b <= (P + H) * E
  <2> HIDE DEF b
  <2>1. QED BY <1>3, <1>11, <1>12, TimesCancel
<1>14. QED BY <1>11, <1>13 DEF E, b

(* What T tokens return leaves enough for the others, so it is there       *)
(* (_calculate_htr_out).                                                   *)
LEMMA SellCovers ==
  ASSUME NEW k, IsCurve(k), NEW n \in 0 .. k.supply, NEW T \in 0 .. n,
         NEW P \in Nat, P * Slope(k, n) >= n * k.b
  PROVE  /\ HtrOut(k, n, T) \in 0 .. P
         /\ (P - HtrOut(k, n, T)) * Slope(k, n - T) >= (n - T) * k.b
<1> DEFINE D == Slope(k, n)
           E == Slope(k, n - T)
           H == HtrOut(k, n, T)
           b == k.b
           c == k.c
<1>1. /\ k.a \in Nat /\ k.b \in Nat /\ k.c \in Nat /\ D \in Nat \ {0} /\ n \in Nat
      /\ k.supply \in Nat
  BY SlopePositive
<1>2. T \in Nat /\ n - T \in Nat /\ n - T \in 0 .. k.supply BY <1>1, SMT
<1>3. E \in Nat \ {0} BY <1>2, SlopePositive
<1>4. E = D + c * T /\ k.a = D + c * n
  <2>1. n = (n - T) + T BY <1>1, <1>2, SMT
  <2>2. Slope(k, (n - T) + T) = E - c * T BY <1>1, <1>2, SlopeSteps
  <2>3. D = E - c * T BY <2>1, <2>2
  <2>4. k.a = D + c * n BY <1>1, <1>2, SlopeSteps
  <2>5. c * T \in Int BY <1>1, <1>2, Products
  <2> HIDE DEF D, E
  <2>6. QED BY <1>1, <1>3, <2>3, <2>4, <2>5, SMT
<1>5. H \in Nat /\ H * (D * E) <= T * k.a * b
  <2> DEFINE num == T * k.a * b
             den == D * E
  <2>1. H = num \div den BY DEF HtrOut
  <2>2. num \in Nat BY <1>1, <1>2, SMT
  <2>3. den \in Nat \ {0}
    <3> HIDE DEF D, E
    <3>1. QED BY <1>1, <1>3, SMT
  <2> HIDE DEF num, den, H
  <2>4. H \in Nat /\ H * den <= num BY <2>1, <2>2, <2>3, FloorBounds
  <2>5. QED BY <2>4 DEF num, den
<1>6. P * D >= n * b OBVIOUS
<1> HIDE DEF D, E, H
<1> DEFINE x == P * D
           y == n * b
<1>7. b \in Nat /\ c \in Nat /\ x \in Int /\ y \in Int /\ y <= x BY <1>1, <1>6, SMT
<1>8. (P - H) * E * D = x * E - H * (D * E) BY <1>1, <1>3, <1>5, SMT
<1>9. y * E <= x * E
  <2> HIDE DEF x, y
  <2>1. QED BY <1>3, <1>7, TimesMonotone
<1>10. y * E - T * k.a * b = (n - T) * b * D
  <2>1. y * E = n * b * D + n * b * (c * T) BY <1>1, <1>2, <1>4, <1>7, SMT
  <2>2. T * k.a * b = T * b * D + n * b * (c * T)
    <3>1. T * (D + c * n) * b = T * b * D + n * b * (c * T) BY <1>1, <1>2, <1>7, SMT
    <3>2. QED BY <1>4, <3>1
  <2>3. (n - T) * b * D = n * b * D - T * b * D BY <1>1, <1>2, <1>7, SMT
  <2>4. n * b * D \in Int /\ n * b * (c * T) \in Int /\ T * b * D \in Int
    BY <1>1, <1>2, <1>7, SMT
  <2> HIDE DEF y, b, c
  <2>5. QED BY <2>1, <2>2, <2>3, <2>4, SMT
<1>11. x * E \in Int /\ y * E \in Int /\ H * (D * E) \in Int /\ T * k.a * b \in Int
  BY <1>1, <1>2, <1>3, <1>5, <1>7, SMT
<1>12. (P - H) * E \in Int /\ (n - T) * b \in Nat BY <1>1, <1>2, <1>3, <1>5, <1>7, SMT
<1>13. (n - T) * b * D <= (P - H) * E * D
  <2> HIDE DEF x, y
  <2>1. QED BY <1>5, <1>8, <1>9, <1>10, <1>11, SMT DEF b
<1>14. (n - T) * b <= (P - H) * E
  <2> HIDE DEF b
  <2>1. QED BY <1>1, <1>12, <1>13, TimesCancel
<1>15. H <= P
  <2>1. SUFFICES ASSUME P - H < 0 PROVE FALSE BY <1>5, SMT
  <2> DEFINE z == P - H
  <2>2. z \in Int /\ z + 1 <= 0 BY <1>5, <2>1, SMT
  <2> HIDE DEF z
  <2>3. (z + 1) * E <= 0 * E BY <1>3, <2>2, TimesMonotone
  <2>4. z * E < 0 BY <1>3, <2>2, <2>3, SMT
  <2> HIDE DEF b
  <2>5. QED BY <1>12, <1>14, <2>4, SMT DEF z
<1>16. QED BY <1>5, <1>12, <1>14, <1>15 DEF E, b, H

(* HtrOnCurve is the least pool that covers the n tokens that are out.     *)
LEMMA OnCurve ==
  ASSUME NEW k, IsCurve(k), NEW n \in 0 .. k.supply
  PROVE  /\ HtrOnCurve(k, n) \in Nat
         /\ HtrOnCurve(k, n) * Slope(k, n) >= n * k.b
         /\ \A P \in Nat : P * Slope(k, n) >= n * k.b => HtrOnCurve(k, n) <= P
<1> DEFINE D == Slope(k, n)
           y == n * k.b
<1>1. k.b \in Nat /\ D \in Nat \ {0} /\ n \in Nat BY SlopePositive
<1> HIDE DEF D
<1>2. y \in Nat BY <1>1, Products
<1> HIDE DEF y
<1>3. CeilDiv(y, D) \in Nat /\ CeilDiv(y, D) * D >= y BY <1>1, <1>2, CeilBounds
<1>4. ASSUME NEW P \in Nat, P * D >= y PROVE CeilDiv(y, D) <= P
  <2>1. P * D \in Int BY <1>1, Products
  <2>2. y <= P * D BY <1>2, <1>4, <2>1, SMT
  <2>3. QED BY <1>1, <1>2, <2>2, CeilLeast
<1>5. HtrOnCurve(k, n) = CeilDiv(y, D) BY DEF HtrOnCurve, y, D
<1>6. QED BY <1>3, <1>4, <1>5 DEF y, D

LEMMA NothingOut ==
  ASSUME NEW k, IsCurve(k)
  PROVE  HtrOnCurve(k, 0) = 0
<1>1. k.supply \in Int BY DEF IsCurve, CurveOf
<1>2. k.supply >= 0 BY DEF IsCurve, CurveOf, ValidParameters
<1>3. 0 \in 0 .. k.supply BY <1>1, <1>2, SMT
<1>4. HtrOnCurve(k, 0) \in Nat /\ k.b \in Nat /\ Slope(k, 0) \in Nat \ {0}
  BY <1>3, OnCurve, SlopePositive
<1>5. 0 * Slope(k, 0) >= 0 * k.b BY <1>4, SMT
<1>6. HtrOnCurve(k, 0) <= 0 BY <1>3, <1>5, OnCurve
<1>7. QED BY <1>4, <1>6, SMT

(* What HTR buys is the most whose price it pays.                          *)
LEMMA TokensOutIff ==
  ASSUME NEW k, IsCurve(k), NEW n \in Nat, NEW T \in Nat, n + T <= k.supply, NEW H \in Nat
  PROVE  /\ TokensOut(k, n, H) \in Nat
         /\ T <= TokensOut(k, n, H)
              <=> H * (Slope(k, n) * Slope(k, n + T)) >= T * k.a * k.b
<1> DEFINE D == Slope(k, n)
           E == Slope(k, n + T)
           num == D * D * H
           den == k.a * k.b + H * k.c * D
           q == TokensOut(k, n, H)
<1>1. k.supply \in Nat
  <2>1. k.supply \in Int BY DEF IsCurve, CurveOf
  <2>2. QED BY <2>1, SMT
<1>2. n \in 0 .. k.supply BY <1>1, SMT
<1>3. /\ k.a \in Nat \ {0} /\ k.b \in Nat \ {0} /\ k.c \in Nat /\ D \in Nat \ {0}
  BY <1>2, SlopePositive
<1>4. E = D - k.c * T BY <1>3, SlopeSteps
<1>5. q = num \div den BY DEF TokensOut
<1> HIDE DEF D, E, q
<1>6. num \in Nat BY <1>3, SMT
<1>7. den \in Nat \ {0}
  <2>1. k.a * k.b \in Nat \ {0} BY <1>3, SMT
  <2>2. H * k.c * D \in Nat BY <1>3, SMT
  <2>3. QED BY <2>1, <2>2, SMT
<1>8. q \in Nat /\ q * den <= num
  <2> HIDE DEF num, den
  <2>1. QED BY <1>5, <1>6, <1>7, FloorBounds
<1>9. T <= q <=> T * den <= num
  <2> HIDE DEF num, den
  <2>1. ASSUME T <= q PROVE T * den <= num
    <3>1. T * den <= q * den BY <1>7, <1>8, <2>1, TimesMonotone
    <3>2. T * den \in Int /\ q * den \in Int BY <1>7, <1>8, Products
    <3>3. QED BY <1>6, <1>8, <3>1, <3>2, SMT
  <2>2. ASSUME T * den <= num PROVE T <= q
    BY <1>5, <1>6, <1>7, <2>2, FloorGreatest
  <2>3. QED BY <2>1, <2>2
<1>10. T * den = T * k.a * k.b + H * (D * (k.c * T)) BY <1>3, SMT
<1>11. H * (D * E) = num - H * (D * (k.c * T))
  <2>1. k.c * T \in Int BY <1>3, Products
  <2>2. H * (D * (D - k.c * T)) = num - H * (D * (k.c * T)) BY <1>3, <2>1, SMT
  <2>3. QED BY <1>4, <2>2
<1>12. T * k.a * k.b \in Int /\ H * (D * (k.c * T)) \in Int BY <1>3, SMT
<1>13. T * den <= num <=> H * (D * E) >= T * k.a * k.b
  <2> HIDE DEF num, den
  <2>1. QED BY <1>6, <1>10, <1>11, <1>12, SMT
<1>14. QED BY <1>8, <1>9, <1>13 DEF q, D, E

(* HtrNeeded is the least HTR that pays for T tokens.                      *)
LEMMA NeededPays ==
  ASSUME NEW k, IsCurve(k), NEW n \in Nat, NEW T \in Nat, n + T <= k.supply
  PROVE  /\ HtrNeeded(k, n, T) \in Nat
         /\ T > 0 => HtrNeeded(k, n, T) > 0
         /\ HtrNeeded(k, n, T) * (Slope(k, n) * Slope(k, n + T)) >= T * k.a * k.b
         /\ \A H \in Nat : H * (Slope(k, n) * Slope(k, n + T)) >= T * k.a * k.b
                             => HtrNeeded(k, n, T) <= H
<1> DEFINE num == T * k.a * k.b
           den == Slope(k, n) * Slope(k, n + T)
<1>1. k.supply \in Nat
  <2>1. k.supply \in Int BY DEF IsCurve, CurveOf
  <2>2. QED BY <2>1, SMT
<1>2. n \in 0 .. k.supply /\ n + T \in 0 .. k.supply BY <1>1, SMT
<1>3. /\ k.a \in Nat \ {0} /\ k.b \in Nat \ {0}
      /\ Slope(k, n) \in Nat \ {0} /\ Slope(k, n + T) \in Nat \ {0}
  BY <1>2, SlopePositive
<1>4. num \in Nat /\ (T > 0 => num > 0)
  <2>1. T * k.a \in Nat /\ (T > 0 => T * k.a > 0) BY <1>3, SMT
  <2>2. QED BY <1>3, <2>1, SMT
<1>5. den \in Nat \ {0}
  <2> DEFINE D == Slope(k, n)
             E == Slope(k, n + T)
  <2> HIDE DEF D, E
  <2>1. D * E \in Nat \ {0} BY <1>3, SMT DEF D, E
  <2>2. QED BY <2>1 DEF D, E
<1>6. HtrNeeded(k, n, T) = CeilDiv(num, den) BY DEF HtrNeeded
<1> HIDE DEF num, den
<1>7. CeilDiv(num, den) \in Nat /\ CeilDiv(num, den) * den >= num
  BY <1>4, <1>5, CeilBounds
<1>8. ASSUME NEW H \in Nat, H * den >= num PROVE CeilDiv(num, den) <= H
  <2>1. num <= H * den
    <3>1. H * den \in Int BY <1>5, Products
    <3>2. QED BY <1>4, <1>8, <3>1, SMT
  <2>2. QED BY <1>4, <1>5, <2>1, CeilLeast
<1>9. ASSUME T > 0 PROVE CeilDiv(num, den) > 0
  <2>1. SUFFICES ASSUME CeilDiv(num, den) = 0 PROVE FALSE BY <1>7, SMT
  <2>2. 0 >= num BY <1>5, <1>7, <2>1, SMT
  <2>3. QED BY <1>4, <1>9, <2>2, SMT
<1>10. QED BY <1>6, <1>7, <1>8, <1>9 DEF num, den

-----------------------------------------------------------------------------
(* Fees: taken out of an amount, or put on it.                             *)

LEMMA FeeOnBounds ==
  ASSUME NEW amount \in Nat, NEW rate \in Nat
  PROVE  /\ FeeOn(amount, rate) \in Nat
         /\ FeeOn(amount, rate) * BASIS_POINTS >= amount * rate
         /\ \A f \in Int : f * BASIS_POINTS >= amount * rate => FeeOn(amount, rate) <= f
<1>1. BASIS_POINTS \in Nat \ {0} BY BondingCurveAssumption
<1>2. amount * rate \in Nat BY Products
<1>3. FeeOn(amount, rate) = CeilDiv(amount * rate, BASIS_POINTS) BY DEF FeeOn
<1>4. ASSUME NEW f \in Int, f * BASIS_POINTS >= amount * rate PROVE FeeOn(amount, rate) <= f
  <2>1. f * BASIS_POINTS \in Int BY <1>1, Products
  <2>2. amount * rate <= f * BASIS_POINTS BY <1>2, <1>4, <2>1, SMT
  <2>3. QED BY <1>1, <1>2, <1>3, <2>2, CeilLeast
<1>5. QED BY <1>1, <1>2, <1>3, <1>4, CeilBounds

LEMMA FeeOnMonotone ==
  ASSUME NEW amount \in Nat, NEW more \in Nat, amount <= more,
         NEW rate \in Nat, NEW higher \in Nat, rate <= higher
  PROVE  FeeOn(amount, rate) <= FeeOn(more, higher)
<1> DEFINE f == FeeOn(more, higher)
<1>1. BASIS_POINTS \in Nat \ {0} BY BondingCurveAssumption
<1>2. f \in Nat /\ f * BASIS_POINTS >= more * higher BY FeeOnBounds
<1>3. amount * rate <= more * higher
  <2>1. amount * rate <= more * rate BY TimesMonotone
  <2>2. rate * more <= higher * more BY TimesMonotone
  <2>3. more * rate = rate * more /\ more * higher = higher * more BY SMT
  <2>4. amount * rate \in Int /\ more * rate \in Int /\ more * higher \in Int BY Products
  <2>5. QED BY <2>1, <2>2, <2>3, <2>4, SMT
<1> HIDE DEF f
<1>4. f * BASIS_POINTS >= amount * rate
  <2>1. f * BASIS_POINTS \in Int /\ more * higher \in Int /\ amount * rate \in Int
    BY <1>1, <1>2, Products
  <2>2. QED BY <1>2, <1>3, <2>1, SMT
<1>5. QED BY <1>2, <1>4, FeeOnBounds DEF f

(* The fee taken out of an amount is enough for the fee on what is left.   *)
LEMMA FeeInBounds ==
  ASSUME NEW amount \in Nat, NEW rate \in Nat
  PROVE  /\ FeeIn(amount, rate) \in 0 .. amount
         /\ FeeOn(amount - FeeIn(amount, rate), rate) <= FeeIn(amount, rate)
         /\ \A f \in Int : f * (rate + BASIS_POINTS) >= amount * rate => FeeIn(amount, rate) <= f
<1> DEFINE d == rate + BASIS_POINTS
           y == amount * rate
           f == FeeIn(amount, rate)
<1>1. BASIS_POINTS \in Nat \ {0} BY BondingCurveAssumption
<1>2. d \in Nat \ {0} BY <1>1, SMT
<1>3. y \in Nat BY Products
<1>4. f = CeilDiv(y, d)
  <2>1. y + rate + BASIS_POINTS - 1 = y + (rate + BASIS_POINTS) - 1
    <3> HIDE DEF y
    <3>1. QED BY <1>1, <1>3, SMT
  <2>2. QED BY <2>1 DEF FeeIn, CeilDiv
<1> HIDE DEF f
<1>5. f \in Nat /\ f * d >= y
  <2> HIDE DEF y, d
  <2>1. QED BY <1>2, <1>3, <1>4, CeilBounds
<1>6. ASSUME NEW g \in Int, g * d >= y PROVE f <= g
  <2>1. g * d \in Int BY <1>2, Products
  <2> HIDE DEF y, d
  <2>2. y <= g * d BY <1>3, <1>6, <2>1, SMT
  <2>3. QED BY <1>2, <1>3, <1>4, <2>2, CeilLeast
<1>7. f <= amount
  <2>1. amount * d >= y
    <3>1. amount * d = y + amount * BASIS_POINTS BY <1>1, SMT
    <3>2. amount * BASIS_POINTS \in Nat BY <1>1, Products
    <3> HIDE DEF y, d
    <3>3. QED BY <1>3, <3>1, <3>2, SMT
  <2>2. QED BY <1>6, <2>1
<1>8. FeeOn(amount - f, rate) <= f
  <2>1. f * d = f * BASIS_POINTS + f * rate BY <1>1, <1>5, SMT
  <2>2. (amount - f) * rate = y - f * rate BY <1>5, SMT
  <2>3. f * rate \in Int /\ f * BASIS_POINTS \in Int BY <1>1, <1>5, Products
  <2>4. f * BASIS_POINTS >= (amount - f) * rate
    <3> HIDE DEF y, d
    <3>1. QED BY <1>3, <1>5, <2>1, <2>2, <2>3, SMT
  <2>5. amount - f \in Nat BY <1>5, <1>7, SMT
  <2>6. QED BY <1>5, <2>4, <2>5, FeeOnBounds
<1>9. QED BY <1>5, <1>6, <1>7, <1>8 DEF f, d, y

(* The fee taken out of a price with its fee is not more than that fee.    *)
LEMMA FeeInOfTotal ==
  ASSUME NEW amount \in Nat, NEW rate \in Nat
  PROVE  FeeIn(amount + FeeOn(amount, rate), rate) <= FeeOn(amount, rate)
<1> DEFINE f == FeeOn(amount, rate)
<1>1. BASIS_POINTS \in Nat \ {0} BY BondingCurveAssumption
<1>2. f \in Nat /\ f * BASIS_POINTS >= amount * rate BY FeeOnBounds
<1> HIDE DEF f
<1>3. f * (rate + BASIS_POINTS) = f * rate + f * BASIS_POINTS BY <1>1, <1>2, SMT
<1>4. (amount + f) * rate = amount * rate + f * rate BY <1>2, SMT
<1>5. f * rate \in Int /\ f * BASIS_POINTS \in Int /\ amount * rate \in Int
  BY <1>1, <1>2, Products
<1>6. f * (rate + BASIS_POINTS) >= (amount + f) * rate BY <1>2, <1>3, <1>4, <1>5, SMT
<1>7. amount + f \in Nat /\ f \in Int BY <1>2, SMT
<1>8. FeeIn(amount + f, rate) <= f BY <1>6, <1>7, FeeInBounds
<1>9. QED BY <1>8 DEF f

-----------------------------------------------------------------------------
(* A purchase.                                                             *)

\* What the state keeps of every token on sale.
GoodToken(tok) ==
  /\ tok \in TokenRecord
  /\ IsCurve(tok.curve)
  /\ tok.reserve \in Unsold(tok.curve) .. tok.curve.supply

GoodRates == config.buyFee \in Nat /\ config.creatorFee \in Nat

LEMMA FifthBounds ==
  ASSUME NEW S \in Nat \ {0}
  PROVE  S \div 5 \in 0 .. (S - 1) /\ 5 * (S \div 5) <= S /\ 5 * (S \div 5) > S - 5
BY SMT

LEMMA TokenBounds ==
  ASSUME NEW tok, GoodToken(tok)
  PROVE  /\ tok.curve.supply \in Nat \ {0} /\ Unsold(tok.curve) \in 0 .. tok.curve.supply - 1
         /\ tok.reserve \in Nat /\ tok.pool \in Nat
         /\ Sold(tok) \in Nat /\ Sold(tok) \in 0 .. tok.curve.supply
         /\ Room(tok) \in Nat
         /\ Sold(tok) + Room(tok) = tok.curve.supply - Unsold(tok.curve)
         /\ Sold(tok) + Room(tok) <= tok.curve.supply
<1>1. tok.curve.supply \in Nat \ {0}
  <2>1. tok.curve.supply \in Int /\ tok.curve.supply > 0
    BY DEF GoodToken, IsCurve, CurveOf, ValidParameters
  <2>2. QED BY <2>1, SMT
<1>2. Unsold(tok.curve) \in 0 .. tok.curve.supply - 1 BY <1>1, FifthBounds DEF Unsold
<1>3. tok.reserve \in Nat /\ tok.pool \in Nat BY DEF GoodToken, TokenRecord
<1>4. tok.reserve \in Unsold(tok.curve) .. tok.curve.supply BY DEF GoodToken
<1>5. QED BY <1>1, <1>2, <1>3, <1>4, SMT DEF Sold, Room

(* What a purchase takes is never more than what is for sale, its HTR pays *)
(* for it on the curve, and HTR and fees are never more than was paid, also *)
(* when what is for sale limits it (buy_tokens).                           *)
LEMMA PurchaseBounds ==
  ASSUME NEW tok, GoodToken(tok), GoodRates, NEW amount \in Nat,
         NEW r, r = Purchase(tok, amount)
  PROVE  /\ r.out \in Nat /\ r.out <= Room(tok)
         /\ r.net \in Nat /\ r.paid \in Nat /\ r.paid <= amount
         /\ r.buyFee \in Nat /\ r.creatorFee \in Nat
         /\ r.paid = r.net + r.buyFee + r.creatorFee
         /\ r.net * (Slope(tok.curve, Sold(tok)) * Slope(tok.curve, Sold(tok) + r.out))
              >= r.out * tok.curve.a * tok.curve.b
         /\ Room(tok) <= TokensOut(tok.curve, Sold(tok), amount - FeeIn(amount, BuyRate))
              => r.out = Room(tok)
<1> DEFINE k    == tok.curve
           n    == Sold(tok)
           fee  == FeeIn(amount, BuyRate)
           net  == amount - fee
           most == TokensOut(k, n, net)
           room == Room(tok)
           need == HtrNeeded(k, n, room)
<1>1. BuyRate \in Nat /\ config.buyFee \in Nat /\ config.buyFee <= BuyRate
  BY SMT DEF GoodRates, BuyRate
<1>2. fee \in 0 .. amount /\ FeeOn(net, BuyRate) <= fee BY <1>1, FeeInBounds
<1>3. net \in Nat /\ fee \in Nat /\ fee + net = amount
  <2> HIDE DEF fee
  <2>1. QED BY <1>2, SMT
<1>4. IsCurve(k) /\ n \in Nat /\ room \in Nat /\ n + room <= k.supply
  BY TokenBounds DEF GoodToken
<1>5. most \in Nat /\ \A T \in Nat :
        n + T <= k.supply =>
          (T <= most <=> net * (Slope(k, n) * Slope(k, n + T)) >= T * k.a * k.b)
  <2> HIDE DEF k, n, net
  <2>1. QED BY <1>3, <1>4, TokensOutIff DEF room
<1>6. FeeOn(net, config.buyFee) \in Nat /\ FeeOn(net, config.buyFee) <= fee
  <2>1. FeeOn(net, config.buyFee) <= FeeOn(net, BuyRate) BY <1>1, <1>3, FeeOnMonotone
  <2>2. FeeOn(net, BuyRate) \in Nat /\ FeeOn(net, config.buyFee) \in Nat
    BY <1>1, <1>3, FeeOnBounds
  <2> HIDE DEF net, fee
  <2>3. QED BY <1>2, <1>3, <2>1, <2>2, SMT
<1>7. CASE most > room
  <2>1. r = [out |-> room, net |-> need, paid |-> need + FeeOn(need, BuyRate),
             buyFee |-> FeeOn(need, config.buyFee),
             creatorFee |-> FeeOn(need, BuyRate) - FeeOn(need, config.buyFee)]
    BY <1>7 DEF Purchase
  <2> HIDE DEF k, n, room, net, fee, most
  <2>2. room <= most BY <1>4, <1>5, <1>7, SMT
  <2>3. net * (Slope(k, n) * Slope(k, n + room)) >= room * k.a * k.b
    BY <1>4, <1>5, <2>2
  <2>4. /\ need \in Nat /\ need <= net
        /\ need * (Slope(k, n) * Slope(k, n + room)) >= room * k.a * k.b
    BY <1>3, <1>4, <2>3, NeededPays
  <2> HIDE DEF need
  <2>5. /\ FeeOn(need, BuyRate) \in Nat /\ FeeOn(need, config.buyFee) \in Nat
        /\ FeeOn(net, BuyRate) \in Nat
    BY <1>1, <1>3, <2>4, FeeOnBounds
  <2>6. FeeOn(need, config.buyFee) <= FeeOn(need, BuyRate) BY <1>1, <2>4, FeeOnMonotone
  <2>7. FeeOn(need, BuyRate) <= FeeOn(net, BuyRate) BY <1>1, <1>3, <2>4, FeeOnMonotone
  <2>8. need + FeeOn(need, BuyRate) <= amount
    BY <1>2, <1>3, <2>4, <2>5, <2>7, SMT
  <2>9. /\ r.out = room /\ r.net = need /\ r.paid = need + FeeOn(need, BuyRate)
        /\ r.buyFee = FeeOn(need, config.buyFee)
        /\ r.creatorFee = FeeOn(need, BuyRate) - FeeOn(need, config.buyFee)
    BY <2>1
  <2>10. r.buyFee \in Nat /\ r.creatorFee \in Nat /\ r.paid \in Nat /\ r.paid <= amount
    BY <2>4, <2>5, <2>6, <2>8, <2>9, SMT
  <2>11. r.paid = r.net + r.buyFee + r.creatorFee BY <2>4, <2>5, <2>9, SMT
  <2>12. QED BY <1>4, <2>4, <2>9, <2>10, <2>11 DEF k, n, room
<1>8. CASE ~ (most > room)
  <2>1. r = [out |-> most, net |-> net, paid |-> amount,
             buyFee |-> FeeOn(net, config.buyFee),
             creatorFee |-> fee - FeeOn(net, config.buyFee)]
    BY <1>8 DEF Purchase
  <2> HIDE DEF k, n, room, net, fee, most
  <2>2. most <= room BY <1>4, <1>5, <1>8, SMT
  <2>3. n + most <= k.supply
    <3>1. k.supply \in Int BY <1>4 DEF IsCurve, CurveOf
    <3>2. QED BY <1>4, <1>5, <2>2, <3>1, SMT
  <2>4. net * (Slope(k, n) * Slope(k, n + most)) >= most * k.a * k.b
    BY <1>5, <2>3
  <2>5. /\ r.out = most /\ r.net = net /\ r.paid = amount
        /\ r.buyFee = FeeOn(net, config.buyFee)
        /\ r.creatorFee = fee - FeeOn(net, config.buyFee)
    BY <2>1
  <2>6. r.buyFee \in Nat /\ r.creatorFee \in Nat BY <1>3, <1>6, <2>5, SMT
  <2>7. r.paid = r.net + r.buyFee + r.creatorFee BY <1>3, <1>6, <2>5, SMT
  <2>8. room <= most => most = room BY <1>4, <1>5, <2>2, SMT
  <2>9. r.out <= room BY <2>2, <2>5
  <2>10. QED BY <1>3, <1>5, <2>4, <2>5, <2>6, <2>7, <2>8, <2>9 DEF k, n, room, net, fee, most
<1>9. QED BY <1>7, <1>8

(* Where four fifths of the supply are out the price has reached the target *)
(* and the curve holds the pool's HTR and the graduation fee: what          *)
(* migrate_liquidity checks (market cap, token reserve, virtual pool).      *)
LEMMA FullIsFunded ==
  ASSUME NEW tok, GoodToken(tok), tok.pool = HtrOnCurve(tok.curve, Sold(tok)),
         tok.reserve = Unsold(tok.curve)
  PROVE  Full(tok) /\ Funded(tok)
<1> DEFINE k == tok.curve
           n == Sold(tok)
           D == Slope(k, n)
           P == tok.pool
<1>1. PICK M, S, G \in Int : ValidParameters(M, S, G) /\ k = CurveOf(M, S, G)
  BY DEF IsCurve, GoodToken
<1>2. M \in Nat \ {0} /\ S \in Nat \ {0} /\ G \in Nat \ {0}
  BY <1>1, SMT DEF ValidParameters, FEE_TOKEN_VALUE
<1> DEFINE x == M + 5 * G
           y == 4 * S * x
<1>3. x \in Nat \ {0} BY <1>2, SMT
<1>4. /\ k.supply = S /\ k.cap = M /\ k.graduation = G /\ k.a = 16 * S * M
      /\ k.b = x * x /\ k.c = 5 * (3 * M - 5 * G)
  BY <1>1 DEF CurveOf
<1>5. IsCurve(k) /\ n \in 0 .. k.supply /\ n = S - S \div 5 /\ P \in Nat /\ n \in Nat
  <2>1. n = k.supply - Unsold(k) BY DEF Sold
  <2>2. QED BY <1>4, <2>1, TokenBounds DEF GoodToken, Unsold
<1>6. /\ D \in Nat \ {0} /\ k.a \in Nat \ {0} /\ k.b \in Nat \ {0} /\ k.c \in Nat \ {0}
      /\ P * D >= n * k.b
  BY <1>5, SlopePositive, OnCurve
<1>7. 5 * n >= 4 * S BY <1>2, <1>5, FifthBounds, SMT
<1>8. y \in Nat \ {0}
  <2>1. 4 * S \in Nat \ {0} BY <1>2, SMT
  <2> HIDE DEF x
  <2>2. QED BY <1>3, <2>1, SMT
<1>9. D <= y
  <2>1. D = k.a - n * k.c
    <3>1. k.c * n = n * k.c BY <1>5, <1>6, SMT
    <3>2. QED BY <3>1 DEF Slope
  <2>2. 5 * (n * k.c) = (5 * n) * k.c BY <1>5, <1>6, SMT
  <2>3. (4 * S) * k.c <= (5 * n) * k.c
    <3>1. 4 * S \in Int /\ 5 * n \in Int BY <1>2, <1>5, SMT
    <3>2. QED BY <1>6, <1>7, <3>1, TimesMonotone
  <2>4. 5 * k.a - (4 * S) * k.c = 5 * y BY <1>2, <1>4, SMT
  <2>5. n * k.c \in Int /\ (4 * S) * k.c \in Int /\ (5 * n) * k.c \in Int
    BY <1>2, <1>5, <1>6, SMT
  <2> HIDE DEF D, y
  <2>6. QED BY <1>6, <1>8, <2>1, <2>2, <2>3, <2>4, <2>5, SMT
<1>10. MarketCap(k, n) >= M
  <2>1. D * D <= y * y
    <3> HIDE DEF D, y
    <3>1. D * D <= y * D /\ D * y <= y * y BY <1>6, <1>8, <1>9, TimesMonotone
    <3>2. D * D \in Int /\ y * D \in Int /\ D * y = y * D /\ y * y \in Int
      BY <1>6, <1>8, SMT
    <3>3. QED BY <3>1, <3>2, SMT
  <2>2. (D * D) * M <= (y * y) * M
    <3> HIDE DEF D, y
    <3>1. D * D \in Int /\ y * y \in Int BY <1>6, <1>8, Products
    <3>2. QED BY <1>2, <2>1, <3>1, TimesMonotone
  <2>3. (y * y) * M = k.a * k.b * k.supply
    <3>1. (y * y) * M = 16 * S * M * (x * x) * S
      <4> HIDE DEF x
      <4>1. QED BY <1>2, <1>3, SMT
    <3>2. QED BY <1>4, <3>1
  <2>4. k.a * k.b * k.supply \in Nat
    <3>1. k.a * k.b \in Nat BY <1>6, Products
    <3>2. QED BY <1>2, <1>4, <3>1, Products
  <2>5. D * D \in Nat \ {0}
    <3> HIDE DEF D
    <3>1. QED BY <1>6, SMT
  <2>6. M * (D * D) <= k.a * k.b * k.supply
    <3>1. M * (D * D) = (D * D) * M BY <1>2, <2>5, SMT
    <3>2. QED BY <2>2, <2>3, <3>1
  <2>7. MarketCap(k, n) = (k.a * k.b * k.supply) \div (D * D) BY DEF MarketCap
  <2> HIDE DEF D, k, n
  <2>8. M <= (k.a * k.b * k.supply) \div (D * D) BY <1>2, <2>4, <2>5, <2>6, FloorGreatest
  <2>9. MarketCap(k, n) \in Nat BY <2>4, <2>5, <2>7, FloorBounds
  <2>10. QED BY <1>2, <2>7, <2>8, <2>9, SMT
<1>11. 5 * P >= x
  <2>1. 5 * P \in Nat /\ 5 * n \in Nat BY <1>5, SMT
  <2>2. D * (5 * P) <= y * (5 * P)
    <3> HIDE DEF D, y
    <3>1. QED BY <1>6, <1>8, <1>9, <2>1, TimesMonotone
  <2>3. D * (5 * P) = 5 * (P * D) BY <1>5, <1>6, SMT
  <2>4. (4 * S) * k.b <= (5 * n) * k.b
    <3>1. 4 * S \in Int BY <1>2, SMT
    <3>2. QED BY <1>6, <1>7, <2>1, <3>1, TimesMonotone
  <2>5. (5 * n) * k.b = 5 * (n * k.b) BY <1>5, <1>6, SMT
  <2>6. (4 * S) * k.b = x * y
    <3>1. (4 * S) * (x * x) = x * y
      <4> HIDE DEF x
      <4>1. QED BY <1>2, <1>3, SMT
    <3>2. QED BY <1>4, <3>1
  <2>7. /\ n * k.b \in Int /\ P * D \in Int /\ x * y \in Int /\ y * (5 * P) \in Int
        /\ y * (5 * P) = (5 * P) * y
    <3> HIDE DEF x, y, D
    <3>1. QED BY <1>3, <1>5, <1>6, <1>8, <2>1, SMT
  <2>8. x * y <= (5 * P) * y
    <3> HIDE DEF x, y, D
    <3>1. QED BY <1>6, <2>2, <2>3, <2>4, <2>5, <2>6, <2>7, SMT
  <2> HIDE DEF x, y
  <2>9. x <= 5 * P BY <1>3, <1>8, <2>1, <2>8, TimesCancel
  <2>10. QED BY <1>3, <2>1, <2>9, SMT
<1>12. P - G >= M \div 5 BY <1>2, <1>5, <1>11, SMT
<1>13. Full(tok) BY <1>4, <1>10 DEF Full
<1>14. QED BY <1>4, <1>12, <1>13 DEF Funded, Liquidity

-----------------------------------------------------------------------------
(* The tokens of the steps.                                                *)

\* On its curve, and holding what the curve needs.
Balanced(tok) == GoodToken(tok) /\ tok.pool = HtrOnCurve(tok.curve, Sold(tok))

Covered(tok) ==
  GoodToken(tok) /\ tok.pool * Slope(tok.curve, Sold(tok)) >= Sold(tok) * tok.curve.b

(* _correct_curve_deviation leaves a covered token exactly what it needs   *)
(* and collects the rest.                                                  *)
LEMMA CorrectedBounds ==
  ASSUME NEW tok, Covered(tok), NEW s, s = Corrected(tok)
  PROVE  /\ Balanced(s)
         /\ Deviation(tok) \in Nat /\ s.pool \in Nat /\ s.pool + Deviation(tok) = tok.pool
         /\ s = [tok EXCEPT !.pool = s.pool]
         /\ s.curve = tok.curve /\ s.reserve = tok.reserve /\ s.migrated = tok.migrated
         /\ Sold(s) = Sold(tok)
<1> DEFINE most == HtrOnCurve(tok.curve, Sold(tok))
<1>1. GoodToken(tok) BY DEF Covered
<1>2. tok.pool \in Nat /\ Sold(tok) \in 0 .. tok.curve.supply /\ IsCurve(tok.curve)
  BY <1>1, TokenBounds DEF GoodToken
<1>3. most \in Nat /\ most <= tok.pool BY <1>2, OnCurve DEF Covered
<1>4. Deviation(tok) = tok.pool - most
  <2> HIDE DEF most
  <2>1. Deviation(tok) = IF tok.pool > most THEN tok.pool - most ELSE 0
    BY DEF Deviation, most
  <2>2. QED BY <1>2, <1>3, <2>1, SMT
<1>5. tok \in TokenRecord BY <1>1 DEF GoodToken
<1>6. s = [tok EXCEPT !.pool = tok.pool - Deviation(tok)] BY DEF Corrected
<1>7. Deviation(tok) \in Nat /\ tok.pool - Deviation(tok) = most
  <2> HIDE DEF most
  <2>1. QED BY <1>2, <1>3, <1>4, SMT
<1>8. /\ s \in TokenRecord /\ s.pool = most
      /\ s.curve = tok.curve /\ s.reserve = tok.reserve /\ s.migrated = tok.migrated
  <2> HIDE DEF most
  <2>1. QED BY <1>3, <1>5, <1>6, <1>7 DEF TokenRecord
<1>9. Sold(s) = Sold(tok) BY <1>8 DEF Sold
<1>10. GoodToken(s) BY <1>1, <1>8 DEF GoodToken
<1>11. s.pool + Deviation(tok) = tok.pool
  <2> HIDE DEF most
  <2>1. QED BY <1>2, <1>3, <1>4, <1>8, SMT
<1>12. s = [tok EXCEPT !.pool = s.pool] BY <1>5, <1>6, <1>8, <1>7 DEF TokenRecord
<1>13. QED BY <1>3, <1>7, <1>8, <1>9, <1>10, <1>11, <1>12 DEF Balanced

(* A purchase leaves a token covered.                                      *)
LEMMA PurchasedCovered ==
  ASSUME NEW tok, Balanced(tok), GoodRates, NEW amount \in Nat,
         NEW r, r = Purchase(tok, amount), NEW bought, bought = Purchased(tok, r)
  PROVE  /\ Covered(bought)
         /\ bought.pool = tok.pool + r.net /\ bought.reserve = tok.reserve - r.out
         /\ bought.curve = tok.curve /\ bought.migrated = tok.migrated
<1>1. GoodToken(tok) BY DEF Balanced
<1>2. /\ r.out \in Nat /\ r.out <= Room(tok) /\ r.net \in Nat
      /\ r.net * (Slope(tok.curve, Sold(tok)) * Slope(tok.curve, Sold(tok) + r.out))
              >= r.out * tok.curve.a * tok.curve.b
  BY <1>1, PurchaseBounds
<1>3. tok \in TokenRecord /\ IsCurve(tok.curve) BY <1>1 DEF GoodToken
<1>4. /\ tok.curve.supply \in Nat /\ tok.reserve \in Nat /\ tok.pool \in Nat
      /\ Unsold(tok.curve) \in Nat /\ tok.reserve <= tok.curve.supply
      /\ Sold(tok) \in Nat /\ Sold(tok) \in 0 .. tok.curve.supply
  BY <1>1, TokenBounds, SMT DEF GoodToken
<1>5. /\ bought \in TokenRecord
      /\ bought.pool = tok.pool + r.net /\ bought.reserve = tok.reserve - r.out
      /\ bought.curve = tok.curve /\ bought.migrated = tok.migrated
      /\ bought.reserve \in Unsold(tok.curve) .. tok.curve.supply
  <2>1. tok.reserve - r.out \in Nat /\ tok.reserve - r.out \in Unsold(tok.curve) .. tok.curve.supply
    BY <1>2, <1>4, SMT DEF Room
  <2>2. tok.pool + r.net \in Nat BY <1>2, <1>4
  <2>3. QED BY <1>3, <2>1, <2>2 DEF Purchased, TokenRecord
<1>6. Sold(bought) = Sold(tok) + r.out BY <1>2, <1>4, <1>5, SMT DEF Sold
<1>7. Sold(tok) + r.out <= tok.curve.supply BY <1>2, <1>4, SMT DEF Room, Sold
<1>8. tok.pool * Slope(tok.curve, Sold(tok)) >= Sold(tok) * tok.curve.b
  BY <1>3, <1>4, OnCurve DEF Balanced
<1>9. (tok.pool + r.net) * Slope(tok.curve, Sold(tok) + r.out) >= (Sold(tok) + r.out) * tok.curve.b
  <2> DEFINE n == Sold(tok)
             H == r.net
             T == r.out
             k == tok.curve
             P == tok.pool
  <2>1. /\ IsCurve(k) /\ n \in Nat /\ T \in Nat /\ n + T <= k.supply /\ P \in Nat /\ H \in Nat
        /\ P * Slope(k, n) >= n * k.b
        /\ H * (Slope(k, n) * Slope(k, n + T)) >= T * k.a * k.b
    BY <1>2, <1>3, <1>4, <1>7, <1>8
  <2> HIDE DEF n, H, T, k, P
  <2>2. (P + H) * Slope(k, n + T) >= (n + T) * k.b BY <2>1, BuyCovers
  <2>3. QED BY <2>2 DEF n, H, T, k, P
<1>10. QED BY <1>3, <1>5, <1>6, <1>9 DEF Covered, GoodToken

AfterSale(tok, out, amount) == [tok EXCEPT !.pool = @ - out, !.reserve = @ + amount]

(* So does a sale, which the pool covers.                                  *)
LEMMA SoldCovered ==
  ASSUME NEW tok, Balanced(tok), NEW amount \in Nat, amount <= Sold(tok),
         NEW out, out = HtrOut(tok.curve, Sold(tok), amount),
         NEW sold, sold = AfterSale(tok, out, amount)
  PROVE  /\ Covered(sold)
         /\ out \in 0 .. tok.pool
         /\ sold.pool = tok.pool - out /\ sold.reserve = tok.reserve + amount
         /\ sold.curve = tok.curve /\ sold.migrated = tok.migrated
<1>1. GoodToken(tok) BY DEF Balanced
<1>2. tok \in TokenRecord /\ IsCurve(tok.curve) BY <1>1 DEF GoodToken
<1>3. /\ tok.curve.supply \in Nat /\ tok.reserve \in Nat /\ tok.pool \in Nat
      /\ Unsold(tok.curve) \in Nat /\ tok.reserve <= tok.curve.supply
      /\ tok.reserve >= Unsold(tok.curve)
      /\ Sold(tok) \in Nat /\ Sold(tok) \in 0 .. tok.curve.supply
  BY <1>1, TokenBounds, SMT DEF GoodToken
<1>4. tok.pool * Slope(tok.curve, Sold(tok)) >= Sold(tok) * tok.curve.b
  BY <1>2, <1>3, OnCurve DEF Balanced
<1>5. amount \in 0 .. Sold(tok) BY <1>3, SMT
<1>6. /\ out \in 0 .. tok.pool
      /\ (tok.pool - out) * Slope(tok.curve, Sold(tok) - amount) >= (Sold(tok) - amount) * tok.curve.b
  BY <1>2, <1>3, <1>4, <1>5, SellCovers
<1>7. /\ sold \in TokenRecord
      /\ sold.pool = tok.pool - out /\ sold.reserve = tok.reserve + amount
      /\ sold.curve = tok.curve /\ sold.migrated = tok.migrated
      /\ sold.reserve \in Unsold(tok.curve) .. tok.curve.supply
  <2>1. /\ tok.reserve + amount \in Nat
        /\ tok.reserve + amount \in Unsold(tok.curve) .. tok.curve.supply
    BY <1>3, <1>5, SMT DEF Sold
  <2>2. tok.pool - out \in Nat BY <1>3, <1>6, SMT
  <2>3. QED BY <1>2, <2>1, <2>2 DEF TokenRecord, AfterSale
<1>8. Sold(sold) = Sold(tok) - amount BY <1>3, <1>7, SMT DEF Sold
<1>9. QED BY <1>2, <1>6, <1>7, <1>8 DEF Covered, GoodToken

-----------------------------------------------------------------------------
(* Sums: of what users may take, and of what curves hold.                  *)

Tables == [Users -> [Tokens -> Nat]]

Total(table, t) == SumFunctionOnSet([u \in Users |-> table[u][t]], Users)

PoolPart(tok) == IF tok.migrated THEN 0 ELSE tok.pool

Pools(toks) ==
  SumFunctionOnSet([t \in DOMAIN toks |-> PoolPart(toks[t])], DOMAIN toks)

LEMMA CreditSum ==
  ASSUME NEW table \in Tables, NEW u \in Users, NEW t \in Tokens, NEW d \in Int,
         table[u][t] + d >= 0, NEW next, next = Credit(table, u, t, d)
  PROVE  /\ next \in Tables
         /\ \A x \in Tokens : /\ Total(table, x) \in Int /\ Total(next, x) \in Int
                              /\ Total(next, x) = Total(table, x) + (IF x = t THEN d ELSE 0)
         /\ \A v \in Users, x \in Tokens : d >= 0 => next[v][x] >= table[v][x]
<1>1. /\ next \in Tables
      /\ \A v \in Users, x \in Tokens :
           next[v][x] = IF v = u /\ x = t THEN table[v][x] + d ELSE table[v][x]
  <2>1. table[u][t] \in Nat /\ table[u][t] + d \in Nat BY SMT DEF Tables
  <2>2. QED BY <2>1 DEF Credit, Tables
<1>2. ASSUME NEW x \in Tokens
      PROVE  /\ Total(table, x) \in Int /\ Total(next, x) \in Int
             /\ Total(next, x) = Total(table, x) + (IF x = t THEN d ELSE 0)
  <2> DEFINE f == [v \in Users |-> table[v][x]]
             g == [v \in Users |-> next[v][x]]
  <2>1. f \in [Users -> Int] /\ g \in [Users -> Int] BY <1>1 DEF Tables
  <2>2. \A v \in Users \ {u} : g[v] = f[v] BY <1>1
  <2>3. g[u] = f[u] + (IF x = t THEN d ELSE 0)
    <3>1. f[u] = table[u][x] /\ g[u] = next[u][x] OBVIOUS
    <3>2. table[u][x] \in Int BY DEF Tables
    <3> HIDE DEF f, g
    <3>3. QED BY <1>1, <3>1, <3>2, SMT
  <2>4. IsFiniteSet(Users) BY KhensuAssumption
  <2>5. Total(table, x) = SumFunctionOnSet(f, Users) /\ Total(next, x) = SumFunctionOnSet(g, Users)
    BY DEF Total
  <2>6. f[u] \in Int BY <2>1
  <2> HIDE DEF f, g
  <2>7. /\ SumFunctionOnSet(f, Users) \in Int
        /\ SumFunctionOnSet(g, Users) = SumFunctionOnSet(f, Users) - f[u] + g[u]
    BY <2>1, <2>2, <2>4, SumUpdate
  <2>8. QED BY <2>3, <2>5, <2>6, <2>7, SMT
<1>3. ASSUME NEW v \in Users, NEW x \in Tokens, d >= 0 PROVE next[v][x] >= table[v][x]
  <2>1. table[v][x] \in Nat BY DEF Tables
  <2>2. QED BY <1>1, <1>3, <2>1, SMT
<1>4. QED BY <1>1, <1>2, <1>3

LEMMA TotalBounds ==
  ASSUME NEW table \in Tables, NEW t \in Tokens
  PROVE  Total(table, t) \in Nat
<1> DEFINE f == [v \in Users |-> table[v][t]]
<1>1. f \in [Users -> Nat] BY DEF Tables
<1>2. IsFiniteSet(Users) BY KhensuAssumption
<1> HIDE DEF f
<1>3. SumFunctionOnSet(f, Users) \in Nat BY <1>1, <1>2, SumBounds
<1>4. QED BY <1>3 DEF Total, f

LEMMA PoolSum ==
  ASSUME NEW toks, DOMAIN toks \subseteq Ids,
         toks = [t \in DOMAIN toks |-> toks[t]],
         \A t \in DOMAIN toks : toks[t].pool \in Nat,
         NEW x \in DOMAIN toks, NEW tok, tok.pool \in Nat
  PROVE  /\ Pools(toks) \in Int
         /\ Pools([toks EXCEPT ![x] = tok]) = Pools(toks) - PoolPart(toks[x]) + PoolPart(tok)
<1> DEFINE S == DOMAIN toks
           next == [toks EXCEPT ![x] = tok]
           f == [t \in S |-> PoolPart(toks[t])]
           g == [t \in S |-> PoolPart(next[t])]
<1>1. IsFiniteSet(S) BY KhensuAssumption, FS_Subset
<1>2. DOMAIN next = S /\ next[x] = tok /\ \A t \in S \ {x} : next[t] = toks[t] OBVIOUS
<1>3. f \in [S -> Int] BY DEF PoolPart
<1>4. g \in [S -> Int]
  <2>1. \A t \in S : PoolPart(next[t]) \in Int
    <3> HIDE DEF next
    <3>1. QED BY <1>2 DEF PoolPart
  <2>2. QED BY <2>1
<1>5. \A t \in S \ {x} : g[t] = f[t] BY <1>2
<1>6. f[x] = PoolPart(toks[x]) /\ g[x] = PoolPart(tok) BY <1>2
<1>7. Pools(toks) = SumFunctionOnSet(f, S) BY DEF Pools
<1>8. Pools(next) = SumFunctionOnSet(g, S) BY <1>2 DEF Pools
<1> HIDE DEF f, g
<1>9. /\ SumFunctionOnSet(f, S) \in Int
      /\ SumFunctionOnSet(g, S) = SumFunctionOnSet(f, S) - f[x] + g[x]
  BY <1>1, <1>3, <1>4, <1>5, SumUpdate
<1>10. QED BY <1>6, <1>7, <1>8, <1>9

Added(toks, x, tok) ==
  [t \in DOMAIN toks \cup {x} |-> IF t = x THEN tok ELSE toks[t]]

LEMMA PoolAdd ==
  ASSUME NEW toks, DOMAIN toks \subseteq Ids,
         \A t \in DOMAIN toks : toks[t].pool \in Nat,
         NEW x, x \notin DOMAIN toks, NEW tok, tok.pool = 0
  PROVE  /\ Pools(toks) \in Int
         /\ Pools(Added(toks, x, tok)) = Pools(toks)
<1> DEFINE S == DOMAIN toks
           next == [t \in S \cup {x} |-> IF t = x THEN tok ELSE toks[t]]
           f == [t \in S |-> PoolPart(toks[t])]
           g == [t \in S \cup {x} |-> PoolPart(next[t])]
<1>1. IsFiniteSet(S) BY KhensuAssumption, FS_Subset
<1>2. DOMAIN next = S \cup {x} /\ next[x] = tok /\ \A t \in S : next[t] = toks[t] OBVIOUS
<1>3. f \in [S -> Int] BY DEF PoolPart
<1>4. g \in [S \cup {x} -> Int]
  <2>1. \A t \in S \cup {x} : PoolPart(next[t]) \in Int
    <3> HIDE DEF next
    <3>1. QED BY <1>2 DEF PoolPart
  <2>2. QED BY <2>1
<1>5. \A t \in S : g[t] = f[t] BY <1>2
<1>6. g[x] = 0 BY <1>2 DEF PoolPart
<1>7. Pools(toks) = SumFunctionOnSet(f, S) BY DEF Pools
<1>8. Pools(next) = SumFunctionOnSet(g, S \cup {x}) BY <1>2 DEF Pools
<1> HIDE DEF f, g
<1>9. /\ SumFunctionOnSet(f, S) \in Int
      /\ SumFunctionOnSet(g, S \cup {x}) = SumFunctionOnSet(f, S) + g[x]
  BY <1>1, <1>3, <1>4, <1>5, SumAdd
<1>10. QED BY <1>6, <1>7, <1>8, <1>9 DEF Added

-----------------------------------------------------------------------------
(* The invariant.                                                          *)

\* A token on sale is on its curve with something left for sale.
TokenInv(tok) ==
  /\ GoodToken(tok)
  /\ ~tok.migrated => Balanced(tok) /\ tok.reserve > Unsold(tok.curve)

CurveInv ==
  /\ IsCurve(config.curve)
  /\ tokens = [t \in Registered |-> tokens[t]]
  /\ \A t \in Registered : TokenInv(tokens[t])

\* Nothing of a token is in the contract before it is registered.
FreshInv == \A t \in Ids \ Registered : held[t] = Total(balances, t)

IInv == TypeOK /\ CurveInv /\ FreshInv /\ Solvency

LEMMA RatesAreGood == TypeOK => GoodRates
<1>1. MAX_FEE_RATE \in Nat BY KhensuAssumption
<1>2. QED BY <1>1, SMT DEF TypeOK, GoodRates

\* What of a token is left in the contract.
ReservePart(tok) == IF tok.migrated THEN 0 ELSE tok.reserve

LEMMA SolvencyForm ==
  Solvency <=>
    /\ held[HTR] = Pools(tokens) + Total(balances, HTR) + fees.buy + fees.sell + fees.operation
    /\ \A t \in Registered : held[t] = ReservePart(tokens[t]) + Total(balances, t)
BY DEF Solvency, Pools, PoolPart, PoolOf, Total, BalanceOf, ReservePart, Registered

LEMMA SolvencyFormPrime ==
  Solvency' <=>
    /\ held'[HTR] = Pools(tokens') + Total(balances', HTR)
                      + fees'.buy + fees'.sell + fees'.operation
    /\ \A t \in DOMAIN tokens' : held'[t] = ReservePart(tokens'[t]) + Total(balances', t)
BY DEF Solvency, Pools, PoolPart, PoolOf, Total, BalanceOf, ReservePart, Registered

FeeRecord == [buy : Nat, sell : Nat, operation : Nat]

LEMMA BuyFees ==
  ASSUME NEW f \in FeeRecord, NEW p \in Nat, NEW q \in Nat,
         NEW g, g = [f EXCEPT !.buy = @ + p, !.operation = @ + q]
  PROVE  /\ g.buy = f.buy + p /\ g.sell = f.sell /\ g.operation = f.operation + q
         /\ g \in FeeRecord
<1>1. f.buy \in Nat /\ f.sell \in Nat /\ f.operation \in Nat BY DEF FeeRecord
<1>2. g.buy = f.buy + p /\ g.sell = f.sell /\ g.operation = f.operation + q BY DEF FeeRecord
<1>3. f = [buy |-> f.buy, sell |-> f.sell, operation |-> f.operation] BY DEF FeeRecord
<1>4. g = [buy |-> f.buy + p, sell |-> f.sell, operation |-> f.operation + q] BY <1>3
<1>5. f.buy + p \in Nat /\ f.operation + q \in Nat BY <1>1
<1>6. QED BY <1>1, <1>2, <1>4, <1>5 DEF FeeRecord

LEMMA SellFees ==
  ASSUME NEW f \in FeeRecord, NEW p \in Nat, NEW q \in Nat,
         NEW g, g = [f EXCEPT !.sell = @ + p, !.operation = @ + q]
  PROVE  /\ g.buy = f.buy /\ g.sell = f.sell + p /\ g.operation = f.operation + q
         /\ g \in FeeRecord
<1>1. f.buy \in Nat /\ f.sell \in Nat /\ f.operation \in Nat BY DEF FeeRecord
<1>2. g.buy = f.buy /\ g.sell = f.sell + p /\ g.operation = f.operation + q BY DEF FeeRecord
<1>3. f = [buy |-> f.buy, sell |-> f.sell, operation |-> f.operation] BY DEF FeeRecord
<1>4. g = [buy |-> f.buy, sell |-> f.sell + p, operation |-> f.operation + q] BY <1>3
<1>5. f.sell + p \in Nat /\ f.operation + q \in Nat BY <1>1
<1>6. QED BY <1>1, <1>2, <1>4, <1>5 DEF FeeRecord

(* What the two purchases share: the token is on its curve again, and what *)
(* was paid is in the pool, the fees and the balances.                     *)
BuyFacts(t, amount, slack, r, bought, settled, next, change) ==
  /\ r.buyFee \in Nat /\ r.creatorFee \in Nat /\ r.out \in Nat
  /\ amount = r.net + r.buyFee + r.creatorFee + change
  /\ r.net \in Nat /\ change \in Nat
  /\ Balanced(settled) /\ settled.pool \in Nat /\ Deviation(bought) \in Nat
  /\ settled.pool + Deviation(bought) = tokens[t].pool + r.net
  /\ settled.reserve = tokens[t].reserve - r.out /\ settled.reserve \in Nat
  /\ settled.migrated = FALSE /\ settled.curve = tokens[t].curve
  /\ next \in Tables
  /\ \A x \in Tokens : Total(balances, x) \in Int /\ Total(next, x) \in Int
  /\ Total(next, HTR) = Total(balances, HTR) + change + r.creatorFee
  /\ Total(next, t) = Total(balances, t) + slack
  /\ \A x \in Ids \ {t} : Total(next, x) = Total(balances, x)

LEMMA BuyStep ==
  ASSUME IInv, NEW u \in Users, NEW t \in OnSale, NEW amount \in Amounts, NEW slack \in Slacks,
         NEW r, r = Purchase(tokens[t], amount),
         NEW bought, bought = Purchased(tokens[t], r),
         NEW settled, settled = Corrected(bought),
         NEW next, next = BalancesAfter(u, t, tokens[t], r, amount, slack),
         NEW change, change = Change(r.paid, amount)
  PROVE  BuyFacts(t, amount, slack, r, bought, settled, next, change)
<1> DEFINE tok == tokens[t]
<1>1. TypeOK /\ CurveInv BY DEF IInv
<1>2. t \in Ids /\ t \in Tokens /\ HTR \in Tokens /\ t # HTR /\ TokenInv(tok) /\ ~tok.migrated
  BY <1>1, KhensuAssumption DEF OnSale, CurveInv, TypeOK, Tokens
<1>3. Balanced(tok) /\ GoodToken(tok) /\ tok \in TokenRecord BY <1>2 DEF TokenInv, GoodToken
<1>4. GoodRates /\ amount \in Nat /\ slack \in Nat BY <1>1, RatesAreGood, KhensuAssumption
<1>5. /\ r.net \in Nat /\ r.paid \in Nat /\ r.paid <= amount
      /\ r.buyFee \in Nat /\ r.creatorFee \in Nat /\ r.out \in Nat
      /\ r.paid = r.net + r.buyFee + r.creatorFee
  BY <1>3, <1>4, PurchaseBounds
<1>6. change = amount - r.paid /\ change \in Nat BY <1>4, <1>5, SMT DEF Change
<1>7. amount = r.net + r.buyFee + r.creatorFee + change
  <2>1. QED BY <1>4, <1>5, <1>6, SMT
<1>8. /\ Covered(bought) /\ bought.pool = tok.pool + r.net
      /\ bought.reserve = tok.reserve - r.out
      /\ bought.curve = tok.curve /\ bought.migrated = tok.migrated
  BY <1>3, <1>4, PurchasedCovered
<1>9. /\ Balanced(settled) /\ Deviation(bought) \in Nat /\ settled.pool \in Nat
      /\ settled.pool + Deviation(bought) = bought.pool
      /\ settled.curve = bought.curve /\ settled.reserve = bought.reserve
      /\ settled.migrated = bought.migrated
  BY <1>8, CorrectedBounds
<1>10. settled.migrated = FALSE /\ settled.reserve \in Nat
  BY <1>2, <1>3, <1>8, <1>9 DEF TokenRecord, Balanced, GoodToken
<1> DEFINE b1 == Credit(balances, u, t, slack)
           b2 == Credit(b1, u, HTR, change)
<1>11. tok.creator \in Users /\ balances \in Tables BY <1>1, <1>3 DEF TypeOK, Tables, TokenRecord
<1>12. \A tab \in Tables : \A v \in Users, x \in Tokens : tab[v][x] \in Nat BY DEF Tables
<1>13. /\ b1 \in Tables
       /\ \A x \in Tokens : /\ Total(balances, x) \in Int /\ Total(b1, x) \in Int
                            /\ Total(b1, x) = Total(balances, x) + (IF x = t THEN slack ELSE 0)
  <2>1. balances[u][t] + slack >= 0 BY <1>2, <1>4, <1>11, <1>12, SMT
  <2>2. QED BY <1>2, <1>4, <1>11, <2>1, CreditSum
<1>14. /\ b2 \in Tables
       /\ \A x \in Tokens : /\ Total(b2, x) \in Int
                            /\ Total(b2, x) = Total(b1, x) + (IF x = HTR THEN change ELSE 0)
  <2> HIDE DEF b1
  <2>1. b1[u][HTR] + change >= 0 BY <1>2, <1>6, <1>12, <1>13, SMT
  <2>2. QED BY <1>2, <1>6, <1>13, <2>1, CreditSum
<1>15. next = Credit(b2, tok.creator, HTR, r.creatorFee) BY DEF BalancesAfter
<1>16. /\ next \in Tables
       /\ \A x \in Tokens : /\ Total(next, x) \in Int
                            /\ Total(next, x) = Total(b2, x) + (IF x = HTR THEN r.creatorFee ELSE 0)
  <2> HIDE DEF b2, tok
  <2>1. b2[tok.creator][HTR] + r.creatorFee >= 0 BY <1>2, <1>5, <1>11, <1>12, <1>14, SMT
  <2>2. QED BY <1>2, <1>5, <1>11, <1>14, <1>15, <2>1, CreditSum
<1> HIDE DEF b1, b2, tok
<1>17. Total(next, HTR) = Total(balances, HTR) + change + r.creatorFee
  BY <1>2, <1>5, <1>6, <1>13, <1>14, <1>16, SMT
<1>18. Total(next, t) = Total(balances, t) + slack
  BY <1>2, <1>4, <1>13, <1>14, <1>16, SMT
<1>19. \A x \in Ids \ {t} : Total(next, x) = Total(balances, x)
  <2>1. HTR \notin Ids BY KhensuAssumption
  <2>2. QED BY <1>13, <1>14, <1>16, <2>1, SMT DEF Tokens
<1>20. QED BY <1>5, <1>6, <1>7, <1>8, <1>9, <1>10, <1>13, <1>16, <1>17, <1>18, <1>19
            DEF tok, BuyFacts

-----------------------------------------------------------------------------
(* The steps.                                                              *)

(* Replacing one token by a good one keeps the conjuncts about tokens.     *)
LEMMA TokenStep ==
  ASSUME IInv, NEW t \in Registered, NEW tok, TokenInv(tok),
         config' = config, tokens' = [tokens EXCEPT ![t] = tok]
  PROVE  /\ CurveInv'
         /\ DOMAIN tokens' = Registered /\ Registered' = Registered
         /\ Registered' \subseteq Ids
         /\ \A x \in Registered' : /\ tokens'[x] \in TokenRecord
                                   /\ tokens'[x].reserve
                                        \in Unsold(tokens'[x].curve) .. tokens'[x].curve.supply
         /\ tokens'[t] = tok /\ \A x \in Registered \ {t} : tokens'[x] = tokens[x]
         /\ Pools(tokens) \in Int
         /\ Pools(tokens') = Pools(tokens) - PoolPart(tokens[t]) + PoolPart(tok)
<1>1. TypeOK /\ CurveInv BY DEF IInv
<1>2. /\ DOMAIN tokens' = Registered /\ Registered' = Registered
      /\ tokens'[t] = tok /\ \A x \in Registered \ {t} : tokens'[x] = tokens[x]
  BY DEF Registered
<1>3. \A x \in Registered : TokenInv(tokens'[x]) BY <1>1, <1>2 DEF CurveInv
<1>4. \A x \in Registered : tokens'[x] \in TokenRecord /\ tokens'[x].reserve
                                        \in Unsold(tokens'[x].curve) .. tokens'[x].curve.supply
  BY <1>3 DEF TokenInv, GoodToken
<1>5. tokens' = [x \in Registered' |-> tokens'[x]] BY <1>2 DEF Registered
<1>6. CurveInv' BY <1>1, <1>2, <1>3, <1>5 DEF CurveInv
<1>7. Registered \subseteq Ids BY <1>1 DEF TypeOK
<1>8. \A x \in Registered : tokens[x].pool \in Nat BY <1>1 DEF TypeOK, TokenRecord
<1>9. tok.pool \in Nat BY TokenBounds DEF TokenInv
<1>10. /\ Pools(tokens) \in Int
       /\ Pools(tokens') = Pools(tokens) - PoolPart(tokens[t]) + PoolPart(tok)
  BY <1>1, <1>7, <1>8, <1>9, PoolSum DEF CurveInv, Registered
<1>11. QED BY <1>2, <1>4, <1>6, <1>7, <1>10

LEMMA BuyTokensStep ==
  ASSUME IInv, NEW u \in Users, NEW t \in OnSale, NEW amount \in Amounts, NEW slack \in Slacks,
         BuyTokens(u, t, amount, slack)
  PROVE  IInv'
<1>0. PICK r, bought, settled, next, change :
        /\ r = Purchase(tokens[t], amount)
        /\ bought = Purchased(tokens[t], r) /\ settled = Corrected(bought)
        /\ next = BalancesAfter(u, t, tokens[t], r, amount, slack)
        /\ change = Change(r.paid, amount)
  OBVIOUS
<1>1. /\ Called /\ ~Full(settled)
      /\ tokens' = [tokens EXCEPT ![t] = settled]
      /\ fees' = [fees EXCEPT !.buy = @ + r.buyFee, !.operation = @ + Deviation(bought)]
      /\ balances' = next
      /\ held' = [held EXCEPT ![HTR] = @ + amount, ![t] = @ - (r.out - slack)]
      /\ config' = config /\ graduated' = graduated /\ dozer' = dozer
  BY <1>0 DEF BuyTokens
<1>2. TypeOK /\ CurveInv /\ Solvency BY DEF IInv
<1>3. /\ r.buyFee \in Nat /\ r.creatorFee \in Nat /\ r.out \in Nat
      /\ amount = r.net + r.buyFee + r.creatorFee + change
      /\ r.net \in Nat /\ change \in Nat
      /\ Balanced(settled) /\ settled.pool \in Nat /\ Deviation(bought) \in Nat
      /\ settled.pool + Deviation(bought) = tokens[t].pool + r.net
      /\ settled.reserve = tokens[t].reserve - r.out /\ settled.reserve \in Nat
      /\ settled.migrated = FALSE /\ settled.curve = tokens[t].curve
      /\ next \in Tables
      /\ \A x \in Tokens : Total(balances, x) \in Int /\ Total(next, x) \in Int
      /\ Total(next, HTR) = Total(balances, HTR) + change + r.creatorFee
      /\ Total(next, t) = Total(balances, t) + slack
      /\ \A x \in Ids \ {t} : Total(next, x) = Total(balances, x)
  <2>1. BuyFacts(t, amount, slack, r, bought, settled, next, change) BY <1>0, BuyStep
  <2>2. QED BY <2>1 DEF BuyFacts
<1>4. t \in Registered /\ ~tokens[t].migrated /\ t \in Ids /\ t # HTR /\ HTR \notin Ids
  BY <1>2, KhensuAssumption DEF OnSale, TypeOK
<1>5. settled.reserve > Unsold(settled.curve)
  <2>1. GoodToken(settled) BY <1>3 DEF Balanced
  <2>2. settled.reserve # Unsold(settled.curve)
    BY <1>1, <1>3, <2>1, FullIsFunded DEF Balanced
  <2>3. settled.reserve \in Nat /\ Unsold(settled.curve) \in Nat BY <2>1, TokenBounds, SMT
  <2>4. settled.reserve >= Unsold(settled.curve) BY <2>1, <2>3, SMT DEF GoodToken
  <2>5. QED BY <2>2, <2>3, <2>4, SMT
<1>6. TokenInv(settled) BY <1>3, <1>5 DEF TokenInv, Balanced
<1>7. /\ CurveInv'
      /\ Registered' = Registered /\ DOMAIN tokens' = Registered
      /\ Registered' \subseteq Ids
      /\ \A x \in Registered' : /\ tokens'[x] \in TokenRecord
                                /\ tokens'[x].reserve
                                     \in Unsold(tokens'[x].curve) .. tokens'[x].curve.supply
      /\ tokens'[t] = settled /\ \A x \in Registered \ {t} : tokens'[x] = tokens[x]
      /\ Pools(tokens) \in Int
      /\ Pools(tokens') = Pools(tokens) - PoolPart(tokens[t]) + PoolPart(settled)
  BY <1>1, <1>4, <1>6, TokenStep
<1>8. amount \in Nat /\ slack \in Nat BY KhensuAssumption
<1>9. /\ fees \in [buy : Nat, sell : Nat, operation : Nat]
      /\ held \in [Tokens -> Int]
  BY <1>2 DEF TypeOK
<1>10. /\ fees' \in [buy : Nat, sell : Nat, operation : Nat]
       /\ fees'.buy = fees.buy + r.buyFee /\ fees'.sell = fees.sell
       /\ fees'.operation = fees.operation + Deviation(bought)
  <2>1. fees' = [fees EXCEPT !.buy = @ + r.buyFee, !.operation = @ + Deviation(bought)]
    BY <1>1
  <2>2. r.buyFee \in Nat /\ Deviation(bought) \in Nat BY <1>3
  <2>3. fees \in FeeRecord BY <1>9 DEF FeeRecord
  <2>4. QED BY <2>1, <2>2, <2>3, BuyFees DEF FeeRecord
<1>11. /\ held' \in [Tokens -> Int]
       /\ held'[HTR] = held[HTR] + amount
       /\ held'[t] = held[t] - (r.out - slack)
       /\ \A x \in Ids \ {t} : held'[x] = held[x]
  BY <1>1, <1>3, <1>4, <1>8, <1>9 DEF Tokens
<1>12. TypeOK'
  <2>1. calls' \in 0 .. MaxCalls BY <1>1, <1>2, KhensuAssumption, SMT DEF TypeOK, Called
  <2>2. QED BY <1>1, <1>2, <1>3, <1>7, <1>10, <1>11, <2>1 DEF TypeOK, Tables
<1>13. Solvency'
  <2>1. /\ held[HTR] = Pools(tokens) + Total(balances, HTR) + fees.buy + fees.sell + fees.operation
        /\ \A x \in Registered : held[x] = ReservePart(tokens[x]) + Total(balances, x)
    BY <1>2, SolvencyForm
  <2>2. HTR \in Tokens /\ t \in Tokens BY <1>4 DEF Tokens
  <2>3. /\ fees.buy \in Int /\ fees.sell \in Int /\ fees.operation \in Int /\ held[t] \in Int
        /\ held[HTR] \in Int
    BY <1>9, <2>2
  <2>4. tokens[t].pool \in Int /\ tokens[t].reserve \in Int
    BY <1>2, <1>4 DEF TypeOK, TokenRecord
  <2>5. PoolPart(tokens[t]) = tokens[t].pool /\ PoolPart(settled) = settled.pool
    BY <1>3, <1>4 DEF PoolPart
  <2>6. held'[HTR] = Pools(tokens') + Total(balances', HTR)
                      + fees'.buy + fees'.sell + fees'.operation
    <3>1. balances' = next BY <1>1
    <3>2. /\ Total(balances, HTR) \in Int
          /\ Total(next, HTR) = Total(balances, HTR) + change + r.creatorFee
          /\ settled.pool + Deviation(bought) = tokens[t].pool + r.net
          /\ amount = r.net + r.buyFee + r.creatorFee + change
          /\ r.net \in Int /\ r.buyFee \in Int /\ r.creatorFee \in Int /\ change \in Int
          /\ settled.pool \in Int /\ Deviation(bought) \in Int
      BY <1>3, <2>2
    <3>3. /\ Pools(tokens) \in Int
          /\ Pools(tokens') = Pools(tokens) - PoolPart(tokens[t]) + PoolPart(settled)
      BY <1>7
    <3>4. /\ held[HTR] = Pools(tokens) + Total(balances, HTR)
                          + fees.buy + fees.sell + fees.operation
          /\ held'[HTR] = held[HTR] + amount
          /\ fees'.buy = fees.buy + r.buyFee /\ fees'.sell = fees.sell
          /\ fees'.operation = fees.operation + Deviation(bought)
      BY <1>10, <1>11, <2>1
    <3>5. /\ Pools(tokens') = Pools(tokens) - tokens[t].pool + settled.pool
          /\ Total(balances', HTR) = Total(balances, HTR) + change + r.creatorFee
      BY <2>5, <3>1, <3>2, <3>3
    <3>6. Pools(tokens') = Pools(tokens) + r.net - Deviation(bought)
      BY <2>4, <3>2, <3>3, <3>5, SMT
    <3>7. amount = r.net + r.buyFee + r.creatorFee + change BY <3>2
    <3>8. /\ Total(balances, HTR) \in Int /\ r.net \in Int /\ r.buyFee \in Int
          /\ r.creatorFee \in Int /\ change \in Int /\ Deviation(bought) \in Int
      BY <3>2
    <3>9. QED BY <2>3, <3>3, <3>4, <3>5, <3>6, <3>7, <3>8, SMT
  <2>7. held'[t] = ReservePart(tokens'[t]) + Total(balances', t)
    <3>1. balances' = next BY <1>1
    <3>2. ReservePart(tokens[t]) = tokens[t].reserve /\ ReservePart(tokens'[t]) = settled.reserve
      BY <1>3, <1>4, <1>7 DEF ReservePart
    <3>3. QED BY <1>3, <1>4, <1>8, <1>11, <2>1, <2>2, <2>3, <2>4, <3>1, <3>2, SMT
  <2>8. ASSUME NEW x \in Registered \ {t}
        PROVE held'[x] = ReservePart(tokens'[x]) + Total(balances', x)
    BY <1>1, <1>2, <1>3, <1>7, <1>11, <2>1 DEF TypeOK
  <2>9. QED BY <1>7, <2>6, <2>7, <2>8, SolvencyFormPrime
<1>14. FreshInv'
  <2>1. \A x \in Ids \ Registered : x # t /\ held[x] = Total(balances, x)
    BY <1>4 DEF IInv, FreshInv
  <2>2. QED BY <1>1, <1>3, <1>7, <1>11, <2>1 DEF FreshInv
<1>15. QED BY <1>7, <1>12, <1>13, <1>14 DEF IInv

LEMMA BuyAndGraduateStep ==
  ASSUME IInv, NEW u \in Users, NEW t \in OnSale, NEW amount \in Amounts, NEW slack \in Slacks,
         BuyAndGraduate(u, t, amount, slack)
  PROVE  IInv'
<1>0. PICK r, bought, settled, next, change, done, rest :
        /\ r = Purchase(tokens[t], amount)
        /\ bought = Purchased(tokens[t], r) /\ settled = Corrected(bought)
        /\ next = BalancesAfter(u, t, tokens[t], r, amount, slack)
        /\ change = Change(r.paid, amount)
        /\ done = [settled EXCEPT !.migrated = TRUE, !.poolFee = config.poolFee]
        /\ rest = settled.pool - Liquidity(settled.curve) - FEE_TOKEN_VALUE
  OBVIOUS
<1>1. /\ Called /\ Funded(settled)
      /\ tokens' = [tokens EXCEPT ![t] = done]
      /\ graduated' = Append(graduated, t)
      /\ fees' = [fees EXCEPT !.buy = @ + r.buyFee, !.operation = @ + Deviation(bought) + rest]
      /\ balances' = next
      /\ dozer' = [dozer EXCEPT !.pools = @ \cup {<<t, config.poolFee>>}, !.reserved = @ \ {t}]
      /\ held' = [held EXCEPT ![HTR] = @ + amount - Migrated(settled),
                              ![t] = @ - (r.out - slack) - settled.reserve]
      /\ config' = config
  BY <1>0 DEF BuyAndGraduate
<1>2. TypeOK /\ CurveInv /\ Solvency BY DEF IInv
<1>3. /\ r.buyFee \in Nat /\ r.creatorFee \in Nat /\ r.out \in Nat
      /\ amount = r.net + r.buyFee + r.creatorFee + change
      /\ r.net \in Nat /\ change \in Nat
      /\ Balanced(settled) /\ settled.pool \in Nat /\ Deviation(bought) \in Nat
      /\ settled.pool + Deviation(bought) = tokens[t].pool + r.net
      /\ settled.reserve = tokens[t].reserve - r.out /\ settled.reserve \in Nat
      /\ settled.migrated = FALSE /\ settled.curve = tokens[t].curve
      /\ next \in Tables
      /\ \A x \in Tokens : Total(balances, x) \in Int /\ Total(next, x) \in Int
      /\ Total(next, HTR) = Total(balances, HTR) + change + r.creatorFee
      /\ Total(next, t) = Total(balances, t) + slack
      /\ \A x \in Ids \ {t} : Total(next, x) = Total(balances, x)
  <2>1. BuyFacts(t, amount, slack, r, bought, settled, next, change) BY <1>0, BuyStep
  <2>2. QED BY <2>1 DEF BuyFacts
<1>4. t \in Registered /\ ~tokens[t].migrated /\ t \in Ids /\ t # HTR /\ HTR \notin Ids
  BY <1>2, KhensuAssumption DEF OnSale, TypeOK
<1>5. config.poolFee \in Int
  <2>1. MAX_POOL_FEE_RATE \in Nat BY KhensuAssumption
  <2>2. config.poolFee \in 0 .. MAX_POOL_FEE_RATE BY <1>2 DEF TypeOK
  <2>3. QED BY <2>1, <2>2, SMT
<1>6. /\ done.migrated = TRUE /\ done.reserve = settled.reserve /\ done.curve = settled.curve
      /\ TokenInv(done)
  <2>1. GoodToken(settled) /\ settled \in TokenRecord BY <1>3 DEF Balanced, GoodToken
  <2>2. done \in TokenRecord /\ done.migrated = TRUE /\ done.reserve = settled.reserve
        /\ done.curve = settled.curve
    BY <1>0, <1>5, <2>1 DEF TokenRecord
  <2>3. QED BY <2>1, <2>2 DEF TokenInv, GoodToken
<1>7. rest \in Nat /\ Liquidity(settled.curve) \in Int
      /\ rest = settled.pool - Migrated(settled) /\ Migrated(settled) \in Int
  <2>1. IsCurve(settled.curve) /\ 0 \in 0 .. settled.curve.supply
    <3>1. GoodToken(settled) BY <1>3 DEF Balanced
    <3>2. settled.curve.supply \in Nat BY <3>1, TokenBounds
    <3>3. QED BY <3>1, <3>2, SMT DEF GoodToken
  <2>2. settled.curve.graduation \in Nat \ {0} /\ settled.curve.cap \in Nat \ {0}
    BY <2>1, SlopePositive
  <2>3. settled.pool - settled.curve.graduation >= Liquidity(settled.curve) BY <1>1 DEF Funded
  <2>4. Liquidity(settled.curve) \in Int BY <2>2, SMT DEF Liquidity
  <2>5. rest = settled.pool - Liquidity(settled.curve) - FEE_TOKEN_VALUE BY <1>0
  <2>6. settled.pool \in Nat BY <1>3
  <2>7. QED BY <2>2, <2>3, <2>4, <2>5, <2>6, SMT DEF FEE_TOKEN_VALUE, Migrated
<1>8. /\ CurveInv'
      /\ Registered' = Registered /\ DOMAIN tokens' = Registered
      /\ Registered' \subseteq Ids
      /\ \A x \in Registered' : /\ tokens'[x] \in TokenRecord
                                /\ tokens'[x].reserve
                                     \in Unsold(tokens'[x].curve) .. tokens'[x].curve.supply
      /\ tokens'[t] = done /\ \A x \in Registered \ {t} : tokens'[x] = tokens[x]
      /\ Pools(tokens) \in Int
      /\ Pools(tokens') = Pools(tokens) - PoolPart(tokens[t]) + PoolPart(done)
  BY <1>1, <1>4, <1>6, TokenStep
<1>9. amount \in Nat /\ slack \in Nat BY KhensuAssumption
<1>10. /\ fees \in [buy : Nat, sell : Nat, operation : Nat]
       /\ held \in [Tokens -> Int]
  BY <1>2 DEF TypeOK
<1>11. /\ fees' \in [buy : Nat, sell : Nat, operation : Nat]
       /\ fees'.buy = fees.buy + r.buyFee /\ fees'.sell = fees.sell
       /\ fees'.operation = fees.operation + Deviation(bought) + rest
  <2>1. fees' = [fees EXCEPT !.buy = @ + r.buyFee, !.operation = @ + Deviation(bought) + rest]
    BY <1>1
  <2>2. r.buyFee \in Nat /\ Deviation(bought) \in Nat /\ rest \in Nat BY <1>3, <1>7
  <2>3. fees \in FeeRecord /\ fees.operation \in Nat BY <1>10 DEF FeeRecord
  <2>4. /\ Deviation(bought) + rest \in Nat
        /\ fees.operation + Deviation(bought) + rest = fees.operation + (Deviation(bought) + rest)
    BY <2>2, <2>3, SMT
  <2>5. fees' = [fees EXCEPT !.buy = @ + r.buyFee, !.operation = @ + (Deviation(bought) + rest)]
    BY <2>1, <2>4
  <2>6. QED BY <2>2, <2>3, <2>4, <2>5, BuyFees DEF FeeRecord
<1>12. /\ held' \in [Tokens -> Int]
       /\ held'[HTR] = held[HTR] + amount - Migrated(settled)
       /\ held'[t] = held[t] - (r.out - slack) - settled.reserve
       /\ \A x \in Ids \ {t} : held'[x] = held[x]
  <2>1. held' = [held EXCEPT ![HTR] = @ + amount - Migrated(settled),
                             ![t] = @ - (r.out - slack) - settled.reserve]
    BY <1>1
  <2>2. r.out \in Nat /\ settled.reserve \in Nat /\ Migrated(settled) \in Int BY <1>3, <1>7
  <2>3. QED BY <1>4, <1>9, <1>10, <2>1, <2>2 DEF Tokens
<1>13. TypeOK'
  <2>1. calls' \in 0 .. MaxCalls BY <1>1, <1>2, KhensuAssumption, SMT DEF TypeOK, Called
  <2>2. graduated' \in Seq(Ids) BY <1>1, <1>2, <1>4 DEF TypeOK
  <2>3. dozer' \in [signer : BOOLEAN, reserved : SUBSET Ids, pools : SUBSET (Ids \X Int)]
    <3>1. dozer' = [dozer EXCEPT !.pools = @ \cup {<<t, config.poolFee>>}, !.reserved = @ \ {t}]
      BY <1>1
    <3>2. dozer \in [signer : BOOLEAN, reserved : SUBSET Ids, pools : SUBSET (Ids \X Int)]
      BY <1>2 DEF TypeOK
    <3>3. <<t, config.poolFee>> \in Ids \X Int BY <1>4, <1>5
    <3>4. QED BY <3>1, <3>2, <3>3
  <2>4. QED BY <1>1, <1>2, <1>3, <1>8, <1>11, <1>12, <2>1, <2>2, <2>3 DEF TypeOK, Tables
<1>14. Solvency'
  <2>1. /\ held[HTR] = Pools(tokens) + Total(balances, HTR) + fees.buy + fees.sell + fees.operation
        /\ \A x \in Registered : held[x] = ReservePart(tokens[x]) + Total(balances, x)
    BY <1>2, SolvencyForm
  <2>2. HTR \in Tokens /\ t \in Tokens /\ balances' = next BY <1>1, <1>4 DEF Tokens
  <2>3. /\ fees.buy \in Int /\ fees.sell \in Int /\ fees.operation \in Int /\ held[t] \in Int
        /\ held[HTR] \in Int
    BY <1>10, <2>2
  <2>4. tokens[t].pool \in Int /\ tokens[t].reserve \in Int
    BY <1>2, <1>4 DEF TypeOK, TokenRecord
  <2>5. PoolPart(tokens[t]) = tokens[t].pool /\ PoolPart(done) = 0
    BY <1>4, <1>6 DEF PoolPart
  <2>6. held'[HTR] = Pools(tokens') + Total(balances', HTR)
                      + fees'.buy + fees'.sell + fees'.operation
    <3>1. /\ Total(balances, HTR) \in Int
          /\ Total(next, HTR) = Total(balances, HTR) + change + r.creatorFee
          /\ settled.pool + Deviation(bought) = tokens[t].pool + r.net
          /\ amount = r.net + r.buyFee + r.creatorFee + change
          /\ r.net \in Int /\ r.buyFee \in Int /\ r.creatorFee \in Int /\ change \in Int
          /\ settled.pool \in Int /\ Deviation(bought) \in Int
      BY <1>3, <2>2
    <3>2. /\ Pools(tokens) \in Int
          /\ Pools(tokens') = Pools(tokens) - PoolPart(tokens[t]) + PoolPart(done)
      BY <1>8
    <3>3. rest = settled.pool - Migrated(settled) /\ Migrated(settled) \in Int BY <1>7
    <3>4. /\ held[HTR] = Pools(tokens) + Total(balances, HTR)
                          + fees.buy + fees.sell + fees.operation
          /\ held'[HTR] = held[HTR] + amount - Migrated(settled)
          /\ fees'.buy = fees.buy + r.buyFee /\ fees'.sell = fees.sell
          /\ fees'.operation = fees.operation + Deviation(bought) + rest
      BY <1>11, <1>12, <2>1
    <3>5. /\ Pools(tokens') = Pools(tokens) - tokens[t].pool
          /\ Total(balances', HTR) = Total(balances, HTR) + change + r.creatorFee
      <4>1. Pools(tokens') = Pools(tokens) - tokens[t].pool + 0 BY <2>5, <3>2
      <4>2. QED BY <2>2, <2>4, <3>1, <3>2, <4>1, SMT
    <3>6. /\ Total(balances, HTR) \in Int /\ r.net \in Int /\ r.buyFee \in Int
          /\ r.creatorFee \in Int /\ change \in Int /\ Deviation(bought) \in Int
          /\ Migrated(settled) \in Int /\ Pools(tokens) \in Int
      BY <3>1, <3>2, <3>3
    <3>7. Deviation(bought) + rest = tokens[t].pool + r.net - Migrated(settled)
      <4>1. /\ settled.pool + Deviation(bought) = tokens[t].pool + r.net
            /\ rest = settled.pool - Migrated(settled) /\ settled.pool \in Int
        BY <3>1, <3>3
      <4>2. QED BY <2>4, <3>6, <4>1, SMT
    <3>8. fees'.operation = fees.operation + (tokens[t].pool + r.net - Migrated(settled))
      <4>1. fees'.operation = fees.operation + Deviation(bought) + rest BY <3>4
      <4>2. rest \in Int BY <1>7, <3>1, <3>3
      <4>3. fees'.operation = fees.operation + (Deviation(bought) + rest)
        BY <2>3, <3>6, <4>1, <4>2, SMT
      <4>4. QED BY <3>7, <4>3
    <3>9. held'[HTR] = Pools(tokens) + Total(balances, HTR)
                        + fees.buy + fees.sell + fees.operation
                        + (r.net + r.buyFee + r.creatorFee + change) - Migrated(settled)
      BY <3>1, <3>4
    <3>10. fees'.buy = fees.buy + r.buyFee /\ fees'.sell = fees.sell BY <3>4
    <3>11. QED BY <2>3, <2>4, <3>5, <3>6, <3>8, <3>9, <3>10, SMT
  <2>7. held'[t] = ReservePart(tokens'[t]) + Total(balances', t)
    <3>1. ReservePart(tokens[t]) = tokens[t].reserve /\ ReservePart(tokens'[t]) = 0
      BY <1>4, <1>6, <1>8 DEF ReservePart
    <3>2. QED BY <1>3, <1>4, <1>9, <1>12, <2>1, <2>2, <2>3, <2>4, <3>1, SMT
  <2>8. ASSUME NEW x \in Registered \ {t}
        PROVE held'[x] = ReservePart(tokens'[x]) + Total(balances', x)
    BY <1>2, <1>3, <1>8, <1>12, <2>1, <2>2 DEF TypeOK
  <2>9. QED BY <1>8, <2>6, <2>7, <2>8, SolvencyFormPrime
<1>15. FreshInv'
  <2>1. \A x \in Ids \ Registered : x # t /\ held[x] = Total(balances, x)
    BY <1>4 DEF IInv, FreshInv
  <2>2. QED BY <1>1, <1>3, <1>8, <1>12, <2>1 DEF FreshInv
<1>16. QED BY <1>8, <1>13, <1>14, <1>15 DEF IInv

LEMMA SellTokensStep ==
  ASSUME IInv, NEW u \in Users, NEW t \in OnSale, NEW amount \in Amounts, NEW slack \in Slacks,
         SellTokens(u, t, amount, slack)
  PROVE  IInv'
<1>0. PICK out, fee, net, sold, settled, next :
        /\ out = HtrOut(tokens[t].curve, Sold(tokens[t]), amount)
        /\ fee = FeeOn(out, config.sellFee)
        /\ net = out - fee
        /\ sold = AfterSale(tokens[t], out, amount)
        /\ settled = Corrected(sold)
        /\ next = Credit(balances, u, HTR, slack)
  OBVIOUS
<1>1. /\ Called /\ amount <= tokens[t].curve.supply - held[t]
      /\ tokens' = [tokens EXCEPT ![t] = settled]
      /\ fees' = [fees EXCEPT !.sell = @ + fee, !.operation = @ + Deviation(sold)]
      /\ balances' = next
      /\ held' = [held EXCEPT ![t] = @ + amount, ![HTR] = @ - (net - slack)]
      /\ config' = config /\ graduated' = graduated /\ dozer' = dozer
  BY <1>0 DEF SellTokens, AfterSale
<1>2. TypeOK /\ CurveInv /\ Solvency BY DEF IInv
<1>3. t \in Registered /\ ~tokens[t].migrated /\ t \in Ids /\ t # HTR /\ HTR \notin Ids
  BY <1>2, KhensuAssumption DEF OnSale, TypeOK
<1>4. amount \in Nat /\ slack \in Nat /\ HTR \in Tokens /\ t \in Tokens
  BY <1>3, KhensuAssumption DEF Tokens
<1>5. /\ held[HTR] = Pools(tokens) + Total(balances, HTR) + fees.buy + fees.sell + fees.operation
      /\ \A x \in Registered : held[x] = ReservePart(tokens[x]) + Total(balances, x)
  BY <1>2, SolvencyForm
<1>6. /\ Balanced(tokens[t]) /\ GoodToken(tokens[t])
      /\ tokens[t].reserve > Unsold(tokens[t].curve)
      /\ tokens[t].reserve \in Nat /\ tokens[t].curve.supply \in Nat /\ tokens[t].pool \in Nat
      /\ Unsold(tokens[t].curve) \in Nat
  <2>1. TokenInv(tokens[t]) BY <1>2, <1>3 DEF CurveInv
  <2>2. QED BY <1>3, <2>1, TokenBounds, SMT DEF TokenInv
<1>7. balances \in Tables BY <1>2 DEF TypeOK, Tables
<1>8. amount <= Sold(tokens[t])
  <2>1. held[t] = tokens[t].reserve + Total(balances, t) BY <1>3, <1>5 DEF ReservePart
  <2>2. Total(balances, t) \in Nat BY <1>4, <1>7, TotalBounds
  <2>3. QED BY <1>1, <1>4, <1>6, <2>1, <2>2, SMT DEF Sold
<1>9. /\ Covered(sold) /\ out \in 0 .. tokens[t].pool
      /\ sold.pool = tokens[t].pool - out /\ sold.reserve = tokens[t].reserve + amount
      /\ sold.curve = tokens[t].curve /\ sold.migrated = tokens[t].migrated
  <2>1. out = HtrOut(tokens[t].curve, Sold(tokens[t]), amount) BY <1>0
  <2>2. sold = AfterSale(tokens[t], out, amount) BY <1>0
  <2>3. amount \in Nat BY <1>4
  <2>4. Balanced(tokens[t]) BY <1>6
  <2>5. QED BY <1>8, <2>1, <2>2, <2>3, <2>4, SoldCovered
<1>10. /\ Balanced(settled) /\ Deviation(sold) \in Nat /\ settled.pool \in Nat
       /\ settled.pool + Deviation(sold) = sold.pool
       /\ settled.curve = sold.curve /\ settled.reserve = sold.reserve
       /\ settled.migrated = sold.migrated
  <2>1. settled = Corrected(sold) BY <1>0
  <2>2. Covered(sold) BY <1>9
  <2>3. QED BY <2>1, <2>2, CorrectedBounds
<1>11. out \in Nat /\ fee \in Nat /\ net \in Int
  <2>1. out \in Nat BY <1>6, <1>9, SMT
  <2>2. config.sellFee \in Nat
    <3>1. MAX_FEE_RATE \in Nat /\ config.sellFee \in 0 .. MAX_FEE_RATE
      BY <1>2, KhensuAssumption DEF TypeOK
    <3>2. QED BY <3>1, SMT
  <2>3. fee \in Nat BY <1>0, <2>1, <2>2, FeeOnBounds
  <2>4. QED BY <1>0, <2>1, <2>3
<1>12. TokenInv(settled)
  <2>1. settled.reserve > Unsold(settled.curve) BY <1>4, <1>6, <1>9, <1>10, SMT
  <2>2. QED BY <1>10, <2>1 DEF TokenInv, Balanced
<1>13. /\ CurveInv'
       /\ Registered' = Registered /\ DOMAIN tokens' = Registered
       /\ Registered' \subseteq Ids
       /\ \A x \in Registered' : /\ tokens'[x] \in TokenRecord
                                 /\ tokens'[x].reserve
                                      \in Unsold(tokens'[x].curve) .. tokens'[x].curve.supply
       /\ tokens'[t] = settled /\ \A x \in Registered \ {t} : tokens'[x] = tokens[x]
       /\ Pools(tokens) \in Int
       /\ Pools(tokens') = Pools(tokens) - PoolPart(tokens[t]) + PoolPart(settled)
  BY <1>1, <1>3, <1>12, TokenStep
<1>14. /\ next \in Tables
       /\ \A x \in Tokens : /\ Total(balances, x) \in Int /\ Total(next, x) \in Int
                            /\ Total(next, x) = Total(balances, x) + (IF x = HTR THEN slack ELSE 0)
  <2>1. balances[u][HTR] \in Nat BY <1>4, <1>7 DEF Tables
  <2>2. balances[u][HTR] + slack >= 0 BY <1>4, <2>1, SMT
  <2>3. QED BY <1>0, <1>4, <1>7, <2>2, CreditSum
<1>15. \A x \in Ids : Total(next, x) = Total(balances, x)
  BY <1>3, <1>14 DEF Tokens
<1>16. /\ held \in [Tokens -> Int]
       /\ fees \in FeeRecord /\ fees.buy \in Nat /\ fees.sell \in Nat /\ fees.operation \in Nat
  BY <1>2 DEF TypeOK, FeeRecord
<1>17. /\ fees' \in FeeRecord
       /\ fees'.buy = fees.buy /\ fees'.sell = fees.sell + fee
       /\ fees'.operation = fees.operation + Deviation(sold)
  <2>1. fees' = [fees EXCEPT !.sell = @ + fee, !.operation = @ + Deviation(sold)] BY <1>1
  <2>2. Deviation(sold) \in Nat /\ fee \in Nat /\ fees \in FeeRecord BY <1>10, <1>11, <1>16
  <2>3. fees \in [buy : Nat, sell : Nat, operation : Nat] BY <1>16 DEF FeeRecord
  <2>4. QED BY <2>1, <2>2, <2>3, SellFees DEF FeeRecord
<1>18. /\ held' \in [Tokens -> Int]
       /\ held'[HTR] = held[HTR] - (net - slack)
       /\ held'[t] = held[t] + amount
       /\ \A x \in Ids \ {t} : held'[x] = held[x]
  <2>1. held' = [held EXCEPT ![t] = @ + amount, ![HTR] = @ - (net - slack)] BY <1>1
  <2>2. QED BY <1>3, <1>4, <1>11, <1>16, <2>1 DEF Tokens
<1>19. TypeOK'
  <2>1. calls' \in 0 .. MaxCalls BY <1>1, <1>2, KhensuAssumption, SMT DEF TypeOK, Called
  <2>2. QED BY <1>1, <1>2, <1>13, <1>14, <1>17, <1>18, <2>1 DEF TypeOK, Tables, FeeRecord
<1>20. Solvency'
  <2>1. held[t] \in Int /\ held[HTR] \in Int BY <1>4, <1>16
  <2>2. PoolPart(tokens[t]) = tokens[t].pool /\ PoolPart(settled) = settled.pool
    BY <1>3, <1>9, <1>10 DEF PoolPart
  <2>3. held'[HTR] = Pools(tokens') + Total(balances', HTR)
                      + fees'.buy + fees'.sell + fees'.operation
    <3>1. Total(balances', HTR) = Total(balances, HTR) + slack /\ Total(balances, HTR) \in Int
      BY <1>1, <1>4, <1>14
    <3>2. settled.pool = tokens[t].pool - out - Deviation(sold)
      BY <1>6, <1>9, <1>10, <1>11, SMT
    <3>3. /\ Pools(tokens) \in Int
          /\ Pools(tokens') = Pools(tokens) - tokens[t].pool + settled.pool
      BY <1>13, <2>2
    <3>4. Pools(tokens') = Pools(tokens) - out - Deviation(sold)
      BY <1>6, <1>10, <1>11, <3>2, <3>3, SMT
    <3>5. held[HTR] = Pools(tokens) + Total(balances, HTR) + fees.buy + fees.sell + fees.operation
      BY <1>5
    <3>6. /\ held'[HTR] = held[HTR] - (net - slack)
          /\ fees'.buy = fees.buy /\ fees'.sell = fees.sell + fee
          /\ fees'.operation = fees.operation + Deviation(sold)
      BY <1>17, <1>18
    <3>7. net = out - fee /\ Deviation(sold) \in Nat BY <1>0, <1>10
    <3>8. fees.buy \in Nat /\ fees.sell \in Nat /\ fees.operation \in Nat BY <1>16
    <3>9. QED BY <1>4, <1>11, <2>1, <3>1, <3>3, <3>4, <3>5, <3>6, <3>7, <3>8, SMT
  <2>4. held'[t] = ReservePart(tokens'[t]) + Total(balances', t)
    <3>1. Total(balances', t) = Total(balances, t) /\ Total(balances, t) \in Int
      BY <1>1, <1>3, <1>4, <1>14, <1>15
    <3>2. /\ ReservePart(tokens[t]) = tokens[t].reserve
          /\ ReservePart(tokens'[t]) = tokens[t].reserve + amount
      BY <1>3, <1>9, <1>10, <1>13 DEF ReservePart
    <3>3. held[t] = ReservePart(tokens[t]) + Total(balances, t) BY <1>3, <1>5
    <3>4. QED BY <1>4, <1>6, <1>18, <2>1, <3>1, <3>2, <3>3, SMT
  <2>5. ASSUME NEW x \in Registered \ {t}
        PROVE held'[x] = ReservePart(tokens'[x]) + Total(balances', x)
    BY <1>1, <1>2, <1>5, <1>13, <1>15, <1>18 DEF TypeOK
  <2>6. QED BY <1>13, <2>3, <2>4, <2>5, SolvencyFormPrime
<1>21. FreshInv'
  <2>1. \A x \in Ids \ Registered : x # t /\ held[x] = Total(balances, x)
    BY <1>3 DEF IInv, FreshInv
  <2>2. QED BY <1>1, <1>13, <1>15, <1>18, <2>1 DEF FreshInv
<1>22. QED BY <1>13, <1>19, <1>20, <1>21 DEF IInv

LEMMA CurveType ==
  ASSUME NEW k, IsCurve(k)
  PROVE  /\ k \in CurveRecord /\ k.supply \in Nat \ {0}
         /\ Unsold(k) \in Nat /\ Unsold(k) < k.supply
<1>1. k.supply \in Nat
  <2>1. k.supply \in Int /\ k.supply > 0 BY DEF IsCurve, CurveOf, ValidParameters
  <2>2. QED BY <2>1, SMT
<1>2. 0 \in 0 .. k.supply BY <1>1, SMT
<1>3. /\ k.supply \in Nat \ {0} /\ k.cap \in Nat \ {0} /\ k.graduation \in Nat \ {0}
      /\ k.a \in Nat \ {0} /\ k.b \in Nat \ {0} /\ k.c \in Nat \ {0}
  BY <1>2, SlopePositive
<1>4. k = [cap |-> k.cap, supply |-> k.supply, graduation |-> k.graduation,
           a |-> k.a, b |-> k.b, c |-> k.c]
  BY DEF IsCurve, CurveOf
<1>5. k \in CurveRecord BY <1>3, <1>4 DEF CurveRecord
<1>6. Unsold(k) \in 0 .. (k.supply - 1) BY <1>3, FifthBounds DEF Unsold
<1>7. QED BY <1>3, <1>5, <1>6, SMT

LEMMA RegisterTokenStep ==
  ASSUME IInv, NEW u \in Users, NEW t \in Ids, RegisterToken(u, t)
  PROVE  IInv'
<1>0. PICK tok, k :
        /\ k = config.curve
        /\ tok = [creator |-> u, curve |-> k, pool |-> 0, reserve |-> k.supply,
                  migrated |-> FALSE, poolFee |-> -1]
  OBVIOUS
<1>1. /\ Called /\ t \notin Registered
      /\ tokens' = [x \in Registered \cup {t} |-> IF x = t THEN tok ELSE tokens[x]]
      /\ dozer' = [dozer EXCEPT !.reserved = @ \cup {t}]
      /\ held' = [held EXCEPT ![t] = @ + k.supply]
      /\ config' = config /\ graduated' = graduated /\ fees' = fees /\ balances' = balances
  BY <1>0 DEF RegisterToken
<1>2. TypeOK /\ CurveInv /\ FreshInv /\ Solvency BY DEF IInv
<1>3. IsCurve(k) BY <1>0, <1>2 DEF CurveInv
<1>4. /\ k \in CurveRecord /\ k.supply \in Nat \ {0}
      /\ Unsold(k) \in Nat /\ Unsold(k) < k.supply
  BY <1>3, CurveType
<1>5. /\ tok \in TokenRecord /\ tok.reserve = k.supply /\ tok.curve = k /\ tok.pool = 0
      /\ tok.migrated = FALSE
  BY <1>0, <1>4 DEF TokenRecord
<1>6. TokenInv(tok)
  <2>1. k.supply \in Unsold(k) .. k.supply BY <1>4, SMT
  <2>2. GoodToken(tok) BY <1>3, <1>5, <2>1 DEF GoodToken
  <2>3. Sold(tok) = 0 BY <1>4, <1>5, SMT DEF Sold
  <2>4. HtrOnCurve(k, 0) = 0 BY <1>3, NothingOut
  <2>5. Balanced(tok) BY <1>5, <2>2, <2>3, <2>4 DEF Balanced
  <2>6. QED BY <1>4, <1>5, <2>2, <2>5 DEF TokenInv
<1>7. /\ DOMAIN tokens' = Registered \cup {t} /\ Registered' = Registered \cup {t}
      /\ tokens'[t] = tok /\ \A x \in Registered : tokens'[x] = tokens[x]
      /\ tokens' = [x \in Registered' |-> tokens'[x]]
  BY <1>1 DEF Registered
<1>8. Registered \subseteq Ids /\ \A x \in Registered : tokens[x].pool \in Nat
  BY <1>2 DEF TypeOK, TokenRecord
<1>9. \A x \in Registered' : TokenInv(tokens'[x]) BY <1>2, <1>6, <1>7 DEF CurveInv
<1>10. CurveInv' BY <1>1, <1>2, <1>7, <1>9 DEF CurveInv
<1>11. Pools(tokens') = Pools(tokens)
  <2>1. tokens' = Added(tokens, t, tok) BY <1>1 DEF Registered, Added
  <2>2. /\ DOMAIN tokens \subseteq Ids /\ t \notin DOMAIN tokens
        /\ \A x \in DOMAIN tokens : tokens[x].pool \in Nat
    BY <1>1, <1>8 DEF Registered
  <2>3. Pools(Added(tokens, t, tok)) = Pools(tokens) BY <1>5, <2>2, PoolAdd
  <2>4. QED BY <2>1, <2>3
<1>12. /\ t # HTR /\ HTR \notin Ids /\ t \in Tokens /\ HTR \in Tokens
       /\ held \in [Tokens -> Int] /\ held[t] \in Int
  BY <1>2, KhensuAssumption DEF TypeOK, Tokens
<1>13. /\ held' \in [Tokens -> Int]
       /\ held'[HTR] = held[HTR]
       /\ held'[t] = held[t] + k.supply
       /\ \A x \in Ids \ {t} : held'[x] = held[x]
  <2>1. held' = [held EXCEPT ![t] = @ + k.supply] BY <1>1
  <2>2. QED BY <1>4, <1>12, <2>1 DEF Tokens
<1>14. TypeOK'
  <2>1. calls' \in 0 .. MaxCalls BY <1>1, <1>2, KhensuAssumption, SMT DEF TypeOK, Called
  <2>2. dozer' \in [signer : BOOLEAN, reserved : SUBSET Ids, pools : SUBSET (Ids \X Int)]
    BY <1>1, <1>2 DEF TypeOK
  <2>3. \A x \in Registered' : /\ tokens'[x] \in TokenRecord
                               /\ tokens'[x].reserve
                                    \in Unsold(tokens'[x].curve) .. tokens'[x].curve.supply
    BY <1>9 DEF TokenInv, GoodToken
  <2>4. Registered' \subseteq Ids BY <1>7, <1>8
  <2>5. QED BY <1>1, <1>2, <1>13, <2>1, <2>2, <2>3, <2>4 DEF TypeOK
<1>15. Solvency'
  <2>1. /\ held[HTR] = Pools(tokens) + Total(balances, HTR) + fees.buy + fees.sell + fees.operation
        /\ \A x \in Registered : held[x] = ReservePart(tokens[x]) + Total(balances, x)
    BY <1>2, SolvencyForm
  <2>2. held'[HTR] = Pools(tokens') + Total(balances', HTR)
                      + fees'.buy + fees'.sell + fees'.operation
    BY <1>1, <1>11, <1>13, <2>1
  <2>3. held'[t] = ReservePart(tokens'[t]) + Total(balances', t)
    <3>1. held[t] = Total(balances, t) BY <1>1, <1>2 DEF FreshInv
    <3>2. ReservePart(tokens'[t]) = k.supply BY <1>5, <1>7 DEF ReservePart
    <3>3. QED BY <1>1, <1>4, <1>12, <1>13, <3>1, <3>2, SMT
  <2>4. ASSUME NEW x \in Registered
        PROVE held'[x] = ReservePart(tokens'[x]) + Total(balances', x)
    BY <1>1, <1>7, <1>8, <1>13, <2>1
  <2>5. QED BY <1>7, <2>2, <2>3, <2>4, SolvencyFormPrime
<1>16. FreshInv' BY <1>1, <1>2, <1>7, <1>13 DEF FreshInv
<1>17. QED BY <1>10, <1>14, <1>15, <1>16 DEF IInv

(* The three buckets together pay what is withdrawn.                       *)
LEMMA FeesLessBounds ==
  ASSUME fees \in FeeRecord, NEW amount \in Nat,
         amount <= fees.buy + fees.sell + fees.operation, NEW next, next = FeesLess(amount)
  PROVE  /\ next \in FeeRecord
         /\ next.buy + next.sell + next.operation
              = fees.buy + fees.sell + fees.operation - amount
<1>0. PICK a, b, c :
        /\ a = Smaller(amount, fees.buy) /\ b = Smaller(amount - a, fees.sell)
        /\ c = Smaller(amount - a - b, fees.operation)
  OBVIOUS
<1>1. fees.buy \in Nat /\ fees.sell \in Nat /\ fees.operation \in Nat BY DEF FeeRecord
<1>2. a \in Nat /\ a <= fees.buy /\ a <= amount /\ (a = amount \/ a = fees.buy)
  BY <1>0, <1>1, SMT DEF Smaller
<1>3. b \in Nat /\ b <= fees.sell /\ b <= amount - a /\ (b = amount - a \/ b = fees.sell)
  BY <1>0, <1>1, <1>2, SMT DEF Smaller
<1>4. c = amount - a - b /\ c <= fees.operation /\ c \in Nat
  <2>1. amount - a - b \in Nat /\ amount - a - b <= fees.operation BY <1>1, <1>2, <1>3, SMT
  <2>2. c = Smaller(amount - a - b, fees.operation) BY <1>0
  <2>3. c = amount - a - b BY <1>1, <2>1, <2>2, SMT DEF Smaller
  <2>4. QED BY <2>1, <2>3
<1>5. next = [buy |-> fees.buy - a, sell |-> fees.sell - b, operation |-> fees.operation - c]
  BY <1>0 DEF FeesLess
<1>6. /\ fees.buy - a \in Nat /\ fees.sell - b \in Nat /\ fees.operation - c \in Nat
      /\ (fees.buy - a) + (fees.sell - b) + (fees.operation - c)
           = fees.buy + fees.sell + fees.operation - amount
  BY <1>1, <1>2, <1>3, <1>4, SMT
<1>7. QED BY <1>5, <1>6 DEF FeeRecord

LEMMA WithdrawFeesStep ==
  ASSUME IInv, NEW u \in Users, NEW amount \in Amounts, WithdrawFees(u, amount)
  PROVE  IInv'
<1>1. /\ Called /\ amount <= fees.buy + fees.sell + fees.operation
      /\ fees' = FeesLess(amount)
      /\ held' = [held EXCEPT ![HTR] = @ - amount]
      /\ config' = config /\ tokens' = tokens /\ graduated' = graduated
      /\ balances' = balances /\ dozer' = dozer
  BY DEF WithdrawFees
<1>2. TypeOK /\ CurveInv /\ FreshInv /\ Solvency BY DEF IInv
<1>3. amount \in Nat /\ HTR \in Tokens /\ HTR \notin Ids BY KhensuAssumption DEF Tokens
<1>4. fees \in FeeRecord BY <1>2 DEF TypeOK, FeeRecord
<1>5. /\ fees' \in FeeRecord
      /\ fees'.buy + fees'.sell + fees'.operation
           = fees.buy + fees.sell + fees.operation - amount
  BY <1>1, <1>3, <1>4, FeesLessBounds
<1>6. held \in [Tokens -> Int] /\ held[HTR] \in Int BY <1>2, <1>3 DEF TypeOK
<1>7. /\ held' \in [Tokens -> Int] /\ held'[HTR] = held[HTR] - amount
      /\ \A x \in Ids : held'[x] = held[x]
  <2>1. held' = [held EXCEPT ![HTR] = @ - amount] BY <1>1
  <2>2. QED BY <1>3, <1>6, <2>1 DEF Tokens
<1>8. TypeOK'
  <2>1. calls' \in 0 .. MaxCalls BY <1>1, <1>2, KhensuAssumption, SMT DEF TypeOK, Called
  <2>2. QED BY <1>1, <1>2, <1>5, <1>7, <2>1 DEF TypeOK, FeeRecord, Registered
<1>9. Registered' = Registered /\ Registered \subseteq Ids BY <1>1, <1>2 DEF Registered, TypeOK
<1>10. CurveInv' BY <1>1, <1>2, <1>9 DEF CurveInv
<1>11. Solvency'
  <2>1. /\ held[HTR] = Pools(tokens) + Total(balances, HTR) + fees.buy + fees.sell + fees.operation
        /\ \A x \in Registered : held[x] = ReservePart(tokens[x]) + Total(balances, x)
    BY <1>2, SolvencyForm
  <2>2. Pools(tokens) + Total(balances, HTR) \in Int
    <3>1. Total(balances, HTR) \in Nat BY <1>2, <1>3, TotalBounds DEF TypeOK, Tables
    <3>2. Pools(tokens) \in Int
      <4> DEFINE f == [t \in Registered |-> PoolPart(tokens[t])]
      <4>1. f \in [Registered -> Nat]
        BY <1>2 DEF TypeOK, TokenRecord, PoolPart
      <4>2. IsFiniteSet(Registered) BY <1>9, KhensuAssumption, FS_Subset
      <4>3. Pools(tokens) = SumFunctionOnSet(f, Registered) BY DEF Pools, Registered
      <4> HIDE DEF f
      <4>4. QED BY <4>1, <4>2, <4>3, SumBounds
    <3>3. QED BY <3>1, <3>2
  <2>3. held'[HTR] = Pools(tokens') + Total(balances', HTR)
                      + fees'.buy + fees'.sell + fees'.operation
    <3>1. /\ fees.buy \in Int /\ fees.sell \in Int /\ fees.operation \in Int
          /\ fees'.buy \in Int /\ fees'.sell \in Int /\ fees'.operation \in Int
      BY <1>4, <1>5 DEF FeeRecord
    <3>2. held[HTR] = (Pools(tokens) + Total(balances, HTR))
                        + (fees.buy + fees.sell + fees.operation)
      BY <2>1, <2>2, <3>1, SMT
    <3>3. held'[HTR] = (Pools(tokens) + Total(balances, HTR))
                         + (fees'.buy + fees'.sell + fees'.operation)
      BY <1>3, <1>5, <1>6, <1>7, <2>2, <3>1, <3>2, SMT
    <3>4. Pools(tokens') = Pools(tokens) /\ Total(balances', HTR) = Total(balances, HTR) BY <1>1
    <3>5. QED BY <2>2, <3>1, <3>3, <3>4, SMT
  <2>4. \A x \in DOMAIN tokens' : held'[x] = ReservePart(tokens'[x]) + Total(balances', x)
    BY <1>1, <1>7, <1>9, <2>1 DEF Registered
  <2>5. QED BY <2>3, <2>4, SolvencyFormPrime
<1>12. FreshInv' BY <1>1, <1>2, <1>7, <1>9 DEF FreshInv
<1>13. QED BY <1>8, <1>10, <1>11, <1>12 DEF IInv

LEMMA WithdrawFromBalanceStep ==
  ASSUME IInv, NEW u \in Users, NEW t \in Ids \cup {HTR}, NEW amount \in Amounts,
         WithdrawFromBalance(u, t, amount)
  PROVE  IInv'
<1>0. PICK next : next = Credit(balances, u, t, -amount) OBVIOUS
<1>1. /\ Called
      /\ t = HTR \/ t \in Registered
      /\ amount <= balances[u][t]
      /\ balances' = next
      /\ held' = [held EXCEPT ![t] = @ - amount]
      /\ config' = config /\ tokens' = tokens /\ graduated' = graduated
      /\ fees' = fees /\ dozer' = dozer
  BY <1>0 DEF WithdrawFromBalance
<1>2. TypeOK /\ CurveInv /\ FreshInv /\ Solvency BY DEF IInv
<1>3. amount \in Nat /\ HTR \in Tokens /\ HTR \notin Ids /\ t \in Tokens
  BY KhensuAssumption DEF Tokens
<1>4. balances \in Tables /\ balances[u][t] \in Nat BY <1>2, <1>3 DEF TypeOK, Tables
<1>5. /\ next \in Tables
      /\ \A x \in Tokens : /\ Total(balances, x) \in Int /\ Total(next, x) \in Int
                           /\ Total(next, x) = Total(balances, x) + (IF x = t THEN -amount ELSE 0)
  <2>1. balances[u][t] + (-amount) >= 0 /\ -amount \in Int BY <1>1, <1>3, <1>4, SMT
  <2>2. QED BY <1>0, <1>3, <1>4, <2>1, CreditSum
<1>6. held \in [Tokens -> Int] BY <1>2 DEF TypeOK
<1>7. /\ held' \in [Tokens -> Int]
      /\ \A x \in Tokens : held'[x] = held[x] + (IF x = t THEN -amount ELSE 0)
  <2>1. held' = [held EXCEPT ![t] = @ - amount] BY <1>1
  <2>2. \A x \in Tokens : held[x] \in Int BY <1>6
  <2>3. held' \in [Tokens -> Int] BY <1>3, <1>6, <2>1
  <2>4. \A x \in Tokens : held'[x] = IF x = t THEN held[x] - amount ELSE held[x]
    BY <1>6, <2>1
  <2>5. QED BY <1>3, <2>2, <2>3, <2>4, SMT
<1>8. TypeOK'
  <2>1. calls' \in 0 .. MaxCalls BY <1>1, <1>2, KhensuAssumption, SMT DEF TypeOK, Called
  <2>2. QED BY <1>1, <1>2, <1>5, <1>7, <2>1 DEF TypeOK, Tables, Registered
<1>9. Registered' = Registered /\ Registered \subseteq Ids BY <1>1, <1>2 DEF Registered, TypeOK
<1>10. CurveInv' BY <1>1, <1>2, <1>9 DEF CurveInv
<1>11. Solvency'
  <2>1. /\ held[HTR] = Pools(tokens) + Total(balances, HTR) + fees.buy + fees.sell + fees.operation
        /\ \A x \in Registered : held[x] = ReservePart(tokens[x]) + Total(balances, x)
    BY <1>2, SolvencyForm
  <2>2. Pools(tokens) \in Int
    <3> DEFINE f == [x \in Registered |-> PoolPart(tokens[x])]
    <3>1. f \in [Registered -> Nat] BY <1>2 DEF TypeOK, TokenRecord, PoolPart
    <3>2. IsFiniteSet(Registered) BY <1>9, KhensuAssumption, FS_Subset
    <3>3. Pools(tokens) = SumFunctionOnSet(f, Registered) BY DEF Pools, Registered
    <3> HIDE DEF f
    <3>4. QED BY <3>1, <3>2, <3>3, SumBounds
  <2>3. held'[HTR] = Pools(tokens') + Total(balances', HTR)
                      + fees'.buy + fees'.sell + fees'.operation
    <3>1. fees.buy \in Int /\ fees.sell \in Int /\ fees.operation \in Int BY <1>2 DEF TypeOK
    <3>2. /\ Total(balances, HTR) \in Int
          /\ Total(balances', HTR) = Total(balances, HTR) + (IF HTR = t THEN -amount ELSE 0)
          /\ held'[HTR] = held[HTR] + (IF HTR = t THEN -amount ELSE 0)
      BY <1>1, <1>3, <1>5, <1>7
    <3>3. held[HTR] = Pools(tokens) + Total(balances, HTR) + fees.buy + fees.sell + fees.operation
      BY <2>1
    <3>4. tokens' = tokens /\ fees' = fees BY <1>1
    <3>5. QED BY <1>3, <2>2, <3>1, <3>2, <3>3, <3>4, SMT
  <2>4. ASSUME NEW x \in DOMAIN tokens'
        PROVE held'[x] = ReservePart(tokens'[x]) + Total(balances', x)
    <3>1. x \in Registered /\ x \in Tokens BY <1>1, <1>9 DEF Registered, Tokens
    <3>2. /\ Total(balances, x) \in Int
          /\ Total(balances', x) = Total(balances, x) + (IF x = t THEN -amount ELSE 0)
          /\ held'[x] = held[x] + (IF x = t THEN -amount ELSE 0)
      BY <1>1, <1>5, <1>7, <3>1
    <3>3. held[x] = ReservePart(tokens[x]) + Total(balances, x) BY <2>1, <3>1
    <3>4. ReservePart(tokens[x]) \in Int
      BY <1>2, <3>1 DEF TypeOK, TokenRecord, ReservePart
    <3>5. tokens' = tokens BY <1>1
    <3>6. QED BY <1>3, <3>2, <3>3, <3>4, <3>5, SMT
  <2>5. QED BY <2>3, <2>4, SolvencyFormPrime
<1>12. FreshInv'
  <2>1. ASSUME NEW x \in Ids \ Registered PROVE held'[x] = Total(balances', x)
    <3>1. x # t /\ x \in Tokens BY <1>1, <1>3 DEF Tokens
    <3>2. held[x] = Total(balances, x) BY <1>2 DEF FreshInv
    <3>3. held'[x] = held[x] + 0 /\ Total(balances', x) = Total(balances, x) + 0
      BY <1>1, <1>5, <1>7, <3>1
    <3>4. QED BY <3>2, <3>3
  <2>2. QED BY <1>9, <2>1 DEF FreshInv
<1>13. QED BY <1>8, <1>10, <1>11, <1>12 DEF IInv

(* Where no money moves, the types and the new tokens' curve are left.     *)
LEMMA SameMoney ==
  ASSUME IInv, tokens' = tokens, fees' = fees, balances' = balances, held' = held,
         TypeOK', IsCurve(config'.curve)
  PROVE  IInv'
<1>1. Registered' = Registered BY DEF Registered
<1>2. CurveInv' BY <1>1 DEF IInv, CurveInv
<1>3. FreshInv' BY <1>1 DEF IInv, FreshInv
<1>4. Solvency'
  <2>1. /\ held[HTR] = Pools(tokens) + Total(balances, HTR) + fees.buy + fees.sell + fees.operation
        /\ \A x \in Registered : held[x] = ReservePart(tokens[x]) + Total(balances, x)
    BY SolvencyForm DEF IInv
  <2>2. QED BY <2>1, SolvencyFormPrime DEF Registered
<1>5. QED BY <1>2, <1>3, <1>4 DEF IInv

ConfigRecord ==
  [admins : SUBSET Users, buyFee : 0 .. MAX_FEE_RATE, sellFee : 0 .. MAX_FEE_RATE,
   creatorFee : 0 .. MAX_FEE_RATE, poolFee : 0 .. MAX_POOL_FEE_RATE, curve : CurveRecord]

DozerRecord == [signer : BOOLEAN, reserved : SUBSET Ids, pools : SUBSET (Ids \X Int)]

(* A change of the configuration that fits keeps the invariant.            *)
LEMMA AdminStep ==
  ASSUME IInv, Called, NEW next \in ConfigRecord, IsCurve(next.curve),
         config' = next, tokens' = tokens, graduated' = graduated, fees' = fees,
         balances' = balances, dozer' = dozer, held' = held
  PROVE  IInv'
<1>1. TypeOK BY DEF IInv
<1>2. calls' \in 0 .. MaxCalls BY <1>1, KhensuAssumption, SMT DEF TypeOK, Called
<1>3. TypeOK' BY <1>1, <1>2 DEF TypeOK, ConfigRecord, Registered
<1>4. QED BY <1>3, SameMoney

LEMMA AdminNextStep == IInv /\ AdminNext => IInv'
<1> SUFFICES ASSUME IInv, NEW u \in Users,
      \/ \E rate \in Rates : ChangeBuyFeeRate(u, rate)
      \/ \E rate \in Rates : ChangeSellFeeRate(u, rate)
      \/ \E rate \in Rates : ChangeCreatorFeeRate(u, rate)
      \/ \E fee \in PoolFees : ChangePoolFeeRate(u, fee)
      \/ \E c \in Curves : ChangeBondingCurve(u, c[1], c[2], c[3])
      \/ \E v \in Users : AddAdmin(u, v)
      \/ \E v \in Users : RemoveAdmin(u, v)
      \/ \E capacity \in Capacities : ChangeLruCapacity(u, capacity)
    PROVE IInv'
  BY DEF AdminNext
<1>1. config \in ConfigRecord /\ IsCurve(config.curve)
  BY DEF IInv, TypeOK, CurveInv, ConfigRecord
<1>2. ASSUME NEW rate, ChangeBuyFeeRate(u, rate) PROVE IInv'
  <2>1. rate \in 0 .. MAX_FEE_RATE BY <1>2 DEF ChangeBuyFeeRate
  <2> DEFINE next == [config EXCEPT !.buyFee = rate]
  <2>2. next \in ConfigRecord /\ next.curve = config.curve BY <1>1, <2>1 DEF ConfigRecord
  <2>3. /\ Called /\ config' = next /\ tokens' = tokens /\ graduated' = graduated
        /\ fees' = fees /\ balances' = balances /\ dozer' = dozer /\ held' = held
    BY <1>2 DEF ChangeBuyFeeRate, AdminCall, Admin
  <2> HIDE DEF next
  <2>4. QED BY <1>1, <2>2, <2>3, AdminStep
<1>3. ASSUME NEW rate, ChangeSellFeeRate(u, rate) PROVE IInv'
  <2>1. rate \in 0 .. MAX_FEE_RATE BY <1>3 DEF ChangeSellFeeRate
  <2> DEFINE next == [config EXCEPT !.sellFee = rate]
  <2>2. next \in ConfigRecord /\ next.curve = config.curve BY <1>1, <2>1 DEF ConfigRecord
  <2>3. /\ Called /\ config' = next /\ tokens' = tokens /\ graduated' = graduated
        /\ fees' = fees /\ balances' = balances /\ dozer' = dozer /\ held' = held
    BY <1>3 DEF ChangeSellFeeRate, AdminCall, Admin
  <2> HIDE DEF next
  <2>4. QED BY <1>1, <2>2, <2>3, AdminStep
<1>4. ASSUME NEW rate, ChangeCreatorFeeRate(u, rate) PROVE IInv'
  <2>1. rate \in 0 .. MAX_FEE_RATE BY <1>4 DEF ChangeCreatorFeeRate
  <2> DEFINE next == [config EXCEPT !.creatorFee = rate]
  <2>2. next \in ConfigRecord /\ next.curve = config.curve BY <1>1, <2>1 DEF ConfigRecord
  <2>3. /\ Called /\ config' = next /\ tokens' = tokens /\ graduated' = graduated
        /\ fees' = fees /\ balances' = balances /\ dozer' = dozer /\ held' = held
    BY <1>4 DEF ChangeCreatorFeeRate, AdminCall, Admin
  <2> HIDE DEF next
  <2>4. QED BY <1>1, <2>2, <2>3, AdminStep
<1>5. ASSUME NEW fee, ChangePoolFeeRate(u, fee) PROVE IInv'
  <2>1. fee \in 0 .. MAX_POOL_FEE_RATE BY <1>5 DEF ChangePoolFeeRate
  <2> DEFINE next == [config EXCEPT !.poolFee = fee]
  <2>2. next \in ConfigRecord /\ next.curve = config.curve BY <1>1, <2>1 DEF ConfigRecord
  <2>3. /\ Called /\ config' = next /\ tokens' = tokens /\ graduated' = graduated
        /\ fees' = fees /\ balances' = balances /\ dozer' = dozer /\ held' = held
    BY <1>5 DEF ChangePoolFeeRate, AdminCall, Admin
  <2> HIDE DEF next
  <2>4. QED BY <1>1, <2>2, <2>3, AdminStep
<1>6. ASSUME NEW c \in Curves, ChangeBondingCurve(u, c[1], c[2], c[3]) PROVE IInv'
  <2> DEFINE k == CurveOf(c[1], c[2], c[3])
             next == [config EXCEPT !.curve = k]
  <2>1. c[1] \in Int /\ c[2] \in Int /\ c[3] \in Int BY KhensuAssumption
  <2>2. IsCurve(k) BY <1>6, <2>1 DEF ChangeBondingCurve, IsCurve
  <2>3. k \in CurveRecord
    <3> HIDE DEF k
    <3>1. QED BY <2>2, CurveType
  <2>4. /\ Called /\ config' = next /\ tokens' = tokens /\ graduated' = graduated
        /\ fees' = fees /\ balances' = balances /\ dozer' = dozer /\ held' = held
    BY <1>6 DEF ChangeBondingCurve, AdminCall, Admin
  <2> HIDE DEF k
  <2>5. next \in ConfigRecord /\ next.curve = k BY <1>1, <2>3 DEF ConfigRecord
  <2> HIDE DEF next
  <2>6. QED BY <2>2, <2>4, <2>5, AdminStep
<1>7. ASSUME NEW v \in Users, AddAdmin(u, v) PROVE IInv'
  <2> DEFINE next == [config EXCEPT !.admins = @ \cup {v}]
  <2>1. next \in ConfigRecord /\ next.curve = config.curve BY <1>1 DEF ConfigRecord
  <2>2. /\ Called /\ config' = next /\ tokens' = tokens /\ graduated' = graduated
        /\ fees' = fees /\ balances' = balances /\ dozer' = dozer /\ held' = held
    BY <1>7 DEF AddAdmin, AdminCall, Admin
  <2> HIDE DEF next
  <2>3. QED BY <1>1, <2>1, <2>2, AdminStep
<1>8. ASSUME NEW v \in Users, RemoveAdmin(u, v) PROVE IInv'
  <2> DEFINE next == [config EXCEPT !.admins = @ \ {v}]
  <2>1. next \in ConfigRecord /\ next.curve = config.curve BY <1>1 DEF ConfigRecord
  <2>2. /\ Called /\ config' = next /\ tokens' = tokens /\ graduated' = graduated
        /\ fees' = fees /\ balances' = balances /\ dozer' = dozer /\ held' = held
    BY <1>8 DEF RemoveAdmin, AdminCall, Admin
  <2> HIDE DEF next
  <2>3. QED BY <1>1, <2>1, <2>2, AdminStep
<1>9. ASSUME NEW capacity, ChangeLruCapacity(u, capacity) PROVE IInv'
  <2>1. /\ Called /\ config' = config /\ tokens' = tokens /\ graduated' = graduated
        /\ fees' = fees /\ balances' = balances /\ dozer' = dozer /\ held' = held
    BY <1>9 DEF ChangeLruCapacity, AdminCall
  <2>2. QED BY <1>1, <2>1, AdminStep
<1>10. QED BY <1>2, <1>3, <1>4, <1>5, <1>6, <1>7, <1>8, <1>9

LEMMA DozerNextStep == IInv /\ DozerNext => IInv'
<1> SUFFICES ASSUME IInv, DozerNext PROVE IInv'
  OBVIOUS
<1>1. TypeOK /\ IsCurve(config.curve) BY DEF IInv, CurveInv
<1>2. ASSUME NEW next \in DozerRecord, Dozer(next) PROVE IInv'
  <2>1. /\ Called /\ dozer' = next /\ config' = config /\ tokens' = tokens
        /\ graduated' = graduated /\ fees' = fees /\ balances' = balances /\ held' = held
    BY <1>2 DEF Dozer
  <2>2. calls' \in 0 .. MaxCalls BY <1>1, <2>1, KhensuAssumption, SMT DEF TypeOK, Called
  <2>3. TypeOK' BY <1>1, <1>2, <2>1, <2>2 DEF TypeOK, DozerRecord, Registered
  <2>4. QED BY <1>1, <2>1, <2>3, SameMoney
<1>3. dozer \in DozerRecord BY <1>1 DEF TypeOK, DozerRecord
<1>4. CASE DozerSigner
  <2>1. [dozer EXCEPT !.signer = ~@] \in DozerRecord BY <1>3 DEF DozerRecord
  <2>2. QED BY <1>2, <1>4, <2>1 DEF DozerSigner
<1>5. CASE DozerForgets
  <2>1. [dozer EXCEPT !.reserved = {}] \in DozerRecord BY <1>3 DEF DozerRecord
  <2>2. QED BY <1>2, <1>5, <2>1 DEF DozerForgets
<1>6. ASSUME NEW t \in Ids, NEW fee \in PoolFees, DozerPool(t, fee) PROVE IInv'
  <2>1. <<t, fee>> \in Ids \X Int BY KhensuAssumption
  <2>2. [dozer EXCEPT !.pools = @ \cup {<<t, fee>>}] \in DozerRecord
    BY <1>3, <2>1 DEF DozerRecord
  <2>3. QED BY <1>2, <1>6, <2>2 DEF DozerPool
<1>7. QED BY <1>4, <1>5, <1>6 DEF DozerNext

LEMMA TradeNextStep == IInv /\ TradeNext => IInv'
<1> SUFFICES ASSUME IInv, NEW u \in Users,
      \/ \E t \in Ids : RegisterToken(u, t)
      \/ \E t \in OnSale, amount \in Amounts, slack \in Slacks : BuyTokens(u, t, amount, slack)
      \/ \E t \in OnSale, amount \in Amounts, slack \in Slacks :
           BuyAndGraduate(u, t, amount, slack)
      \/ \E t \in OnSale, amount \in Amounts, slack \in Slacks : SellTokens(u, t, amount, slack)
      \/ \E amount \in Amounts : WithdrawFees(u, amount)
      \/ \E t \in Ids \cup {HTR}, amount \in Amounts : WithdrawFromBalance(u, t, amount)
    PROVE IInv'
  BY DEF TradeNext
<1>1. ASSUME NEW t \in Ids, RegisterToken(u, t) PROVE IInv'
  BY <1>1, RegisterTokenStep
<1>2. ASSUME NEW t \in OnSale, NEW amount \in Amounts, NEW slack \in Slacks,
             BuyTokens(u, t, amount, slack)
      PROVE IInv'
  BY <1>2, BuyTokensStep
<1>3. ASSUME NEW t \in OnSale, NEW amount \in Amounts, NEW slack \in Slacks,
             BuyAndGraduate(u, t, amount, slack)
      PROVE IInv'
  BY <1>3, BuyAndGraduateStep
<1>4. ASSUME NEW t \in OnSale, NEW amount \in Amounts, NEW slack \in Slacks,
             SellTokens(u, t, amount, slack)
      PROVE IInv'
  BY <1>4, SellTokensStep
<1>5. ASSUME NEW amount \in Amounts, WithdrawFees(u, amount) PROVE IInv'
  BY <1>5, WithdrawFeesStep
<1>6. ASSUME NEW t \in Ids \cup {HTR}, NEW amount \in Amounts, WithdrawFromBalance(u, t, amount)
      PROVE IInv'
  BY <1>6, WithdrawFromBalanceStep
<1>7. QED BY <1>1, <1>2, <1>3, <1>4, <1>5, <1>6

LEMMA StutterStep == IInv /\ UNCHANGED vars => IInv'
<1> SUFFICES ASSUME IInv, UNCHANGED vars PROVE IInv'
  OBVIOUS
<1>1. /\ tokens' = tokens /\ fees' = fees /\ balances' = balances /\ held' = held
      /\ config' = config /\ graduated' = graduated /\ dozer' = dozer /\ calls' = calls
  BY DEF vars
<1>2. TypeOK' BY <1>1 DEF IInv, TypeOK, Registered
<1>3. QED BY <1>1, <1>2, SameMoney DEF IInv, CurveInv

LEMMA InitInv == Init => IInv
<1> SUFFICES ASSUME Init PROVE IInv
  OBVIOUS
<1>1. PICK c \in Curves, buy \in Rates, sell \in Rates, creator \in Rates, fee \in PoolFees :
        /\ ValidParameters(c[1], c[2], c[3])
        /\ {buy, sell, creator} \subseteq 0 .. MAX_FEE_RATE
        /\ fee \in 0 .. MAX_POOL_FEE_RATE
        /\ config = [admins |-> {Creator}, buyFee |-> buy, sellFee |-> sell,
                     creatorFee |-> creator, poolFee |-> fee,
                     curve |-> CurveOf(c[1], c[2], c[3])]
  BY DEF Init
<1>2. /\ tokens = [t \in {} |-> HTR] /\ graduated = <<>>
      /\ fees = [buy |-> 0, sell |-> 0, operation |-> 0]
      /\ balances = [u \in Users |-> [t \in Tokens |-> 0]]
      /\ dozer = [signer |-> TRUE, reserved |-> {}, pools |-> {}]
      /\ held = [t \in Tokens |-> 0]
      /\ calls = 0
  BY DEF Init, Tokens
<1>3. IsCurve(config.curve)
  <2>1. c[1] \in Int /\ c[2] \in Int /\ c[3] \in Int BY KhensuAssumption
  <2>2. config.curve = CurveOf(c[1], c[2], c[3]) BY <1>1
  <2>3. QED BY <1>1, <2>1, <2>2 DEF IsCurve
<1>4. config.curve \in CurveRecord BY <1>3, CurveType
<1>5. config \in ConfigRecord
  <2>1. {Creator} \in SUBSET Users BY KhensuAssumption
  <2>2. buy \in 0 .. MAX_FEE_RATE /\ sell \in 0 .. MAX_FEE_RATE /\ creator \in 0 .. MAX_FEE_RATE
    BY <1>1
  <2>3. config.curve = CurveOf(c[1], c[2], c[3]) BY <1>1
  <2>4. QED BY <1>1, <1>4, <2>1, <2>2, <2>3 DEF ConfigRecord
<1>6. Registered = {} BY <1>2 DEF Registered
<1>7. balances \in Tables BY <1>2 DEF Tables
<1>8. TypeOK
  <2>1. calls \in 0 .. MaxCalls BY <1>2, KhensuAssumption, SMT
  <2>2. graduated \in Seq(Ids) BY <1>2
  <2>3. QED BY <1>2, <1>5, <1>6, <1>7, <2>1, <2>2 DEF TypeOK, ConfigRecord, Tables
<1>9. CurveInv BY <1>2, <1>3, <1>6 DEF CurveInv
<1>10. \A t \in Tokens : Total(balances, t) = 0
  <2> SUFFICES ASSUME NEW t \in Tokens PROVE Total(balances, t) = 0
    OBVIOUS
  <2> DEFINE f == [u \in Users |-> balances[u][t]]
  <2>1. f \in [Users -> Int] /\ \A u \in Users : f[u] = 0 BY <1>2
  <2>2. IsFiniteSet(Users) BY KhensuAssumption
  <2>3. Total(balances, t) = SumFunctionOnSet(f, Users) BY DEF Total
  <2> HIDE DEF f
  <2>4. QED BY <2>1, <2>2, <2>3, SumZero
<1>11. FreshInv BY <1>2, <1>10 DEF FreshInv, Tokens
<1>12. Solvency
  <2>1. Pools(tokens) = 0
    <3>1. DOMAIN tokens = {} BY <1>6 DEF Registered
    <3>2. QED BY <3>1, SumEmpty DEF Pools
  <2>2. held[HTR] = 0 /\ Total(balances, HTR) = 0 BY <1>2, <1>10 DEF Tokens
  <2>3. fees.buy = 0 /\ fees.sell = 0 /\ fees.operation = 0 BY <1>2
  <2>4. QED BY <1>6, <2>1, <2>2, <2>3, SolvencyForm
<1>13. QED BY <1>8, <1>9, <1>11, <1>12 DEF IInv

-----------------------------------------------------------------------------
(* The theorems.                                                           *)

LEMMA Inductive == Spec => []IInv
<1>1. IInv /\ [Next]_vars => IInv'
  BY AdminNextStep, DozerNextStep, TradeNextStep, StutterStep DEF Next
<1>2. QED BY <1>1, InitInv, PTL DEF Spec

(* The types hold in every reachable state; in particular no fee and no    *)
(* virtual pool is ever negative, and a fifth of the supply stays.         *)
THEOREM KhensuTypes == Spec => []TypeOK
<1>1. IInv => TypeOK BY DEF IInv
<1>2. QED BY <1>1, Inductive, PTL

(* The contract holds what all curves, users and fees together are owed.   *)
THEOREM KhensuSolvent == Spec => []Solvency
<1>1. IInv => Solvency BY DEF IInv
<1>2. QED BY <1>1, Inductive, PTL

(* Between two calls a curve holds exactly what it needs, whatever was     *)
(* bought and sold, with whatever rounding.                                *)
THEOREM PoolOnCurve == Spec => []PoolFollowsCurve
<1>1. IInv => PoolFollowsCurve
  BY DEF IInv, CurveInv, TokenInv, Balanced, PoolFollowsCurve, OnSale
<1>2. QED BY <1>1, Inductive, PTL

(* The tokens that are out can be sold back, all or any part of them: the  *)
(* check of sell_tokens against the virtual pool never fails.              *)
THEOREM SellersArePaid == Spec => []SalesAreCovered
<1>1. IInv => SalesAreCovered
  <2> SUFFICES ASSUME IInv, NEW t \in OnSale, NEW n \in 1 .. Sold(tokens[t])
               PROVE HtrOut(tokens[t].curve, Sold(tokens[t]), n) <= tokens[t].pool
    BY DEF SalesAreCovered
  <2>1. Balanced(tokens[t]) BY DEF IInv, CurveInv, TokenInv, OnSale
  <2>2. Sold(tokens[t]) \in Nat /\ tokens[t].pool \in Nat BY <2>1, TokenBounds DEF Balanced
  <2>3. n \in Nat /\ n <= Sold(tokens[t]) BY <2>2, SMT
  <2>4. HtrOut(tokens[t].curve, Sold(tokens[t]), n) \in 0 .. tokens[t].pool
    BY <2>1, <2>3, SoldCovered
  <2>5. QED BY <2>2, <2>4, SMT
<1>2. QED BY <1>1, Inductive, PTL

(* Whoever takes the last unit for sale graduates the token: the curve     *)
(* holds the pool's HTR and the graduation fee and has reached its cap.    *)
THEOREM GraduationFunded == Spec => []GraduationIsFunded
<1>1. IInv => GraduationIsFunded
  <2> SUFFICES ASSUME IInv, NEW t \in OnSale
               PROVE  /\ tokens[t].reserve > Unsold(tokens[t].curve)
                      /\ \A amount \in Amounts :
                           LET r == Purchase(tokens[t], amount)
                           IN  PurchaseAllowed(tokens[t], amount, r.out) /\ r.out = Room(tokens[t])
                                 => Funded(Corrected(Purchased(tokens[t], r)))
    BY DEF GraduationIsFunded
  <2>1. Balanced(tokens[t]) /\ tokens[t].reserve > Unsold(tokens[t].curve)
    BY DEF IInv, CurveInv, TokenInv, OnSale
  <2>2. GoodRates BY RatesAreGood DEF IInv
  <2>3. ASSUME NEW amount \in Amounts, NEW r, r = Purchase(tokens[t], amount),
               r.out = Room(tokens[t])
        PROVE  Funded(Corrected(Purchased(tokens[t], r)))
    <3>1. PICK bought, settled : bought = Purchased(tokens[t], r) /\ settled = Corrected(bought)
      OBVIOUS
    <3>2. amount \in Nat BY KhensuAssumption
    <3>3. /\ Covered(bought) /\ bought.reserve = tokens[t].reserve - r.out
          /\ bought.curve = tokens[t].curve
      BY <2>1, <2>2, <2>3, <3>1, <3>2, PurchasedCovered
    <3>4. Balanced(settled) /\ settled.reserve = bought.reserve /\ settled.curve = bought.curve
      BY <3>1, <3>3, CorrectedBounds
    <3>5. tokens[t].reserve \in Nat /\ Unsold(tokens[t].curve) \in Nat
      BY <2>1, TokenBounds, SMT DEF Balanced
    <3>6. settled.reserve = Unsold(settled.curve) BY <2>3, <3>3, <3>4, <3>5, SMT DEF Room
    <3>7. Funded(settled) BY <3>4, <3>6, FullIsFunded DEF Balanced
    <3>8. QED BY <3>1, <3>7
  <2>4. QED BY <2>1, <2>3
<1>2. QED BY <1>1, Inductive, PTL

(* At the rates of the moment, paying the quoted total is enough for the   *)
(* quoted units, also for the last ones, where the quote puts the fee on   *)
(* the price and the purchase takes it out of the payment.                 *)
THEOREM QuotesHonoured == Spec => []QuoteIsHonoured
<1>1. IInv => QuoteIsHonoured
  <2> SUFFICES ASSUME IInv, NEW t \in OnSale, NEW amount \in Amounts, NEW q,
                      q = QuoteBuy(tokens[t], amount),
                      amount > FeeIn(amount, BuyRate), q.out > 0
               PROVE  PurchaseAllowed(tokens[t], q.total, q.out)
    BY DEF QuoteIsHonoured
  <2>0. PICK tok, k, n, room, net, most, need :
          /\ tok = tokens[t] /\ k = tok.curve /\ n = Sold(tok) /\ room = Room(tok)
          /\ net = amount - FeeIn(amount, BuyRate)
          /\ most = TokensOut(k, n, net) /\ need = HtrNeeded(k, n, room)
    OBVIOUS
  <2>1. GoodToken(tok) /\ ~tok.migrated
    BY <2>0 DEF IInv, CurveInv, TokenInv, OnSale
  <2>2. GoodRates /\ BuyRate \in Nat /\ amount \in Nat
    <3>1. GoodRates /\ amount \in Nat BY RatesAreGood, KhensuAssumption DEF IInv
    <3>2. QED BY <3>1 DEF GoodRates, BuyRate
  <2>3. /\ IsCurve(k) /\ n \in Nat /\ room \in Nat /\ n + room <= k.supply
        /\ tok.reserve \in Nat /\ Unsold(k) \in Nat /\ room = tok.reserve - Unsold(k)
    BY <2>0, <2>1, TokenBounds, SMT DEF GoodToken, Room
  <2>4. FeeIn(amount, BuyRate) \in Nat /\ net \in Nat /\ net > 0
    <3>1. FeeIn(amount, BuyRate) \in 0 .. amount BY <2>2, FeeInBounds
    <3>2. QED BY <2>0, <2>2, <3>1, SMT
  <2>5. most \in Nat BY <2>0, <2>3, <2>4, TokensOutIff
  <2>6. ASSUME NEW paid \in Nat, NEW r, r = Purchase(tok, paid),
               paid - FeeIn(paid, BuyRate) > 0, r.out = q.out, q.out <= room, q.out \in Nat
        PROVE  PurchaseAllowed(tok, paid, q.out)
    <3>1. r.creatorFee \in Nat BY <2>1, <2>2, <2>6, PurchaseBounds
    <3>2. tok.reserve - q.out >= Unsold(tok.curve) BY <2>0, <2>3, <2>6, SMT
    <3>3. r.out # 0 /\ q.out <= r.out BY <2>6, SMT
    <3>4. r.creatorFee >= 0 BY <3>1, SMT
    <3>5. QED BY <2>1, <2>6, <3>2, <3>3, <3>4 DEF PurchaseAllowed
  <2>7. CASE ~ (most >= room)
    <3>1. q.total = amount /\ q.out = most BY <2>0, <2>7 DEF QuoteBuy
    <3>2. PICK r : r = Purchase(tok, amount) OBVIOUS
    <3>3. r.out = most
      <4>1. ~ (most > room) BY <2>3, <2>5, <2>7, SMT
      <4>2. QED BY <2>0, <3>2, <4>1 DEF Purchase
    <3>4. amount - FeeIn(amount, BuyRate) > 0 BY <2>2, <2>4, SMT
    <3>5. most <= room BY <2>3, <2>5, <2>7, SMT
    <3>6. QED BY <2>0, <2>2, <2>5, <2>6, <3>1, <3>2, <3>3, <3>4, <3>5
  <2>8. CASE most >= room
    <3>1. q.total = need + FeeOn(need, BuyRate) /\ q.out = room BY <2>0, <2>8 DEF QuoteBuy
    <3>2. /\ need \in Nat /\ (room > 0 => need > 0)
          /\ need * (Slope(k, n) * Slope(k, n + room)) >= room * k.a * k.b
      BY <2>0, <2>3, NeededPays
    <3>3. PICK paid, fee, extra :
            paid = q.total /\ fee = FeeIn(paid, BuyRate) /\ extra = FeeOn(need, BuyRate)
      OBVIOUS
    <3>4. extra \in Nat BY <2>2, <3>2, <3>3, FeeOnBounds
    <3>5. paid = need + extra /\ paid \in Nat BY <3>1, <3>2, <3>3, <3>4
    <3>6. fee <= extra /\ fee \in Nat
      <4>1. FeeIn(need + FeeOn(need, BuyRate), BuyRate) <= FeeOn(need, BuyRate)
        BY <2>2, <3>2, FeeInOfTotal
      <4>2. fee \in 0 .. paid BY <2>2, <3>3, <3>5, FeeInBounds
      <4>3. QED BY <3>1, <3>3, <3>5, <4>1, <4>2, SMT
    <3>7. paid - fee \in Nat /\ need <= paid - fee BY <3>2, <3>4, <3>5, <3>6, SMT
    <3>8. need > 0 BY <2>3, <3>1, <3>2
    <3>9. room <= TokensOut(k, n, paid - fee)
      <4> DEFINE m == Slope(k, n) * Slope(k, n + room)
                 price == room * k.a * k.b
      <4>1. m \in Nat /\ price \in Nat
        <5>1. k.supply \in Nat BY <2>3, CurveType
        <5>2. n \in 0 .. k.supply /\ n + room \in 0 .. k.supply BY <2>3, <5>1, SMT
        <5>3. /\ Slope(k, n) \in Nat /\ Slope(k, n + room) \in Nat
              /\ k.a \in Nat /\ k.b \in Nat
          BY <2>3, <5>2, SlopePositive
        <5>4. room * k.a \in Nat BY <2>3, <5>3, Products
        <5>5. QED BY <5>3, <5>4, Products
      <4>2. need * m >= price BY <3>2
      <4> HIDE DEF m, price
      <4>3. need * m <= (paid - fee) * m BY <3>2, <3>7, <4>1, TimesMonotone
      <4>4. need * m \in Int /\ (paid - fee) * m \in Int BY <3>2, <3>7, <4>1, Products
      <4>5. (paid - fee) * m >= price BY <4>1, <4>2, <4>3, <4>4, SMT
      <4>6. (paid - fee) * (Slope(k, n) * Slope(k, n + room)) >= room * k.a * k.b
        BY <4>5 DEF m, price
      <4>7. QED BY <2>3, <3>7, <4>6, TokensOutIff
    <3>10. PICK r : r = Purchase(tok, paid) OBVIOUS
    <3>11. r.out = room
      <4>1. Room(tok) <= TokensOut(tok.curve, Sold(tok), paid - FeeIn(paid, BuyRate))
        BY <2>0, <3>3, <3>9
      <4>2. QED BY <2>0, <2>1, <2>2, <3>5, <3>10, <4>1, PurchaseBounds
    <3>12. paid - FeeIn(paid, BuyRate) > 0 BY <3>2, <3>3, <3>7, <3>8, SMT
    <3>13. QED BY <2>0, <2>3, <2>6, <3>1, <3>3, <3>5, <3>10, <3>11, <3>12
  <2>9. QED BY <2>7, <2>8
<1>2. QED BY <1>1, Inductive, PTL

-----------------------------------------------------------------------------
(* The list of recently used tokens.                                       *)

Pointers == UNION {[D -> Tokens] : D \in SUBSET Ids}
ListType ==
  [prev : Pointers, next : Pointers, head : Tokens, tail : Tokens, size : Nat,
   capacity : Nat \ {0}]

\* The entry of a sequence, null before its begin and after its end.
At(s, i) == IF i \in 1 .. Len(s) THEN s[i] ELSE HTR

NoRepetition(s) == \A i, j \in 1 .. Len(s) : s[i] = s[j] => i = j

\* The pointers of l run along s in both directions.
Linked(l, s) ==
  /\ l \in ListType
  /\ s \in Seq(Ids) /\ NoRepetition(s)
  /\ l.head = At(s, 1) /\ l.tail = At(s, Len(s))
  /\ \A i \in 1 .. Len(s) :
       /\ s[i] \in DOMAIN l.prev /\ l.prev[s[i]] = At(s, i - 1)
       /\ s[i] \in DOMAIN l.next /\ l.next[s[i]] = At(s, i + 1)

\* l has no other pointers.
KeysAmong(d, s) == \A t \in DOMAIN d : \E i \in 1 .. Len(s) : s[i] = t

Represents(l, s) ==
  /\ Linked(l, s)
  /\ KeysAmong(l.prev, s) /\ KeysAmong(l.next, s)
  /\ l.size = Len(s) /\ l.size <= l.capacity

(* The dictionary methods. *)
LEMMA PutIs ==
  ASSUME NEW d \in Pointers, NEW t \in Ids, NEW v \in Tokens
  PROVE  /\ PL!Put(d, t, v) \in Pointers
         /\ DOMAIN PL!Put(d, t, v) = DOMAIN d \cup {t}
         /\ PL!Put(d, t, v)[t] = v
         /\ \A x \in DOMAIN d \ {t} : PL!Put(d, t, v)[x] = d[x]
<1>1. PICK D \in SUBSET Ids : d \in [D -> Tokens] BY DEF Pointers
<1>2. PL!Put(d, t, v) \in [D \cup {t} -> Tokens] BY <1>1 DEF PL!Put
<1>3. D \cup {t} \in SUBSET Ids OBVIOUS
<1>4. PL!Put(d, t, v) \in Pointers BY <1>2, <1>3 DEF Pointers
<1>5. QED BY <1>4 DEF PL!Put

LEMMA DelIs ==
  ASSUME NEW d \in Pointers, NEW t
  PROVE  /\ PL!Del(d, t) \in Pointers
         /\ DOMAIN PL!Del(d, t) = DOMAIN d \ {t}
         /\ \A x \in DOMAIN d \ {t} : PL!Del(d, t)[x] = d[x]
<1>1. PICK D \in SUBSET Ids : d \in [D -> Tokens] BY DEF Pointers
<1>2. PL!Del(d, t) \in [D \ {t} -> Tokens] BY <1>1 DEF PL!Del
<1>3. D \ {t} \in SUBSET Ids OBVIOUS
<1>4. PL!Del(d, t) \in Pointers BY <1>2, <1>3 DEF Pointers
<1>5. QED BY <1>4 DEF PL!Del

LEMMA LinkIs ==
  ASSUME NEW d \in Pointers, NEW t \in Tokens, t = HTR \/ t \in DOMAIN d, NEW v \in Tokens
  PROVE  /\ PL!Link(d, t, v) \in Pointers
         /\ DOMAIN PL!Link(d, t, v) = DOMAIN d
         /\ \A x \in DOMAIN d : PL!Link(d, t, v)[x] = IF x = t THEN v ELSE d[x]
<1>1. DOMAIN d \subseteq Ids /\ HTR \notin DOMAIN d BY KhensuAssumption DEF Pointers
<1>2. CASE t = HTR BY <1>1, <1>2 DEF PL!Link
<1>3. CASE t # HTR
  <2>1. t \in Ids BY <1>3 DEF Tokens
  <2>2. PL!Link(d, t, v) = PL!Put(d, t, v) BY <1>3 DEF PL!Link
  <2>3. DOMAIN d \cup {t} = DOMAIN d BY <1>3
  <2> DEFINE p == PL!Put(d, t, v)
  <2>4. /\ p \in Pointers /\ DOMAIN p = DOMAIN d /\ p[t] = v
        /\ \A x \in DOMAIN d \ {t} : p[x] = d[x]
    BY <2>1, <2>3, PutIs
  <2> HIDE DEF p
  <2>5. PL!Link(d, t, v) = p BY <2>2 DEF p
  <2>6. QED BY <2>4, <2>5
<1>4. QED BY <1>2, <1>3

(* The entries are tokens, null marks the ends. *)
LEMMA AtType ==
  ASSUME NEW s \in Seq(Ids), NEW i
  PROVE  At(s, i) \in Tokens /\ (i \in 1 .. Len(s) => At(s, i) \in Ids /\ At(s, i) # HTR)
BY KhensuAssumption DEF At, Tokens

\* r is s without its k-th entry.
LessOne(r, s, k) ==
  /\ r \in Seq(Ids) /\ Len(r) = Len(s) - 1 /\ NoRepetition(r)
  /\ \A i \in 1 .. Len(r) : r[i] = s[IF i < k THEN i ELSE i + 1]
  /\ \A i \in 0 .. Len(s) : At(r, i) = At(s, IF i < k THEN i ELSE i + 1)
  /\ \A i \in 1 .. Len(r) : r[i] # s[k]

(* The entries of a sequence without its k-th. *)
LEMMA Removed ==
  ASSUME NEW s \in Seq(Ids), NoRepetition(s), NEW k \in 1 .. Len(s)
  PROVE  LessOne(RL!RemoveAt(s, k), s, k)
<1> DEFINE n == Len(s)
           r == RL!RemoveAt(s, k)
           a == SubSeq(s, 1, k - 1)
           b == SubSeq(s, k + 1, n)
<1>1. n \in Nat /\ k \in 1 .. n OBVIOUS
<1>2. a \in Seq(Ids) /\ Len(a) = k - 1 /\ \A i \in 1 .. k - 1 : a[i] = s[i]
  <2>1. \A i \in 1 .. k - 1 : s[i] \in Ids OBVIOUS
  <2>2. k - 1 \in Int /\ 1 \in Int OBVIOUS
  <2>3. QED BY <2>1, <2>2, SubSeqProperties
<1>3. b \in Seq(Ids) /\ Len(b) = n - k /\ \A i \in 1 .. n - k : b[i] = s[k + i]
  <2>1. \A i \in k + 1 .. n : s[i] \in Ids OBVIOUS
  <2>2. k + 1 \in Int /\ n \in Int OBVIOUS
  <2>3. QED BY <2>1, <2>2, SubSeqProperties
<1>4. r = a \o b BY DEF RL!RemoveAt
<1> HIDE DEF a, b, n, r
<1>5. /\ r \in Seq(Ids) /\ Len(r) = n - 1
      /\ \A i \in 1 .. n - 1 : r[i] = IF i <= k - 1 THEN a[i] ELSE b[i - (k - 1)]
  <2>1. /\ r \in Seq(Ids) /\ Len(r) = Len(a) + Len(b)
        /\ \A i \in 1 .. Len(a) + Len(b) : r[i] = IF i <= Len(a) THEN a[i] ELSE b[i - Len(a)]
    BY <1>2, <1>3, <1>4, ConcatProperties
  <2>2. Len(a) = k - 1 /\ Len(a) + Len(b) = n - 1 BY <1>1, <1>2, <1>3
  <2>3. QED BY <2>1, <2>2
<1>6. \A i \in 1 .. n - 1 : r[i] = s[IF i < k THEN i ELSE i + 1]
  BY <1>1, <1>2, <1>3, <1>5
<1>7. \A i \in 1 .. n - 1 : (IF i < k THEN i ELSE i + 1) \in 1 .. n
  BY <1>1
<1>8. NoRepetition(r)
  <2> SUFFICES ASSUME NEW i \in 1 .. n - 1, NEW j \in 1 .. n - 1, r[i] = r[j] PROVE i = j
    BY <1>5 DEF NoRepetition
  <2> DEFINE x == IF i < k THEN i ELSE i + 1
             y == IF j < k THEN j ELSE j + 1
  <2>1. x \in 1 .. n /\ y \in 1 .. n /\ s[x] = s[y] BY <1>6, <1>7
  <2>2. x = y
    <3> HIDE DEF x, y
    <3>1. QED BY <2>1 DEF NoRepetition, n
  <2>3. QED BY <1>1, <2>2
<1>9. \A i \in 0 .. n : At(r, i) = At(s, IF i < k THEN i ELSE i + 1)
  BY <1>1, <1>5, <1>6 DEF At, n
<1>10. \A i \in 1 .. n - 1 : r[i] # s[k]
  BY <1>1, <1>6, <1>7 DEF NoRepetition, n
<1>11. QED BY <1>5, <1>6, <1>8, <1>9, <1>10 DEF LessOne, n, r

(* The parts of a linked list, and that no pointer leads out of it. *)
LEMMA LinkedFacts ==
  ASSUME NEW l, NEW s, Linked(l, s)
  PROVE  /\ l.prev \in Pointers /\ l.next \in Pointers /\ l.head \in Tokens /\ l.tail \in Tokens
         /\ l.size \in Nat /\ l.capacity \in Nat \ {0}
         /\ \A i \in Int : At(s, i) # HTR => At(s, i) \in DOMAIN l.prev /\ At(s, i) \in DOMAIN l.next
<1>1. /\ l \in ListType /\ s \in Seq(Ids)
      /\ \A i \in 1 .. Len(s) : s[i] \in DOMAIN l.prev /\ s[i] \in DOMAIN l.next
  BY DEF Linked
<1>2. \A i \in Int : At(s, i) # HTR => At(s, i) \in DOMAIN l.prev /\ At(s, i) \in DOMAIN l.next
  BY <1>1 DEF At
<1>3. QED BY <1>1, <1>2 DEF ListType

(* _remove_from_lru_list joins the neighbours of t; t keeps its own pointers. *)
LEMMA UnlinkIs ==
  ASSUME NEW l, NEW s, Linked(l, s), NEW k \in 1 .. Len(s)
  PROVE  LET m == PL!Unlink(l, s[k]) IN
         /\ Linked(m, RL!RemoveAt(s, k))
         /\ DOMAIN m.prev = DOMAIN l.prev /\ DOMAIN m.next = DOMAIN l.next
         /\ m.size = l.size /\ m.capacity = l.capacity
<1> DEFINE n == Len(s)
           before == At(s, k - 1)
           after == At(s, k + 1)
           t == s[k]
           r == RL!RemoveAt(s, k)
           m == PL!Unlink(l, t)
<1>1. /\ s \in Seq(Ids) /\ NoRepetition(s) /\ n \in Nat /\ k \in 1 .. n /\ t \in Ids
      /\ l \in ListType
  BY DEF Linked
<1>2. LessOne(r, s, k) BY <1>1, Removed
<1>3. PL!Get(l.prev, t) = before /\ PL!Get(l.next, t) = after
  BY DEF Linked, PL!Get
<1>4. before \in Tokens /\ after \in Tokens BY <1>1, AtType
<1>5. /\ before = HTR \/ before \in DOMAIN l.next
      /\ after = HTR \/ after \in DOMAIN l.prev
  BY <1>1, LinkedFacts
<1> DEFINE p == PL!Link(l.prev, after, before)
           q == PL!Link(l.next, before, after)
<1> HIDE DEF r
<1>6. m = [l EXCEPT !.next = q, !.prev = p,
                    !.head = IF before = HTR THEN after ELSE l.head,
                    !.tail = IF after = HTR THEN before ELSE l.tail]
  <2> HIDE DEF before, after
  <2>1. QED BY <1>3 DEF PL!Unlink
<1>7. /\ p \in Pointers /\ DOMAIN p = DOMAIN l.prev
      /\ \A x \in DOMAIN p : p[x] = IF x = after THEN before ELSE l.prev[x]
      /\ q \in Pointers /\ DOMAIN q = DOMAIN l.next
      /\ \A x \in DOMAIN q : q[x] = IF x = before THEN after ELSE l.next[x]
  <2> HIDE DEF before, after
  <2>1. QED BY <1>4, <1>5, LinkedFacts, LinkIs
<1> HIDE DEF p, q, m
<1>8. /\ m \in ListType /\ m.prev = p /\ m.next = q /\ m.size = l.size /\ m.capacity = l.capacity
      /\ m.head = IF before = HTR THEN after ELSE l.head
      /\ m.tail = IF after = HTR THEN before ELSE l.tail
  <2> HIDE DEF before, after
  <2>1. QED BY <1>1, <1>4, <1>6, <1>7 DEF ListType
<1>9. m.head = At(r, 1)
  <2>1. l.head = At(s, 1) BY DEF Linked
  <2>2. At(r, 1) = At(s, IF 1 < k THEN 1 ELSE 2) BY <1>1, <1>2 DEF LessOne
  <2>3. before = HTR <=> k = 1 BY <1>1, AtType DEF At
  <2>4. QED BY <1>1, <1>8, <2>1, <2>2, <2>3
<1>10. m.tail = At(r, Len(r))
  <2>1. l.tail = At(s, n) BY DEF Linked
  <2>2. Len(r) = n - 1 /\ At(r, n - 1) = At(s, IF n - 1 < k THEN n - 1 ELSE n)
    BY <1>1, <1>2 DEF LessOne
  <2>3. after = HTR <=> k = n BY <1>1, AtType DEF At
  <2>4. QED BY <1>1, <1>8, <2>1, <2>2, <2>3
<1>11. ASSUME NEW i \in 1 .. Len(r)
       PROVE  /\ r[i] \in DOMAIN p /\ p[r[i]] = At(r, i - 1)
              /\ r[i] \in DOMAIN q /\ q[r[i]] = At(r, i + 1)
  <2> DEFINE j == IF i < k THEN i ELSE i + 1
  <2>1. Len(r) = n - 1 /\ i \in 1 .. n - 1 /\ j \in 1 .. n /\ j # k /\ r[i] = s[j]
    BY <1>1, <1>2 DEF LessOne
  <2>2. /\ At(r, i - 1) = At(s, IF i - 1 < k THEN i - 1 ELSE i)
        /\ At(r, i + 1) = At(s, IF i + 1 < k THEN i + 1 ELSE i + 2)
    <3>1. i - 1 \in 0 .. n /\ i + 1 \in 0 .. n /\ i + 1 + 1 = i + 2 /\ i - 1 + 1 = i BY <1>1, <2>1
    <3>2. QED BY <1>2, <3>1 DEF LessOne
  <2>3. /\ s[j] \in DOMAIN l.prev /\ l.prev[s[j]] = At(s, j - 1)
        /\ s[j] \in DOMAIN l.next /\ l.next[s[j]] = At(s, j + 1)
    <3> HIDE DEF j
    <3>1. QED BY <2>1 DEF Linked
  <2>4. (s[j] = after <=> j = k + 1) /\ (s[j] = before <=> j = k - 1)
    <3> HIDE DEF j
    <3>1. s[j] # HTR BY <1>1, <2>1, KhensuAssumption
    <3>2. QED BY <1>1, <2>1, <3>1 DEF NoRepetition, At
  <2>5. p[s[j]] = IF j = k + 1 THEN before ELSE At(s, j - 1)
    <3> HIDE DEF j, before, after
    <3>1. QED BY <1>7, <2>3, <2>4
  <2>6. q[s[j]] = IF j = k - 1 THEN after ELSE At(s, j + 1)
    <3> HIDE DEF j, before, after
    <3>1. QED BY <1>7, <2>3, <2>4
  <2>7. p[s[j]] = At(r, i - 1)
    BY <1>1, <2>1, <2>2, <2>5
  <2>8. q[s[j]] = At(r, i + 1)
    BY <1>1, <2>1, <2>2, <2>6
  <2>9. QED BY <1>7, <2>1, <2>3, <2>7, <2>8
<1>12. Linked(m, r)
  <2>1. r \in Seq(Ids) /\ NoRepetition(r) BY <1>2 DEF LessOne
  <2>2. QED BY <1>8, <1>9, <1>10, <1>11, <2>1 DEF Linked
<1>13. QED BY <1>7, <1>8, <1>12 DEF m, r

(* _add_to_lru_head. *)
LEMMA AddIs ==
  ASSUME NEW l, NEW s, Linked(l, s), NEW t \in Ids, \A i \in 1 .. Len(s) : s[i] # t
  PROVE  LET m == PL!AddToHead(l, t) IN
         /\ Linked(m, <<t>> \o s)
         /\ DOMAIN m.prev = DOMAIN l.prev \cup {t} /\ DOMAIN m.next = DOMAIN l.next \cup {t}
         /\ m.size = l.size /\ m.capacity = l.capacity
<1> DEFINE n == Len(s)
           r == <<t>> \o s
           m == PL!AddToHead(l, t)
           p1 == PL!Put(l.prev, t, HTR)
           p == PL!Link(p1, l.head, t)
           q == PL!Put(l.next, t, l.head)
<1>1. /\ s \in Seq(Ids) /\ NoRepetition(s) /\ n \in Nat /\ l \in ListType
      /\ l.head = At(s, 1) /\ l.tail = At(s, n)
  BY DEF Linked
<1>2. /\ HTR \in Tokens /\ t \in Tokens /\ t # HTR /\ l.head \in Tokens /\ l.head # t
      /\ l.head = HTR \/ l.head \in DOMAIN l.prev
  <2>1. l.head # t BY <1>1, KhensuAssumption DEF At
  <2>2. QED BY <1>1, <2>1, LinkedFacts, KhensuAssumption DEF Tokens
<1>0. l.prev \in Pointers /\ l.next \in Pointers BY LinkedFacts
<1>3. m = [l EXCEPT !.prev = p, !.next = q, !.head = t,
                    !.tail = IF l.tail = HTR THEN t ELSE l.tail]
  BY DEF PL!AddToHead
<1>4. /\ p1 \in Pointers /\ DOMAIN p1 = DOMAIN l.prev \cup {t} /\ p1[t] = HTR
      /\ \A x \in DOMAIN l.prev \ {t} : p1[x] = l.prev[x]
  <2> DEFINE d == l.prev
  <2>1. d \in Pointers /\ HTR \in Tokens BY <1>0, <1>2
  <2> HIDE DEF d
  <2>2. /\ PL!Put(d, t, HTR) \in Pointers
        /\ DOMAIN PL!Put(d, t, HTR) = DOMAIN d \cup {t}
        /\ PL!Put(d, t, HTR)[t] = HTR
        /\ \A x \in DOMAIN d \ {t} : PL!Put(d, t, HTR)[x] = d[x]
    BY <2>1, PutIs
  <2>3. QED BY <2>2 DEF d
<1>5. /\ q \in Pointers /\ DOMAIN q = DOMAIN l.next \cup {t} /\ q[t] = l.head
      /\ \A x \in DOMAIN l.next \ {t} : q[x] = l.next[x]
  <2> DEFINE d == l.next
             v == l.head
  <2>1. d \in Pointers /\ v \in Tokens BY <1>0, <1>2
  <2> HIDE DEF d, v
  <2>2. /\ PL!Put(d, t, v) \in Pointers
        /\ DOMAIN PL!Put(d, t, v) = DOMAIN d \cup {t}
        /\ PL!Put(d, t, v)[t] = v
        /\ \A x \in DOMAIN d \ {t} : PL!Put(d, t, v)[x] = d[x]
    BY <2>1, PutIs
  <2>3. QED BY <2>2 DEF d, v
<1> HIDE DEF p1
<1>6. /\ p \in Pointers /\ DOMAIN p = DOMAIN p1
      /\ \A x \in DOMAIN p : p[x] = IF x = l.head THEN t ELSE p1[x]
  BY <1>2, <1>4, LinkIs
<1> HIDE DEF p, q, m
<1>7. /\ m \in ListType /\ m.prev = p /\ m.next = q /\ m.size = l.size /\ m.capacity = l.capacity
      /\ m.head = t
      /\ m.tail = IF l.tail = HTR THEN t ELSE l.tail
  BY <1>1, <1>2, <1>3, <1>5, <1>6 DEF ListType
<1>8. /\ r \in Seq(Ids) /\ Len(r) = n + 1 /\ r[1] = t
      /\ \A i \in 2 .. n + 1 : r[i] = s[i - 1]
  <2>1. <<t>> \in Seq(Ids) /\ Len(<<t>>) = 1 /\ <<t>>[1] = t OBVIOUS
  <2>2. QED BY <1>1, <2>1, ConcatProperties
<1> HIDE DEF r
<1>9. NoRepetition(r)
  <2> SUFFICES ASSUME NEW i \in 1 .. n + 1, NEW j \in 1 .. n + 1, r[i] = r[j] PROVE i = j
    BY <1>8 DEF NoRepetition
  <2>1. CASE i = 1 BY <1>1, <1>8, <2>1
  <2>2. CASE j = 1 BY <1>1, <1>8, <2>2
  <2>3. CASE i # 1 /\ j # 1
    <3>1. i - 1 \in 1 .. n /\ j - 1 \in 1 .. n /\ s[i - 1] = s[j - 1] BY <1>1, <1>8, <2>3
    <3>2. i - 1 = j - 1 BY <1>1, <3>1 DEF NoRepetition
    <3>3. QED BY <3>2
  <2>4. QED BY <2>1, <2>2, <2>3
<1>10. At(r, 0) = HTR /\ At(r, 1) = t /\ \A i \in 2 .. n + 2 : At(r, i) = At(s, i - 1)
  BY <1>1, <1>8 DEF At
<1>11. m.tail = At(r, Len(r))
  <2>1. l.tail = HTR <=> n = 0 BY <1>1, AtType DEF At
  <2>2. CASE n = 0 BY <1>7, <1>8, <1>10, <2>1, <2>2
  <2>3. CASE n # 0
    <3>1. n + 1 \in 2 .. n + 2 /\ n + 1 - 1 = n BY <1>1, <2>3
    <3>2. QED BY <1>1, <1>7, <1>8, <1>10, <2>1, <2>3, <3>1
  <2>4. QED BY <2>2, <2>3
<1>12. ASSUME NEW i \in 1 .. Len(r)
       PROVE  /\ r[i] \in DOMAIN p /\ p[r[i]] = At(r, i - 1)
              /\ r[i] \in DOMAIN q /\ q[r[i]] = At(r, i + 1)
  <2>1. CASE i = 1
    <3>1. q[t] = At(r, 2)
      <4>1. 2 \in 2 .. n + 2 /\ 2 - 1 = 1 BY <1>1
      <4>2. QED BY <1>1, <1>5, <1>10, <4>1
    <3>2. p[t] = HTR BY <1>2, <1>4, <1>6
    <3>3. QED BY <1>4, <1>5, <1>6, <1>8, <1>10, <2>1, <3>1, <3>2
  <2>2. CASE i # 1
    <3> DEFINE j == i - 1
    <3>1. j \in 1 .. n /\ r[i] = s[j] /\ i = j + 1 BY <1>1, <1>8, <2>2
    <3> HIDE DEF j
    <3>2. s[j] # t /\ s[j] \in DOMAIN l.prev /\ s[j] \in DOMAIN l.next
          /\ l.prev[s[j]] = At(s, j - 1) /\ l.next[s[j]] = At(s, j + 1)
      BY <3>1 DEF Linked
    <3>3. q[s[j]] = At(r, i + 1)
      <4>1. i + 1 \in 2 .. n + 2 /\ i + 1 - 1 = j + 1 BY <1>1, <3>1
      <4>2. QED BY <1>5, <1>10, <3>2, <4>1
    <3>4. s[j] = l.head <=> j = 1
      <4>1. l.head = s[1] BY <1>1, <3>1 DEF At
      <4>2. QED BY <1>1, <3>1, <4>1 DEF NoRepetition
    <3>5. p[s[j]] = At(r, i - 1)
      <4>1. CASE j = 1 BY <1>4, <1>6, <1>10, <3>1, <3>2, <3>4, <4>1
      <4>2. CASE j # 1
        <5>1. i - 1 \in 2 .. n + 2 /\ i - 1 - 1 = j - 1 BY <1>1, <3>1, <4>2
        <5>2. p[s[j]] = l.prev[s[j]] BY <1>4, <1>6, <3>2, <3>4, <4>2
        <5>3. QED BY <1>10, <3>2, <5>1, <5>2
      <4>3. QED BY <4>1, <4>2
    <3>6. QED BY <1>4, <1>5, <1>6, <3>1, <3>2, <3>3, <3>5
  <2>3. QED BY <2>1, <2>2
<1>13. Linked(m, r)
  BY <1>7, <1>8, <1>9, <1>10, <1>11, <1>12 DEF Linked
<1>14. QED BY <1>4, <1>5, <1>6, <1>7, <1>13 DEF m, r

(* _evict_lru_tail takes the last one out, pointers and all. *)
LEMMA EvictIs ==
  ASSUME NEW l, NEW s, Represents(l, s), Len(s) > 0
  PROVE  LET m == PL!EvictTail(l) IN
         Represents(m, RL!RemoveAt(s, Len(s))) /\ m.capacity = l.capacity
<1> DEFINE n == Len(s)
           r == RL!RemoveAt(s, n)
           m == PL!EvictTail(l)
           before == At(s, n - 1)
           t == s[n]
           p == PL!Del(l.prev, t)
           q1 == PL!Del(l.next, t)
           q == PL!Link(q1, before, HTR)
<1>1. /\ Linked(l, s) /\ s \in Seq(Ids) /\ NoRepetition(s) /\ l \in ListType
      /\ l.size = n /\ n <= l.capacity
      /\ KeysAmong(l.prev, s) /\ KeysAmong(l.next, s)
  BY DEF Represents, Linked
<1>2. n \in Nat /\ n > 0 /\ n \in 1 .. n BY <1>1
<1>3. LessOne(r, s, n)
  <2> HIDE DEF n
  <2>1. n \in 1 .. Len(s) BY <1>2 DEF n
  <2>2. QED BY <1>1, <2>1, Removed
<1>4. /\ l.tail = t /\ t \in Ids /\ t \in DOMAIN l.prev /\ t \in DOMAIN l.next
      /\ l.prev[t] = before /\ l.head = At(s, 1)
  BY <1>1, <1>2 DEF Linked, At
<1>5. before \in Tokens /\ before # t /\ HTR \in Tokens /\ (before # HTR => before \in DOMAIN l.next)
  <2>1. n - 1 \in Int BY <1>2
  <2>2. before # t BY <1>1, <1>2, <1>4, KhensuAssumption DEF At, NoRepetition
  <2>3. QED BY <1>1, <2>1, <2>2, LinkedFacts, AtType DEF Tokens
<1>6. l.tail = l.head <=> n = 1
  <2>1. l.head = s[1] BY <1>2, <1>4 DEF At
  <2>2. 1 \in 1 .. n BY <1>2
  <2>3. s[n] = s[1] <=> n = 1
    <3> HIDE DEF n
    <3>1. n \in 1 .. Len(s) /\ 1 \in 1 .. Len(s) BY <1>2, <2>2 DEF n
    <3>2. QED BY <1>1, <3>1 DEF NoRepetition
  <2>4. QED BY <1>4, <2>1, <2>3
<1>7. m = [l EXCEPT !.prev = p, !.next = q, !.tail = before,
                    !.head = IF n = 1 THEN HTR ELSE l.head,
                    !.size = n - 1]
  <2>1. PL!Get(l.prev, l.tail) = before BY <1>4 DEF PL!Get
  <2>2. l.size # 0 BY <1>1, <1>2
  <2> HIDE DEF before, n
  <2>3. QED BY <1>1, <1>4, <1>6, <2>1, <2>2 DEF PL!EvictTail
<1>8. /\ p \in Pointers /\ DOMAIN p = DOMAIN l.prev \ {t}
      /\ \A x \in DOMAIN l.prev \ {t} : p[x] = l.prev[x]
  <2> DEFINE d == l.prev
  <2>1. d \in Pointers BY <1>1, LinkedFacts
  <2> HIDE DEF d, t
  <2>2. /\ PL!Del(d, t) \in Pointers /\ DOMAIN PL!Del(d, t) = DOMAIN d \ {t}
        /\ \A x \in DOMAIN d \ {t} : PL!Del(d, t)[x] = d[x]
    BY <2>1, DelIs
  <2>3. QED BY <2>2 DEF d
<1>9. /\ q1 \in Pointers /\ DOMAIN q1 = DOMAIN l.next \ {t}
      /\ \A x \in DOMAIN l.next \ {t} : q1[x] = l.next[x]
  <2> DEFINE d == l.next
  <2>1. d \in Pointers BY <1>1, LinkedFacts
  <2> HIDE DEF d, t
  <2>2. /\ PL!Del(d, t) \in Pointers /\ DOMAIN PL!Del(d, t) = DOMAIN d \ {t}
        /\ \A x \in DOMAIN d \ {t} : PL!Del(d, t)[x] = d[x]
    BY <2>1, DelIs
  <2>3. QED BY <2>2 DEF d
<1> HIDE DEF p, q1
<1>10. /\ q \in Pointers /\ DOMAIN q = DOMAIN q1
       /\ \A x \in DOMAIN q : q[x] = IF x = before THEN HTR ELSE q1[x]
  <2> HIDE DEF before, t
  <2>1. before = HTR \/ before \in DOMAIN q1 BY <1>5, <1>9
  <2>2. QED BY <1>5, <1>9, <2>1, LinkIs
<1> HIDE DEF q, m
<1>11. /\ m \in ListType /\ m.prev = p /\ m.next = q /\ m.size = n - 1 /\ m.capacity = l.capacity
       /\ m.head = IF n = 1 THEN HTR ELSE l.head
       /\ m.tail = before
  <2>1. n - 1 \in Nat BY <1>2
  <2> HIDE DEF before, n
  <2>2. QED BY <1>1, <1>5, <1>7, <1>8, <1>10, <2>1 DEF ListType
<1> HIDE DEF r
<1>12. /\ Len(r) = n - 1 /\ r \in Seq(Ids) /\ NoRepetition(r)
       /\ \A i \in 1 .. n - 1 : r[i] = s[i]
       /\ \A i \in 0 .. n : At(r, i) = IF i < n THEN At(s, i) ELSE HTR
  <2>1. At(s, n + 1) = HTR BY <1>2 DEF At
  <2>2. QED BY <1>2, <1>3, <2>1 DEF LessOne
<1>13. m.head = At(r, 1) /\ m.tail = At(r, Len(r))
  <2> HIDE DEF n
  <2>1. 1 \in 0 .. n /\ n - 1 \in 0 .. n /\ n - 1 < n /\ (1 < n <=> n # 1) BY <1>2
  <2>2. At(r, 1) = (IF 1 < n THEN At(s, 1) ELSE HTR) /\ At(r, n - 1) = At(s, n - 1)
    BY <1>12, <2>1
  <2>3. Len(r) = n - 1 BY <1>12
  <2>4. m.head = IF n = 1 THEN HTR ELSE At(s, 1) BY <1>4, <1>11
  <2>5. QED BY <1>11, <2>1, <2>2, <2>3, <2>4
<1>14. ASSUME NEW i \in 1 .. Len(r)
       PROVE  /\ r[i] \in DOMAIN p /\ p[r[i]] = At(r, i - 1)
              /\ r[i] \in DOMAIN q /\ q[r[i]] = At(r, i + 1)
  <2>1. i \in 1 .. n - 1 /\ i \in 1 .. n /\ r[i] = s[i] BY <1>2, <1>12
  <2>2. /\ s[i] \in DOMAIN l.prev /\ l.prev[s[i]] = At(s, i - 1)
        /\ s[i] \in DOMAIN l.next /\ l.next[s[i]] = At(s, i + 1)
    BY <1>1, <2>1 DEF Linked
  <2>3. s[i] # t BY <1>1, <1>2, <2>1 DEF NoRepetition
  <2>4. s[i] = before <=> i = n - 1
    <3>1. n - 1 \in 1 .. n BY <1>2, <2>1
    <3>2. before = s[n - 1] BY <3>1 DEF At
    <3>3. QED BY <1>1, <2>1, <3>1, <3>2 DEF NoRepetition
  <2>5. At(r, i - 1) = At(s, i - 1) /\ At(r, i + 1) = IF i = n - 1 THEN HTR ELSE At(s, i + 1)
    <3>1. i - 1 \in 0 .. n /\ i + 1 \in 0 .. n BY <1>2, <2>1
    <3>2. QED BY <1>2, <1>12, <2>1, <3>1
  <2> HIDE DEF before, t
  <2>6. QED BY <1>8, <1>9, <1>10, <2>1, <2>2, <2>3, <2>4, <2>5
<1>15. Linked(m, r)
  BY <1>11, <1>12, <1>13, <1>14 DEF Linked
<1>16. ASSUME NEW d, NEW e, KeysAmong(d, s), DOMAIN e = DOMAIN d \ {t}
       PROVE  KeysAmong(e, r)
  <2> SUFFICES ASSUME NEW x \in DOMAIN d, x # t PROVE \E i \in 1 .. Len(r) : r[i] = x
    BY <1>16 DEF KeysAmong
  <2>1. PICK i \in 1 .. n : s[i] = x BY <1>16 DEF KeysAmong
  <2>2. i # n BY <2>1
  <2>3. i \in 1 .. n - 1 BY <1>2, <2>2
  <2>4. QED BY <1>12, <2>1, <2>3
<1>17. KeysAmong(p, r) BY <1>1, <1>8, <1>16
<1>18. KeysAmong(q, r) BY <1>1, <1>9, <1>10, <1>16
<1>19. n - 1 <= l.capacity
  <2>1. l.capacity \in Nat BY <1>1 DEF ListType
  <2> HIDE DEF n
  <2>2. QED BY <1>1, <1>2, <2>1
<1>20. QED BY <1>11, <1>12, <1>15, <1>17, <1>18, <1>19 DEF Represents, r, m

(* What RemoveFirst removes. *)
LEMMA RemovedFirst ==
  ASSUME NEW s \in Seq(Ids), NoRepetition(s), NEW t
  PROVE  /\ (\A i \in 1 .. Len(s) : s[i] # t) => RL!RemoveFirst(s, t) = s
         /\ \A k \in 1 .. Len(s) : s[k] = t => RL!RemoveFirst(s, t) = RL!RemoveAt(s, k)
<1>1. ASSUME \A i \in 1 .. Len(s) : s[i] # t PROVE RL!RemoveFirst(s, t) = s
  BY <1>1 DEF RL!RemoveFirst
<1>2. ASSUME NEW k \in 1 .. Len(s), s[k] = t PROVE RL!RemoveFirst(s, t) = RL!RemoveAt(s, k)
  <2>1. {i \in 1 .. Len(s) : s[i] = t} = {k} BY <1>2 DEF NoRepetition
  <2>2. RL!Min({k}) = k BY <1>2 DEF RL!Min
  <2>3. RL!SelectInSeq(s, LAMBDA v : v = t) = k BY <2>1, <2>2 DEF RL!SelectInSeq
  <2>4. QED BY <1>2, <2>3 DEF RL!RemoveFirst
<1>3. QED BY <1>1, <1>2

(* What fits is kept. *)
LEMMA FirstOfAll ==
  ASSUME NEW s \in Seq(Ids), NEW c \in Nat, Len(s) <= c
  PROVE  RL!FirstOf(s, c) = s
<1>1. RL!Least(c, Len(s)) = Len(s) BY DEF RL!Least
<1>2. QED BY <1>1, SubSeqFull DEF RL!FirstOf

(* In a full list the new first pushes the last out. *)
LEMMA FirstOfPushed ==
  ASSUME NEW s \in Seq(Ids), NoRepetition(s), Len(s) > 0, NEW t \in Ids
  PROVE  RL!FirstOf(<<t>> \o s, Len(s)) = <<t>> \o RL!RemoveAt(s, Len(s))
<1> DEFINE n == Len(s)
           q == <<t>> \o s
           r == RL!RemoveAt(s, n)
           u == <<t>> \o r
           f == SubSeq(q, 1, n)
<1>1. n \in Nat /\ n > 0 /\ n \in 1 .. n BY SMT
<1>2. LessOne(r, s, n)
  <2> HIDE DEF n
  <2>1. n \in 1 .. Len(s) BY <1>1 DEF n
  <2>2. QED BY <2>1, Removed
<1> HIDE DEF r
<1>3. /\ r \in Seq(Ids) /\ Len(r) = n - 1
      /\ \A i \in 1 .. n - 1 : r[i] = s[i]
  BY <1>1, <1>2 DEF LessOne
<1>4. /\ <<t>> \in Seq(Ids) /\ Len(<<t>>) = 1 /\ <<t>>[1] = t
  OBVIOUS
<1>5. /\ q \in Seq(Ids) /\ Len(q) = n + 1
      /\ \A i \in 1 .. n + 1 : q[i] = IF i = 1 THEN t ELSE s[i - 1]
  BY <1>1, <1>4, ConcatProperties
<1>6. /\ u \in Seq(Ids) /\ Len(u) = n
      /\ \A i \in 1 .. n : u[i] = IF i = 1 THEN t ELSE s[i - 1]
  <2>1. /\ u \in Seq(Ids) /\ Len(u) = 1 + (n - 1)
        /\ \A i \in 1 .. 1 + (n - 1) : u[i] = IF i <= 1 THEN <<t>>[i] ELSE r[i - 1]
    BY <1>3, <1>4, ConcatProperties
  <2> HIDE DEF u
  <2>2. 1 + (n - 1) = n BY <1>1
  <2>3. \A i \in 1 .. n : i # 1 => i - 1 \in 1 .. n - 1 BY <1>1
  <2>4. QED BY <1>1, <1>3, <1>4, <2>1, <2>2, <2>3
<1> HIDE DEF q, u, n
<1>7. /\ f \in Seq(Ids) /\ Len(f) = n
      /\ \A i \in 1 .. n : f[i] = q[i]
  <2>1. \A i \in 1 .. n : q[i] \in Ids BY <1>1, <1>5
  <2>2. /\ f \in Seq(Ids) /\ Len(f) = (IF 1 <= n THEN n - 1 + 1 ELSE 0)
        /\ \A i \in 1 .. n - 1 + 1 : f[i] = q[1 + i - 1]
    <3>1. 1 \in Int /\ n \in Int BY <1>1
    <3>2. QED BY <2>1, <3>1, SubSeqProperties
  <2> HIDE DEF f
  <2>3. n - 1 + 1 = n /\ \A i \in 1 .. n : 1 + i - 1 = i BY <1>1
  <2>4. QED BY <1>1, <2>2, <2>3
<1> HIDE DEF f
<1>8. f = u
  <2>1. ASSUME NEW i \in 1 .. n PROVE f[i] = u[i]
    <3>1. i \in 1 .. n + 1 BY <1>1
    <3>2. q[i] = IF i = 1 THEN t ELSE s[i - 1] BY <1>5, <3>1
    <3>3. QED BY <1>6, <1>7, <3>2
  <2>2. QED BY <1>6, <1>7, <2>1, SeqEqual
<1>9. RL!Least(n, Len(q)) = n BY <1>1, <1>5 DEF RL!Least
<1>10. RL!FirstOf(q, n) = f BY <1>9 DEF RL!FirstOf, f
<1>11. QED BY <1>8, <1>10 DEF q, u, r, n

\* l with its pointers for t left or not.
KeysAmongBut(d, s, t) == \A x \in DOMAIN d : x = t \/ \E i \in 1 .. Len(s) : s[i] = x

(* A token that is not in the list joins it. *)
LEMMA AddedRepresents ==
  ASSUME NEW l, NEW s, Linked(l, s), NEW t \in Ids, \A i \in 1 .. Len(s) : s[i] # t,
         KeysAmongBut(l.prev, s, t), KeysAmongBut(l.next, s, t),
         l.size = Len(s) + 1, l.size <= l.capacity
  PROVE  /\ Represents(PL!AddToHead(l, t), <<t>> \o s)
         /\ PL!AddToHead(l, t).capacity = l.capacity
<1> DEFINE m == PL!AddToHead(l, t)
           r == <<t>> \o s
<1>1. /\ Linked(m, r)
      /\ DOMAIN m.prev = DOMAIN l.prev \cup {t} /\ DOMAIN m.next = DOMAIN l.next \cup {t}
      /\ m.size = l.size /\ m.capacity = l.capacity
  BY AddIs
<1>2. s \in Seq(Ids) /\ Len(s) \in Nat BY DEF Linked
<1>3. /\ Len(r) = Len(s) + 1 /\ r[1] = t /\ 1 \in 1 .. Len(r)
      /\ \A i \in 1 .. Len(s) : i + 1 \in 1 .. Len(r) /\ r[i + 1] = s[i]
  <2>1. <<t>> \in Seq(Ids) /\ Len(<<t>>) = 1 /\ <<t>>[1] = t OBVIOUS
  <2>2. QED BY <1>2, <2>1, ConcatProperties
<1> HIDE DEF m, r
<1>4. KeysAmong(m.prev, r) /\ KeysAmong(m.next, r)
  BY <1>1, <1>3 DEF KeysAmong, KeysAmongBut
<1>5. QED BY <1>1, <1>3, <1>4 DEF Represents, m, r

(* The size is no pointer. *)
LEMMA SizeChanged ==
  ASSUME NEW l, NEW s, Linked(l, s), NEW n \in Nat
  PROVE  LET m == [l EXCEPT !.size = n] IN
         /\ Linked(m, s) /\ m.prev = l.prev /\ m.next = l.next
         /\ m.size = n /\ m.capacity = l.capacity
<1> DEFINE m == [l EXCEPT !.size = n]
<1>1. l \in ListType BY DEF Linked
<1>2. /\ m \in ListType /\ m.prev = l.prev /\ m.next = l.next /\ m.head = l.head
      /\ m.tail = l.tail /\ m.size = n /\ m.capacity = l.capacity
  BY <1>1 DEF ListType
<1> HIDE DEF m
<1>3. Linked(m, s) BY <1>2 DEF Linked
<1>4. QED BY <1>2, <1>3 DEF m

(* update_lru puts the token first and forgets the last where it must. *)
LEMMA UsedIs ==
  ASSUME NEW l, NEW s, Represents(l, s), NEW t \in Ids
  PROVE  /\ Represents(PL!Used(l, t), RL!FirstOf(<<t>> \o RL!RemoveFirst(s, t), l.capacity))
         /\ PL!Used(l, t).capacity = l.capacity
<1> DEFINE n == Len(s)
           c == l.capacity
<1>1. /\ Linked(l, s) /\ s \in Seq(Ids) /\ NoRepetition(s) /\ l \in ListType
      /\ l.size = n /\ n <= c /\ KeysAmong(l.prev, s) /\ KeysAmong(l.next, s)
      /\ n \in Nat /\ c \in Nat \ {0}
  BY LinkedFacts DEF Represents, Linked
<1>2. CASE \E k \in 1 .. n : s[k] = t
  <2>1. PICK k \in 1 .. n : s[k] = t BY <1>2
  <2> DEFINE m == PL!Unlink(l, t)
             r == RL!RemoveAt(s, k)
  <2>2. /\ Linked(m, r) /\ m.size = n /\ m.capacity = c
        /\ DOMAIN m.prev = DOMAIN l.prev /\ DOMAIN m.next = DOMAIN l.next
    BY <1>1, <2>1, UnlinkIs
  <2>3. LessOne(r, s, k) BY <1>1, <2>1, Removed
  <2>4. PL!Used(l, t) = PL!AddToHead(m, t)
    <3>1. t \in DOMAIN l.prev BY <1>1, <2>1 DEF Linked
    <3>2. QED BY <3>1 DEF PL!Used
  <2>5. RL!RemoveFirst(s, t) = r BY <1>1, <2>1, RemovedFirst
  <2> HIDE DEF m, r
  <2>6. /\ r \in Seq(Ids) /\ Len(r) = n - 1 /\ \A i \in 1 .. Len(r) : r[i] # t
        /\ \A i \in 1 .. n : i = k \/ \E j \in 1 .. Len(r) : r[j] = s[i]
    <3>1. ASSUME NEW i \in 1 .. n, i # k PROVE \E j \in 1 .. Len(r) : r[j] = s[i]
      <4>1. CASE i < k
        <5>1. i \in 1 .. Len(r) BY <1>1, <2>1, <2>3, <4>1 DEF LessOne
        <5>2. QED BY <2>3, <4>1, <5>1 DEF LessOne
      <4>2. CASE i > k
        <5>1. i - 1 \in 1 .. Len(r) /\ ~ (i - 1 < k) /\ i - 1 + 1 = i
          BY <1>1, <2>1, <2>3, <4>2 DEF LessOne
        <5>2. r[i - 1] = s[i] BY <2>3, <5>1 DEF LessOne
        <5>3. QED BY <5>1, <5>2
      <4>3. QED BY <2>1, <3>1, <4>1, <4>2
    <3>2. QED BY <2>1, <2>3, <3>1 DEF LessOne
  <2>7. KeysAmongBut(m.prev, r, t) /\ KeysAmongBut(m.next, r, t)
    <3>1. ASSUME NEW x, x \in DOMAIN l.prev \/ x \in DOMAIN l.next
          PROVE  x = t \/ \E j \in 1 .. Len(r) : r[j] = x
      <4>1. PICK i \in 1 .. n : s[i] = x BY <1>1, <3>1 DEF KeysAmong
      <4>2. QED BY <2>1, <2>6, <4>1
    <3>2. QED BY <2>2, <3>1 DEF KeysAmongBut
  <2>8. m.size = Len(r) + 1 /\ m.size <= m.capacity BY <1>1, <2>2, <2>6
  <2>9. Represents(PL!AddToHead(m, t), <<t>> \o r) /\ PL!AddToHead(m, t).capacity = c
    BY <2>2, <2>6, <2>7, <2>8, AddedRepresents
  <2>10. RL!FirstOf(<<t>> \o r, c) = <<t>> \o r
    <3>1. <<t>> \o r \in Seq(Ids) /\ Len(<<t>> \o r) = 1 + Len(r)
      <4>1. <<t>> \in Seq(Ids) /\ Len(<<t>>) = 1 OBVIOUS
      <4>2. QED BY <2>6, <4>1, ConcatProperties
    <3>2. 1 + Len(r) = n BY <1>1, <2>6
    <3> DEFINE q == <<t>> \o r
    <3>3. q \in Seq(Ids) /\ Len(q) <= c /\ c \in Nat BY <1>1, <3>1, <3>2
    <3> HIDE DEF q, c
    <3>4. RL!FirstOf(q, c) = q BY <3>3, FirstOfAll
    <3>5. QED BY <3>4 DEF q
  <2>11. QED BY <2>4, <2>5, <2>9, <2>10
<1>3. CASE ~ \E k \in 1 .. n : s[k] = t
  <2>1. RL!RemoveFirst(s, t) = s BY <1>1, <1>3, RemovedFirst
  <2>2. t \notin DOMAIN l.prev BY <1>1, <1>3 DEF KeysAmong
  <2>3. CASE ~ (l.size >= l.capacity)
    <3> DEFINE m == [l EXCEPT !.size = l.size + 1]
    <3>1. l.size + 1 \in Nat /\ l.size + 1 = n + 1 /\ n + 1 <= c BY <1>1, <2>3
    <3>2. Linked(m, s) /\ m.prev = l.prev /\ m.next = l.next /\ m.size = n + 1 /\ m.capacity = c
      BY <1>1, <3>1, SizeChanged
    <3>3. PL!Used(l, t) = PL!AddToHead(m, t) BY <2>2, <2>3 DEF PL!Used
    <3> HIDE DEF m
    <3>4. KeysAmongBut(m.prev, s, t) /\ KeysAmongBut(m.next, s, t)
      BY <1>1, <3>2 DEF KeysAmong, KeysAmongBut
    <3>5. Represents(PL!AddToHead(m, t), <<t>> \o s) /\ PL!AddToHead(m, t).capacity = c
      BY <1>3, <3>1, <3>2, <3>4, AddedRepresents
    <3>6. RL!FirstOf(<<t>> \o s, c) = <<t>> \o s
      <4> DEFINE q == <<t>> \o s
      <4>1. <<t>> \in Seq(Ids) /\ Len(<<t>>) = 1 OBVIOUS
      <4>2. q \in Seq(Ids) /\ Len(q) = 1 + n BY <1>1, <4>1, ConcatProperties
      <4>3. Len(q) <= c /\ c \in Nat BY <1>1, <3>1, <4>2
      <4> HIDE DEF q, c
      <4>4. RL!FirstOf(q, c) = q BY <4>2, <4>3, FirstOfAll
      <4>5. QED BY <4>4 DEF q
    <3>7. QED BY <2>1, <3>3, <3>5, <3>6
  <2>4. CASE l.size >= l.capacity
    <3>1. n = c /\ n > 0 BY <1>1, <2>4
    <3> DEFINE e == PL!EvictTail(l)
               r == RL!RemoveAt(s, n)
    <3>2. Represents(e, r) /\ e.capacity = c
      BY <3>1, EvictIs
    <3>3. LessOne(r, s, n)
      <4>1. Len(s) \in 1 .. Len(s) BY <1>1, <3>1
      <4>2. QED BY <1>1, <4>1, Removed
    <3> DEFINE m == [e EXCEPT !.size = e.size + 1]
    <3>4. PL!Used(l, t) = PL!AddToHead(m, t) BY <2>2, <2>4 DEF PL!Used
    <3> HIDE DEF e, r
    <3>5. /\ Linked(e, r) /\ e.size = Len(r) /\ KeysAmong(e.prev, r) /\ KeysAmong(e.next, r)
          /\ Len(r) = n - 1
      BY <3>2, <3>3 DEF Represents, LessOne
    <3>6. e.size + 1 \in Nat /\ e.size + 1 = n BY <1>1, <3>1, <3>5
    <3>7. Linked(m, r) /\ m.prev = e.prev /\ m.next = e.next /\ m.size = n /\ m.capacity = c
      BY <3>2, <3>5, <3>6, SizeChanged
    <3> HIDE DEF m
    <3>8. KeysAmongBut(m.prev, r, t) /\ KeysAmongBut(m.next, r, t)
      BY <3>5, <3>7 DEF KeysAmong, KeysAmongBut
    <3>9. \A i \in 1 .. Len(r) : r[i] # t
      <4> SUFFICES ASSUME NEW i \in 1 .. Len(r) PROVE r[i] # t
        OBVIOUS
      <4>1. i \in 1 .. n /\ i < n BY <1>1, <3>5
      <4>2. r[i] = s[i] BY <3>3, <4>1 DEF LessOne
      <4>3. QED BY <1>3, <4>1, <4>2
    <3>10. m.size = Len(r) + 1 /\ m.size <= m.capacity BY <1>1, <3>1, <3>5, <3>7
    <3>11. Represents(PL!AddToHead(m, t), <<t>> \o r) /\ PL!AddToHead(m, t).capacity = c
      BY <3>7, <3>8, <3>9, <3>10, AddedRepresents
    <3>12. RL!FirstOf(<<t>> \o s, c) = <<t>> \o r
      <4>1. RL!FirstOf(<<t>> \o s, n) = <<t>> \o r BY <1>1, <3>1, FirstOfPushed DEF r
      <4>2. QED BY <3>1, <4>1
    <3>13. QED BY <2>1, <3>4, <3>11, <3>12
  <2>5. QED BY <2>3, <2>4
<1>4. QED BY <1>2, <1>3

(* Walking the list: the recursion from the head.                          *)
NodeFrom(node, l) ==
  node = [n \in 1 .. l.size |-> IF n = 1 THEN l.head ELSE PL!Get(l.next, node[n - 1])]

(* It has a solution, the sequence itself, ... *)
LEMMA WalkExists ==
  ASSUME NEW l, NEW s, Represents(l, s)
  PROVE  NodeFrom([n \in 1 .. l.size |-> s[n]], l)
<1> DEFINE node == [n \in 1 .. l.size |-> s[n]]
<1>1. /\ l.size = Len(s) /\ Len(s) \in Nat /\ l.head = At(s, 1)
      /\ \A i \in 1 .. Len(s) : s[i] \in DOMAIN l.next /\ l.next[s[i]] = At(s, i + 1)
  BY DEF Represents, Linked
<1>2. ASSUME NEW n \in 1 .. l.size
      PROVE  s[n] = IF n = 1 THEN l.head ELSE PL!Get(l.next, node[n - 1])
  <2>1. CASE n = 1 BY <1>1, <2>1 DEF At
  <2>2. CASE n # 1
    <3>1. n - 1 \in 1 .. Len(s) /\ n - 1 + 1 = n /\ n \in 1 .. Len(s) BY <1>1, <2>2
    <3>2. node[n - 1] = s[n - 1] BY <1>1, <3>1
    <3> HIDE DEF node
    <3>3. PL!Get(l.next, s[n - 1]) = At(s, n) BY <1>1, <3>1 DEF PL!Get
    <3>4. At(s, n) = s[n] BY <3>1 DEF At
    <3>5. QED BY <2>2, <3>2, <3>3, <3>4
  <2>3. QED BY <2>1, <2>2
<1>3. QED BY <1>2 DEF NodeFrom

(* ... and no other: a first node off the sequence follows one on it. *)
LEMMA WalkUnique ==
  ASSUME NEW l, NEW s, Represents(l, s), NEW node, NodeFrom(node, l)
  PROVE  \A n \in 1 .. l.size : node[n] = s[n]
<1> DEFINE Bad == {n \in 1 .. l.size : node[n] # s[n]}
<1>1. /\ l.size = Len(s) /\ Len(s) \in Nat /\ l.head = At(s, 1)
      /\ \A i \in 1 .. Len(s) : s[i] \in DOMAIN l.next /\ l.next[s[i]] = At(s, i + 1)
  BY DEF Represents, Linked
<1>2. SUFFICES ASSUME Bad # {} PROVE FALSE
  OBVIOUS
<1>3. PICK n \in Bad : \A k \in Bad : n <= k
  <2>1. Bad \in SUBSET Nat BY <1>1
  <2> HIDE DEF Bad
  <2>2. QED BY <1>2, <2>1, Least
<1>4. n \in 1 .. Len(s) /\ node[n] # s[n] BY <1>1, <1>3
<1>5. node[n] = IF n = 1 THEN l.head ELSE PL!Get(l.next, node[n - 1])
  BY <1>1, <1>4 DEF NodeFrom
<1>6. CASE n = 1 BY <1>1, <1>4, <1>5, <1>6 DEF At
<1>7. CASE n # 1
  <2>1. n - 1 \in 1 .. Len(s) /\ n - 1 + 1 = n BY <1>1, <1>4, <1>7
  <2>2. n - 1 \notin Bad
    <3> HIDE DEF Bad
    <3>1. ~ (n <= n - 1) BY <1>4
    <3>2. QED BY <1>3, <3>1
  <2>3. node[n - 1] = s[n - 1] BY <1>1, <2>1, <2>2
  <2> HIDE DEF Bad
  <2>4. PL!Get(l.next, s[n - 1]) = At(s, n) BY <1>1, <2>1 DEF PL!Get
  <2>5. At(s, n) = s[n] BY <1>4 DEF At
  <2>6. QED BY <1>4, <1>5, <1>7, <2>3, <2>4, <2>5
<1>8. QED BY <1>6, <1>7

(* get_last_n_tokens reads the sequence. *)
LEMMA WalkIs ==
  ASSUME NEW l, NEW s, Represents(l, s)
  PROVE  PL!Walk(l) = s
<1> DEFINE node == CHOOSE node : NodeFrom(node, l)
<1>1. NodeFrom(node, l) BY WalkExists
<1>2. PL!Walk(l) = [n \in 1 .. l.size |-> node[n]] BY DEF PL!Walk, NodeFrom
<1> HIDE DEF node
<1>3. \A n \in 1 .. l.size : node[n] = s[n] BY <1>1, WalkUnique
<1>4. l.size = Len(s) /\ s \in Seq(Ids) BY DEF Represents, Linked
<1>5. s = [n \in 1 .. Len(s) |-> s[n]] BY <1>4
<1>6. QED BY <1>2, <1>3, <1>4, <1>5

-----------------------------------------------------------------------------
(* Evicting until the list fits. *)

\* f is what k evictions of l leave, for k up to m.
Evicts(f, l, m) ==
  f = [n \in 0 .. m |-> IF n = 0 THEN l ELSE PL!EvictTail(f[n - 1])]

(* The loop has an outcome after any number of evictions. *)
LEMMA EvictsExists ==
  ASSUME NEW l
  PROVE  \A m \in Nat : \E f : Evicts(f, l, m)
<1> DEFINE Bad == {m \in Nat : ~ \E f : Evicts(f, l, m)}
<1>1. SUFFICES ASSUME Bad # {} PROVE FALSE
  OBVIOUS
<1>2. PICK m \in Bad : \A k \in Bad : m <= k
  <2>1. Bad \in SUBSET Nat OBVIOUS
  <2> HIDE DEF Bad
  <2>2. QED BY <1>1, <2>1, Least
<1>3. m \in Nat /\ ~ \E f : Evicts(f, l, m) OBVIOUS
<1>4. CASE m = 0
  <2> DEFINE f == [n \in 0 .. m |-> l]
  <2>1. \A n \in 0 .. m : n = 0 BY <1>4
  <2>2. Evicts(f, l, m) BY <2>1 DEF Evicts
  <2>3. QED BY <1>3, <2>2
<1>5. CASE m # 0
  <2>1. m - 1 \in Nat BY <1>3, <1>5
  <2>2. PICK f : Evicts(f, l, m - 1)
    <3>1. m - 1 \notin Bad
      <4> HIDE DEF Bad
      <4>1. ~ (m <= m - 1) BY <1>3
      <4>2. QED BY <1>2, <4>1
    <3>2. QED BY <2>1, <3>1
  <2> DEFINE g == [n \in 0 .. m |-> IF n < m THEN f[n] ELSE PL!EvictTail(f[m - 1])]
  <2>3. ASSUME NEW n \in 0 .. m PROVE g[n] = IF n = 0 THEN l ELSE PL!EvictTail(g[n - 1])
    <3>1. CASE n < m
      <4>1. n \in 0 .. m - 1 BY <1>3, <3>1
      <4>2. g[n] = f[n] BY <3>1
      <4>3. n # 0 => n - 1 \in 0 .. m /\ n - 1 < m BY <1>3, <3>1
      <4>4. n # 0 => g[n - 1] = f[n - 1] BY <4>3
      <4> HIDE DEF g
      <4>5. f[n] = IF n = 0 THEN l ELSE PL!EvictTail(f[n - 1]) BY <2>2, <4>1 DEF Evicts
      <4>6. QED BY <4>2, <4>4, <4>5
    <3>2. CASE ~ (n < m)
      <4>1. n = m /\ m - 1 \in 0 .. m /\ m - 1 < m BY <1>3, <1>5, <3>2
      <4>2. g[m] = PL!EvictTail(f[m - 1]) BY <4>1
      <4>3. g[m - 1] = f[m - 1] BY <4>1
      <4> HIDE DEF g
      <4>4. QED BY <1>5, <4>1, <4>2, <4>3
    <3>3. QED BY <3>1, <3>2
  <2>4. Evicts(g, l, m) BY <2>3 DEF Evicts
  <2>5. QED BY <1>3, <2>4
<1>6. QED BY <1>4, <1>5

(* n evictions take the last n. *)
LEMMA EvictsIs ==
  ASSUME NEW l, NEW s, Represents(l, s), NEW f, Evicts(f, l, l.size)
  PROVE  \A n \in 0 .. l.size :
           Represents(f[n], SubSeq(s, 1, Len(s) - n)) /\ f[n].capacity = l.capacity
<1> DEFINE Good(n) == Represents(f[n], SubSeq(s, 1, Len(s) - n)) /\ f[n].capacity = l.capacity
           Bad == {n \in 0 .. l.size : ~ Good(n)}
<1>1. l.size = Len(s) /\ Len(s) \in Nat /\ s \in Seq(Ids) /\ NoRepetition(s)
  BY DEF Represents, Linked
<1>2. SUFFICES ASSUME Bad # {} PROVE FALSE
  OBVIOUS
<1>3. PICK n \in Bad : \A k \in Bad : n <= k
  <2>1. Bad \in SUBSET Nat BY <1>1
  <2> HIDE DEF Bad
  <2>2. QED BY <1>2, <2>1, Least
<1>4. n \in 0 .. l.size /\ ~ Good(n) OBVIOUS
<1>5. f[n] = IF n = 0 THEN l ELSE PL!EvictTail(f[n - 1]) BY <1>4 DEF Evicts
<1>6. CASE n = 0
  <2>1. SubSeq(s, 1, Len(s)) = s /\ Len(s) - 0 = Len(s) BY <1>1, SubSeqFull
  <2>2. QED BY <1>4, <1>5, <1>6, <2>1
<1>7. CASE n # 0
  <2>1. n - 1 \in 0 .. l.size /\ ~ (n <= n - 1) BY <1>1, <1>4, <1>7
  <2>2. Good(n - 1)
    <3>1. n - 1 \notin Bad
      <4> HIDE DEF Bad
      <4>1. QED BY <1>3, <2>1
    <3>2. QED BY <2>1, <3>1
  <2> DEFINE j == Len(s) - (n - 1)
             e == f[n - 1]
             q == SubSeq(s, 1, j)
             r == RL!RemoveAt(q, Len(q))
  <2>3. Represents(e, q) /\ e.capacity = l.capacity BY <2>2
  <2>4. j \in Nat /\ j > 0 /\ j <= Len(s) /\ Len(s) - n = j - 1 BY <1>1, <1>4, <1>7
  <2> HIDE DEF e, j, Good
  <2>5. q \in Seq(Ids) /\ Len(q) = j /\ \A i \in 1 .. j : q[i] = s[i]
    <3>1. \A i \in 1 .. j : s[i] \in Ids BY <1>1, <2>4
    <3>2. /\ q \in Seq(Ids) /\ Len(q) = (IF 1 <= j THEN j - 1 + 1 ELSE 0)
          /\ \A i \in 1 .. j - 1 + 1 : q[i] = s[1 + i - 1]
      <4>1. 1 \in Int /\ j \in Int BY <2>4
      <4>2. QED BY <3>1, <4>1, SubSeqProperties
    <3> HIDE DEF q
    <3>3. j - 1 + 1 = j /\ 1 <= j /\ \A i \in 1 .. j : 1 + i - 1 = i BY <2>4
    <3>4. QED BY <3>2, <3>3
  <2>6. SubSeq(s, 1, j - 1) \in Seq(Ids) /\ Len(SubSeq(s, 1, j - 1)) = j - 1
        /\ \A i \in 1 .. j - 1 : SubSeq(s, 1, j - 1)[i] = s[i]
    <3> DEFINE k == j - 1
               u == SubSeq(s, 1, k)
    <3>0. k \in Nat /\ k <= Len(s) BY <1>1, <2>4
    <3> HIDE DEF k
    <3>1. \A i \in 1 .. k : s[i] \in Ids BY <1>1, <3>0
    <3>2. /\ u \in Seq(Ids) /\ Len(u) = (IF 1 <= k THEN k - 1 + 1 ELSE 0)
          /\ \A i \in 1 .. k - 1 + 1 : u[i] = s[1 + i - 1]
      <4>1. 1 \in Int /\ k \in Int BY <3>0
      <4>2. QED BY <3>1, <4>1, SubSeqProperties
    <3> HIDE DEF u
    <3>3. k - 1 + 1 = k /\ (~ (1 <= k) => k = 0) /\ \A i \in 1 .. k : 1 + i - 1 = i BY <3>0
    <3>4. QED BY <3>2, <3>3 DEF k, u
  <2> HIDE DEF q
  <2>7. Represents(PL!EvictTail(e), r) /\ PL!EvictTail(e).capacity = l.capacity
    BY <2>3, <2>4, <2>5, EvictIs
  <2>8. LessOne(r, q, Len(q))
    <3>1. NoRepetition(q) /\ Len(q) \in 1 .. Len(q) BY <2>3, <2>4, <2>5 DEF Represents, Linked
    <3>2. QED BY <2>5, <3>1, Removed
  <2> HIDE DEF r
  <2>9. r \in Seq(Ids) /\ Len(r) = j - 1 /\ \A i \in 1 .. j - 1 : r[i] = q[i]
    BY <2>4, <2>5, <2>8 DEF LessOne
  <2>10. r = SubSeq(s, 1, j - 1)
    <3> DEFINE u == SubSeq(s, 1, j - 1)
    <3>1. u \in Seq(Ids) /\ Len(u) = j - 1 /\ \A i \in 1 .. j - 1 : u[i] = s[i]
      BY <2>6
    <3> HIDE DEF u
    <3>2. \A i \in 1 .. j - 1 : r[i] = u[i] BY <2>4, <2>5, <2>9, <3>1
    <3>3. r = u BY <2>9, <3>1, <3>2, SeqEqual
    <3>4. QED BY <3>3 DEF u
  <2>11. f[n] = PL!EvictTail(e) BY <1>5, <1>7 DEF e
  <2>12. Good(n) BY <2>4, <2>7, <2>10, <2>11 DEF Good
  <2>13. QED BY <1>4, <2>12
<1>8. QED BY <1>6, <1>7

(* change_lru_capacity keeps the first tokens. *)
LEMMA ResizedIs ==
  ASSUME NEW l, NEW s, Represents(l, s), NEW c \in Nat \ {0}
  PROVE  /\ Represents(PL!Resized(l, c), RL!FirstOf(s, c))
         /\ PL!Resized(l, c).capacity = c
<1> DEFINE shrunk == CHOOSE f : Evicts(f, l, l.size)
           excess == IF l.size > c THEN l.size - c ELSE 0
           e == shrunk[excess]
           n == Len(s)
           m == [e EXCEPT !.capacity = c]
           q == RL!FirstOf(s, c)
<1>1. l.size = n /\ n \in Nat
  BY DEF Represents, Linked
<1>2. Evicts(shrunk, l, l.size)
  BY <1>1, EvictsExists
<1>3. PL!Resized(l, c) = m
  BY DEF PL!Resized, Evicts
<1> HIDE DEF shrunk
<1>4. excess \in 0 .. l.size /\ n - excess <= c
      /\ n - excess = RL!Least(c, n)
  <2> DEFINE z == l.size
  <2>1. z \in Nat /\ z = n BY <1>1
  <2> HIDE DEF z, n
  <2>2. CASE z > c BY <2>1, <2>2 DEF RL!Least, z
  <2>3. CASE ~ (z > c) BY <2>1, <2>3 DEF RL!Least, z
  <2>4. QED BY <2>2, <2>3
<1>5. Represents(e, q)
  <2> HIDE DEF excess
  <2>1. Represents(e, SubSeq(s, 1, n - excess)) BY <1>2, <1>4, EvictsIs
  <2>2. SubSeq(s, 1, n - excess) = q BY <1>4 DEF RL!FirstOf
  <2>3. QED BY <2>1, <2>2
<1>6. Len(q) <= c
  <2> DEFINE k == n - excess
  <2>1. k \in Nat /\ k <= c /\ k <= n BY <1>1, <1>4
  <2>2. q = SubSeq(s, 1, k) BY <1>4 DEF RL!FirstOf
  <2> HIDE DEF k, q
  <2>3. \A i \in 1 .. k : s[i] \in Ids BY <2>1 DEF Represents, Linked
  <2>4. Len(q) = IF 1 <= k THEN k - 1 + 1 ELSE 0
    <3>1. 1 \in Int /\ k \in Int BY <2>1
    <3>2. QED BY <2>2, <2>3, <3>1, SubSeqProperties
  <2>5. QED BY <2>1, <2>4
<1> HIDE DEF e, q
<1>7. /\ Linked(e, q) /\ KeysAmong(e.prev, q) /\ KeysAmong(e.next, q)
      /\ e.size = Len(q) /\ e \in ListType
  BY <1>5 DEF Represents, Linked
<1>8. /\ m \in ListType /\ m.prev = e.prev /\ m.next = e.next /\ m.head = e.head
      /\ m.tail = e.tail /\ m.size = e.size /\ m.capacity = c
  BY <1>7 DEF ListType
<1> HIDE DEF m
<1>9. Linked(m, q) BY <1>7, <1>8 DEF Linked
<1>10. QED BY <1>3, <1>6, <1>7, <1>8, <1>9 DEF Represents, q

(* __init__. *)
LEMMA EmptyIs ==
  ASSUME NEW c \in Nat \ {0}
  PROVE  Represents(PL!EmptyList(c), << >>) /\ PL!EmptyList(c).capacity = c
<1> DEFINE d == [t \in {} |-> HTR]
           l == PL!EmptyList(c)
<1>1. l = [prev |-> d, next |-> d, head |-> HTR, tail |-> HTR, size |-> 0, capacity |-> c]
  BY DEF PL!EmptyList
<1>2. DOMAIN d = {} /\ d \in Pointers
  <2>1. d \in [{} -> Tokens] /\ {} \in SUBSET Ids OBVIOUS
  <2>2. QED BY <2>1 DEF Pointers
<1> HIDE DEF d, l
<1>3. l \in ListType BY <1>1, <1>2 DEF ListType, Tokens
<1>4. << >> \in Seq(Ids) /\ Len(<< >>) = 0 OBVIOUS
<1>5. Linked(l, << >>) BY <1>1, <1>3, <1>4 DEF Linked, NoRepetition, At
<1>6. QED BY <1>1, <1>2, <1>4, <1>5 DEF Represents, KeysAmong, l

-----------------------------------------------------------------------------
(* The list is what a walk along it shows. *)
ListInv == Represents(recent, PL!Walk(recent))

(* The sequence is the one a walk shows. *)
LEMMA ListShown ==
  ASSUME NEW s, Represents(recent, s)
  PROVE  ListInv /\ PL!Walk(recent) = s
BY WalkIs DEF ListInv

(* The first state. *)
LEMMA ListInitial == Init => ListInv /\ RL!Init
<1> SUFFICES ASSUME Init PROVE ListInv /\ RL!Init
  OBVIOUS
<1>1. PICK c \in Capacities : c > 0 /\ recent = PL!EmptyList(c) BY DEF Init
<1>2. c \in Nat \ {0} BY <1>1, KhensuAssumption
<1>3. Represents(recent, << >>) /\ recent.capacity = c BY <1>1, <1>2, EmptyIs
<1>4. ListInv /\ PL!Walk(recent) = << >> BY <1>3, ListShown
<1>5. << >> \in Seq(Ids) /\ Len(<< >>) = 0 /\ RL!IsInjective(<< >>) BY DEF RL!IsInjective
<1>6. QED BY <1>2, <1>3, <1>4, <1>5 DEF RL!Init

(* A use. *)
LEMMA UseStep ==
  ASSUME ListInv, NEW t \in Ids, recent' = PL!Used(recent, t)
  PROVE  ListInv' /\ RL!Next
<1> DEFINE s == PL!Walk(recent)
           q == RL!FirstOf(<<t>> \o RL!RemoveFirst(s, t), recent.capacity)
<1>1. Represents(recent, s) BY DEF ListInv
<1> HIDE DEF s
<1>2. Represents(recent', q) /\ recent'.capacity = recent.capacity BY <1>1, UsedIs
<1> HIDE DEF q
<1>3. PL!Walk(recent') = q BY <1>2, WalkIs
<1>4. ListInv' BY <1>2, <1>3 DEF ListInv
<1>5. RL!Use(t) BY <1>2, <1>3 DEF RL!Use, q, s
<1>6. QED BY <1>4, <1>5 DEF RL!Next

(* Another capacity. *)
LEMMA ResizeStep ==
  ASSUME ListInv, NEW c \in Nat \ {0}, recent' = PL!Resized(recent, c)
  PROVE  ListInv' /\ RL!Next
<1> DEFINE s == PL!Walk(recent)
           q == RL!FirstOf(s, c)
<1>1. Represents(recent, s) BY DEF ListInv
<1> HIDE DEF s
<1>2. Represents(recent', q) /\ recent'.capacity = c BY <1>1, ResizedIs
<1> HIDE DEF q
<1>3. PL!Walk(recent') = q BY <1>2, WalkIs
<1>4. ListInv' BY <1>2, <1>3 DEF ListInv
<1>5. RL!Resize(recent.capacity') BY <1>2, <1>3 DEF RL!Resize, q, s
<1>6. QED BY <1>4, <1>5 DEF RL!Next

(* What the calls do to the list. *)
LEMMA ListMoves ==
  ASSUME TypeOK, [Next]_vars
  PROVE  \/ UNCHANGED recent
         \/ \E t \in Ids : recent' = PL!Used(recent, t)
         \/ \E c \in Nat \ {0} : recent' = PL!Resized(recent, c)
<1>1. OnSale \subseteq Ids BY DEF TypeOK, OnSale, Registered
<1>2. \A c \in Capacities : c > 0 => c \in Nat \ {0} BY KhensuAssumption
<1>3. CASE UNCHANGED vars BY <1>3 DEF vars
<1>4. CASE TradeNext
  <2>1. PICK u \in Users :
          \/ \E t \in Ids : RegisterToken(u, t)
          \/ \E t \in OnSale, amount \in Amounts, slack \in Slacks : BuyTokens(u, t, amount, slack)
          \/ \E t \in OnSale, amount \in Amounts, slack \in Slacks : BuyAndGraduate(u, t, amount, slack)
          \/ \E t \in OnSale, amount \in Amounts, slack \in Slacks : SellTokens(u, t, amount, slack)
          \/ \E amount \in Amounts : WithdrawFees(u, amount)
          \/ \E t \in Ids \cup {HTR}, amount \in Amounts : WithdrawFromBalance(u, t, amount)
    BY <1>4 DEF TradeNext
  <2>2. ASSUME NEW t \in Ids, RegisterToken(u, t) PROVE recent' = PL!Used(recent, t)
    BY <2>2 DEF RegisterToken
  <2>3. ASSUME NEW t, NEW amount, NEW slack, BuyTokens(u, t, amount, slack)
        PROVE  recent' = PL!Used(recent, t)
    BY <2>3 DEF BuyTokens
  <2>4. ASSUME NEW t, NEW amount, NEW slack, BuyAndGraduate(u, t, amount, slack)
        PROVE  recent' = PL!Used(recent, t)
    BY <2>4 DEF BuyAndGraduate
  <2>5. ASSUME NEW t, NEW amount, NEW slack, SellTokens(u, t, amount, slack)
        PROVE  recent' = PL!Used(recent, t)
    BY <2>5 DEF SellTokens
  <2>6. ASSUME NEW t, NEW amount, WithdrawFees(u, amount) \/ WithdrawFromBalance(u, t, amount)
        PROVE  UNCHANGED recent
    BY <2>6 DEF WithdrawFees, WithdrawFromBalance
  <2>7. QED BY <1>1, <2>1, <2>2, <2>3, <2>4, <2>5, <2>6
<1>5. CASE AdminNext
  <2>1. ASSUME NEW u, NEW capacity \in Capacities, ChangeLruCapacity(u, capacity)
        PROVE  capacity > 0 /\ recent' = PL!Resized(recent, capacity)
    BY <2>1 DEF ChangeLruCapacity
  <2>2. ASSUME NEW u, NEW x, NEW y, NEW z,
               \/ ChangeBuyFeeRate(u, x) \/ ChangeSellFeeRate(u, x) \/ ChangeCreatorFeeRate(u, x)
               \/ ChangePoolFeeRate(u, x) \/ ChangeBondingCurve(u, x, y, z)
               \/ AddAdmin(u, x) \/ RemoveAdmin(u, x)
        PROVE  UNCHANGED recent
    BY <2>2 DEF ChangeBuyFeeRate, ChangeSellFeeRate, ChangeCreatorFeeRate, ChangePoolFeeRate,
                ChangeBondingCurve, AddAdmin, RemoveAdmin, Admin
  <2>3. QED BY <1>2, <1>5, <2>1, <2>2 DEF AdminNext
<1>6. CASE DozerNext
  BY <1>6 DEF DozerNext, DozerSigner, DozerForgets, DozerPool, Dozer
<1>7. QED BY <1>3, <1>4, <1>5, <1>6 DEF Next

(* A step of Khensu is a step of the recency list or none. *)
LEMMA ListStep ==
  ASSUME TypeOK, ListInv, [Next]_vars
  PROVE  ListInv' /\ [RL!Next]_(RL!vars)
<1>1. CASE UNCHANGED recent
  <2>1. ListInv' BY <1>1 DEF ListInv
  <2>2. UNCHANGED RL!vars BY <1>1 DEF RL!vars
  <2>3. QED BY <2>1, <2>2
<1>2. CASE \E t \in Ids : recent' = PL!Used(recent, t) BY <1>2, UseStep
<1>3. CASE \E c \in Nat \ {0} : recent' = PL!Resized(recent, c) BY <1>3, ResizeStep
<1>4. QED BY <1>1, <1>2, <1>3, ListMoves

(* In every reachable state the pointers run along one sequence in both      *)
(* directions, and there is none beside them.                              *)
LEMMA ListAlways == Spec => [](TypeOK /\ ListInv)
<1>1. Init => ListInv BY ListInitial
<1>2. TypeOK /\ ListInv /\ [Next]_vars => ListInv' BY ListStep
<1>3. QED BY <1>1, <1>2, KhensuTypes, PTL DEF Spec

(* The doubly linked list of update_lru, _evict_lru_tail and                *)
(* change_lru_capacity is the recency list: whatever the order of the calls, *)
(* a walk from the head shows the tokens last used first, each once, no      *)
(* more than the capacity, and forgets from the end.                         *)
THEOREM ListImplementsRecencyList == Spec => ListIsRecencyList
<1>1. Init => RL!Init BY ListInitial
<1>2. TypeOK /\ ListInv /\ [Next]_vars => [RL!Next]_(RL!vars) BY ListStep
<1>3. QED BY <1>1, <1>2, ListAlways, PTL DEF Spec, ListIsRecencyList, RL!Spec

=============================================================================
