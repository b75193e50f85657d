------------------------------ MODULE DozerMath ------------------------------
(***************************************************************************)
(* The integer arithmetic of the Dozer pools (blueprints/dozer-pool-       *)
(* manager): quotes, fees, roundings and the checks on them.  Amount is a  *)
(* non-negative integer of unbounded size and // is \div.  The literals of *)
(* the code are constants, so that TLC, whose integers have 32 bits, can   *)
(* use smaller ones; the tolerances keep their values.                     *)
(***************************************************************************)
EXTENDS Integers

CONSTANTS
  FeeDenominator,     \* 1000
  Precision,          \* 10^20, liquidity units per unit of sqrt(K)
  MinimumLiquidity,   \* 10^3, units of them burnt at creation
  PricePrecision      \* 10^8

ASSUME DozerMathAssumption ==
  /\ FeeDenominator \in Nat \ {0} /\ Precision \in Nat \ {0}
  /\ MinimumLiquidity \in Nat \ {0} /\ PricePrecision \in Nat \ {0}

MaxPriceImpact == 500   \* basis points

CeilDiv(n, d) == (n + d - 1) \div d

Quote(amount, reserve, other) == (amount * other) \div reserve

\* Newton's method from a guess above the root.
Newton(n, guess) ==
  LET root[z \in Nat \ {0}] ==
        LET x == (n \div z + z) \div 2 IN IF x >= z THEN z ELSE root[x]
  IN  root[guess]

\* Above 2^128 the code guesses by the number of bits; any guess above the root
\* finds the same root.  Its limit of iterations is not reached.
Isqrt(n) == IF n = 0 THEN 0 ELSE IF n <= 3 THEN 1 ELSE Newton(n, n \div 2 + 1)

-----------------------------------------------------------------------------
(* Swaps.                                                                  *)

AmountOut(in, reserveIn, reserveOut, fee) ==
  LET net == in * (FeeDenominator - fee)
  IN  (reserveOut * net) \div (reserveIn * FeeDenominator + net)

AmountIn(out, reserveIn, reserveOut, fee) ==
  CeilDiv(reserveIn * out * FeeDenominator, (reserveOut - out) * (FeeDenominator - fee))

SwapFee(in, fee) == CeilDiv(in * fee, FeeDenominator)

\* The owner's part of a fee, in percent; a part below 1 is 1.
ProtocolFee(feeAmount, percent) ==
  LET product == feeAmount * percent
  IN  IF product > 0 /\ product < 100 THEN 1 ELSE product \div 100

\* Liquidity minted for a protocol fee that entered on the side of reserve.
LiquidityIncrease(protocolFee, reserve, other) ==
  (Isqrt((reserve + protocolFee) * other) - Isqrt(reserve * other)) * Precision

PriceImpact(in, out, reserveIn, reserveOut) ==
  LET paid == out * reserveIn
      fair == in * reserveOut
  IN  IF in = 0 \/ out = 0 \/ paid >= fair THEN 0 ELSE ((fair - paid) * 10000) \div fair

KNotDecreased(before, after) == after >= before

-----------------------------------------------------------------------------
(* Liquidity.                                                              *)

\* What to swap of amount so that the rest and the output enter in proportion.
OptimalSwapAmount(amount, reserveIn, fee) ==
  LET net  == FeeDenominator - fee
      root == Isqrt(reserveIn * (reserveIn * FeeDenominator * FeeDenominator
                                 + amount * FeeDenominator * net))
      rest == root - reserveIn * FeeDenominator
  IN  IF net <= 0 \/ amount = 0 \/ rest <= 0 THEN 0 ELSE rest \div net

\* diff * 1000000 <= max * ppm with ppm 5000, 2000 or 100, both sides divided.
PriceRatioKept(a, b, aAfter, bAfter) ==
  LET before  == a * bAfter
      after   == aAfter * b
      larger  == IF before >= after THEN before ELSE after
      smaller == IF before >= after THEN after ELSE before
      least   == IF aAfter <= bAfter THEN aAfter ELSE bAfter
      inverse == IF least < 1000 THEN 200 ELSE IF least < 10000 THEN 500 ELSE 10000
  IN  (larger - smaller) * inverse <= larger

-----------------------------------------------------------------------------
(* The price oracle.                                                       *)

\* The price of the token with this reserve, in the other one.
SpotPrice(reserve, other) == (other * PricePrecision) \div reserve

WindowSum(sum, price, elapsed, window) ==
  LET remaining == IF elapsed < window THEN window - elapsed ELSE 0
      weight    == IF elapsed < window THEN elapsed ELSE window
  IN  price * weight + (sum * remaining) \div window

=============================================================================
