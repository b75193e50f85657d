----------------------------- MODULE BondingCurve -----------------------------
(***************************************************************************)
(* The integer arithmetic of a Khensu token's bonding curve                *)
(* (blueprints/khensu-manager): what the HTR of a purchase buys, what sold *)
(* tokens return, and how much HTR the curve holds when n tokens are out.  *)
(* Amount is a non-negative integer of unbounded size and // is \div.      *)
(* BASIS_POINTS is a constant, so that TLC can use a small one.            *)
(*                                                                         *)
(* A curve is a record of its parameters and of the constants a, b and c   *)
(* computed from them.  The code returns 0 where a denominator is 0; the   *)
(* denominators are positive while 0..supply tokens are out (SlopePositive *)
(* in KhensuProofs), so that case is left out.                             *)
(***************************************************************************)
EXTENDS Integers

CONSTANT BASIS_POINTS   \* 10000

ASSUME BondingCurveAssumption == BASIS_POINTS \in Nat \ {0}

FEE_TOKEN_VALUE == 1

CeilDiv(n, d) == (n + d - 1) \div d

-----------------------------------------------------------------------------
(* The parameters.                                                         *)

\* target_market_cap, total_supply, graduation_fee; each positive, and c too.
ValidParameters(cap, supply, graduation) ==
  /\ cap > 0 /\ supply > 0
  /\ graduation >= FEE_TOKEN_VALUE
  /\ 5 * (3 * cap - 5 * graduation) > 0

CurveOf(cap, supply, graduation) ==
  [cap |-> cap, supply |-> supply, graduation |-> graduation,
   a |-> 16 * supply * cap,
   b |-> (cap + 5 * graduation) * (cap + 5 * graduation),
   c |-> 5 * (3 * cap - 5 * graduation)]

\* What stays in the curve for the pool, and with it what is for sale.
Unsold(k) == k.supply \div 5
Liquidity(k) == k.cap \div 5

-----------------------------------------------------------------------------
(* Prices, where n tokens are out.                                         *)

\* Half the denominator of all of them.
Slope(k, n) == k.a - k.c * n

\* _calculate_tokens_out
TokensOut(k, n, htr) ==
  (Slope(k, n) * Slope(k, n) * htr) \div (k.a * k.b + htr * k.c * Slope(k, n))

\* Mutant: rounded down.
HtrNeededDown(k, n, tokens) ==
  (tokens * k.a * k.b) \div (Slope(k, n) * Slope(k, n + tokens))

\* _calculate_htr_needed
HtrNeeded(k, n, tokens) ==
  CeilDiv(tokens * k.a * k.b, Slope(k, n) * Slope(k, n + tokens))

\* _calculate_htr_out
HtrOut(k, n, tokens) == (tokens * k.a * k.b) \div (Slope(k, n) * Slope(k, n - tokens))

\* The most the curve needs, rounded up: _correct_curve_deviation's bound.
HtrOnCurve(k, n) == CeilDiv(n * k.b, Slope(k, n))

\* _calculate_market_cap of a token on its curve
MarketCap(k, n) == (k.a * k.b * k.supply) \div (Slope(k, n) * Slope(k, n))

-----------------------------------------------------------------------------
(* Fees.                                                                   *)

\* _calculate_fee, of a net amount
FeeOn(amount, rate) == CeilDiv(amount * rate, BASIS_POINTS)

\* _extract_fee, of an amount that includes it
FeeIn(amount, rate) ==
  (amount * rate + rate + BASIS_POINTS - 1) \div (rate + BASIS_POINTS)

=============================================================================
