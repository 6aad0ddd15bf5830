------------------------------- MODULE Ticks -------------------------------
(***************************************************************************)
(* Quantity steps and price ticks (x/dex/keeper/quantity_step.go,          *)
(* price_tick.go) over the decimal logarithm of pkg/math/big.              *)
(***************************************************************************)
EXTENDS MatchingEngine

\* LegacyDec values are integers over 10^LegacyPrecision.
CONSTANT LegacyPrecision

ASSUME PrecisionAssumption == LegacyPrecision \in Nat

TenToThePower[n \in Nat] == IF n = 0 THEN 1 ELSE 10 * TenToThePower[n - 1]

RatTenToThePower(e) ==
    IF e >= 0 THEN Rat(TenToThePower[e], 1) ELSE Rat(1, TenToThePower[-e])

\* The length of the decimal representation.
Digits[n \in Nat] == IF n < 10 THEN 1 ELSE 1 + Digits[n \div 10]

GCD[a \in Nat, b \in Nat] == IF b = 0 THEN a ELSE GCD[b, a % b]

\* big.Rat keeps its value in lowest terms.
Reduced(n, d) == Rat(n \div GCD[n, d], d \div GCD[n, d])

\* The difference of the lengths of numerator and denominator, corrected upwards.
RatLog10RoundUp(val) ==
    LET e == Digits[val.num] - Digits[val.den]
    IN  IF RatLTE(val, RatTenToThePower(e)) THEN e ELSE e + 1

ComputeQuantityStep(baseURA, stepExponent) ==
    LET e == stepExponent + RatLog10RoundUp(Rat(baseURA, 1))
    IN  TenToThePower[IF e < 0 THEN 0 ELSE e]

IsQuantityStepValid(quantity, baseURA, stepExponent) ==
    quantity % ComputeQuantityStep(baseURA, stepExponent - LegacyPrecision) = 0

ComputePriceTick(baseURA, quoteURA, tickExponent) ==
    RatTenToThePower(tickExponent + RatLog10RoundUp(Reduced(quoteURA, baseURA)))

\* RatQuoWithIntRemainder leaves no remainder.
IsPriceTickValid(price, tick) == (price.num * tick.den) % (price.den * tick.num) = 0
=============================================================================
