--------------------------- MODULE MatchingEngine ---------------------------
(***************************************************************************)
(* The arithmetic of x/dex: rational prices (pkg/math/big), what an order  *)
(* locks and expects (x/dex/types/order.go) and the match of one taker     *)
(* with one maker record (x/dex/matching-engine/match.go).                 *)
(*                                                                         *)
(* A rational is [num, den]; a price is one in lowest terms. The price of  *)
(* a market order is zero.                                                 *)
(***************************************************************************)
EXTENDS Integers

Rat(n, d) == [num |-> n, den |-> d]

RatLTE(x, y) == x.num * y.den <= y.num * x.den

RatEQ(x, y) == x.num * y.den = y.num * x.den

RatInv(x) == Rat(x.den, x.num)

RatMin(x, y) == IF RatLTE(y, x) THEN y ELSE x

MarketPrice == Rat(0, 1)

-----------------------------------------------------------------------------
Sides == {"buy", "sell"}

Opposite(side) == IF side = "buy" THEN "sell" ELSE "buy"

\* ceil(quantity * price)
MulCeil(quantity, price) == (quantity * price.num + price.den - 1) \div price.den

ComputeLimitOrderLockedAmount(side, quantity, price) ==
    IF side = "buy" THEN MulCeil(quantity, price) ELSE quantity

ComputeLimitOrderExpectedToReceiveAmount(side, quantity, price) ==
    IF side = "buy" THEN quantity ELSE MulCeil(quantity, price)

GetSpendDenom(o) == IF o.side = "buy" THEN o.quote ELSE o.base

GetReceiveDenom(o) == IF o.side = "buy" THEN o.base ELSE o.quote

-----------------------------------------------------------------------------
\* Mutant: the units round up.
ExecutionUnitsRoundedUp(price, quantity) == (quantity + price.den - 1) \div price.den

\* How often the price's denominator fits: executed quantities are that many denominators of
\* base and numerators of quote, so that both are integers at exactly the price.
ExecutionUnits(price, quantity) == quantity \div price.den

IsOrderRecordExecutableAsMaker(rec) == ExecutionUnits(rec.price, rec.remBase) > 0

\* A record as the engine sees it. A maker of the inverted book trades the same coins under the
\* inverse price, with base and quote exchanged.
NewMatchingOBRecord(rec, inverted) ==
    IF inverted
    THEN [side |-> Opposite(rec.side), price |-> RatInv(rec.price),
          base |-> Rat(rec.remBase * rec.price.num, rec.price.den), spend |-> rec.remSpend]
    ELSE [side |-> rec.side, price |-> rec.price, base |-> Rat(rec.remBase, 1),
          spend |-> rec.remSpend]

IsLimit(r) == r.price # MarketPrice

MaxBaseQuantityForPrice(r, price) ==
    IF IsLimit(r) THEN r.base
    ELSE IF r.side = "sell" THEN RatMin(r.base, Rat(r.spend, 1))
    ELSE RatMin(r.base, Rat(r.spend * price.den, price.num))

\* The trade of a taker with a maker at the maker's price, and which of the two it closes. The
\* quantities are compared as rationals; only the executed one is rounded.
Match(taker, maker) ==
    LET takerMax == MaxBaseQuantityForPrice(taker, maker.price)
        makerMax == MaxBaseQuantityForPrice(maker, maker.price)
        max      == IF RatLTE(takerMax, makerMax) THEN takerMax ELSE makerMax
        units    == ExecutionUnits(maker.price, max.num \div max.den)
        base     == units * maker.price.den
        quote    == units * maker.price.num
    IN  [base          |-> base,
         quote         |-> quote,
         takerSpends   |-> IF taker.side = "sell" THEN base ELSE quote,
         takerReceives |-> IF taker.side = "sell" THEN quote ELSE base,
         closeTaker    |-> RatLTE(takerMax, makerMax),
         closeMaker    |-> RatLTE(makerMax, takerMax)]
=============================================================================
