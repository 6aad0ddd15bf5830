------------------------------ MODULE BookSide ------------------------------
(***************************************************************************)
(* What x/dex promises of reading one side of an order book: the orders    *)
(* come best price first, orders of one price come in the order they were  *)
(* placed, and the reader is told that there are no more only when there   *)
(* are no more.                                                            *)
(***************************************************************************)
EXTENDS Ticks

CONSTANT NoRecord

VARIABLES
    side,   \* the side that is read
    left,   \* the records not yet given
    given,  \* the record last given
    ended   \* whether the reader was told that there are no more

\* The rational a price stands for.
PriceRat(price) ==
    IF price.exp > 0 THEN Rat(price.num * TenToThePower[price.exp], 1)
    ELSE Reduced(price.num, TenToThePower[-price.exp])

Cheaper(p, q) == RatLTE(PriceRat(p), PriceRat(q)) /\ ~ RatEQ(PriceRat(p), PriceRat(q))

\* A seller is better the less it asks, a buyer the more it bids.
Before(s, x, y) ==
    \/ IF s = "sell" THEN Cheaper(x.price, y.price) ELSE Cheaper(y.price, x.price)
    \/ RatEQ(PriceRat(x.price), PriceRat(y.price)) /\ x.sequence < y.sequence

SideInit == given = NoRecord /\ ~ ended

Give(r) ==
    /\ ~ ended
    /\ r \in left
    /\ \A q \in left \ {r} : Before(side, r, q)
    /\ left' = left \ {r}
    /\ given' = r
    /\ UNCHANGED <<side, ended>>

End ==
    /\ left = {}
    /\ ended' = TRUE
    /\ given' = NoRecord
    /\ UNCHANGED <<side, left>>

SideNext == End \/ \E r \in left : Give(r)

SideSpec == SideInit /\ [][SideNext]_<<side, left, given, ended>>
=============================================================================
