------------------------------ MODULE Exchange ------------------------------
(***************************************************************************)
(* What x/dex promises its users, without books, matching or locks. An     *)
(* offer is an amount of one denom offered for another at a fixed rate.    *)
(* Offers are withdrawn, or taken in deals. A deal happens in one step:    *)
(* every offer it touches gives what it gives at exactly its rate, what    *)
(* the owners give the taker gets and the other way round, nobody else is  *)
(* involved, and what is left of the taker's order may become an offer.    *)
(***************************************************************************)
EXTENDS MatchingEngine, SeqSum

CONSTANTS
    Accounts, Denoms,
    OfferCount,  \* offers are numbered from 1 to OfferCount
    NoOffer

VARIABLES
    wealth,  \* what an account has of a denom
    offers   \* number -> [owner, sells, buys, rate, left]

OfferIDs == 1 .. OfferCount

ExchangeInit == offers = [s \in OfferIDs |-> NoOffer]

Withdraw ==
    LET before == offers
        after  == offers'
    IN  /\ \A s \in OfferIDs : after[s] \in {before[s], NoOffer}
        /\ wealth' = wealth

\* What the owner of an offer gets for giving n.
Payment(offer, n) == (n * offer.rate.num) \div offer.rate.den

\* What an offer may have given, as whole payments: what it lost, or, if it was closed, a part.
Given(before, after) ==
    {n \in 0 .. before.left :
        /\ (n * before.rate.num) % before.rate.den = 0
        /\ after # NoOffer => after = [before EXCEPT !.left = @ - n]}

\* The balances after the taker got gives[s] from each offer s and paid for it.
Dealt(w, deal, gives, taker) ==
    LET got  == SumTo(gives, OfferCount)
        paid == SumTo([s \in OfferIDs |-> IF gives[s] = 0 THEN 0 ELSE Payment(deal.from[s], gives[s])],
                      OfferCount)
        gave(a) == SumTo([s \in OfferIDs |-> IF deal.from[s].owner = a THEN gives[s] ELSE 0],
                         OfferCount)
        earned(a) == SumTo([s \in OfferIDs |->
                               IF gives[s] > 0 /\ deal.from[s].owner = a
                               THEN Payment(deal.from[s], gives[s]) ELSE 0], OfferCount)
    IN  [a \in Accounts |-> [d \in Denoms |->
            w[a][d] + (IF d = deal.buys THEN (IF a = taker THEN got ELSE 0) - gave(a) ELSE 0)
                    + (IF d = deal.sells THEN earned(a) - (IF a = taker THEN paid ELSE 0) ELSE 0)]]

Trade ==
    LET before  == offers
        after   == offers'
        touched == {s \in OfferIDs : before[s] # NoOffer /\ after[s] # before[s]}
        added   == {s \in OfferIDs : before[s] = NoOffer /\ after[s] # NoOffer}
    IN  \E taker \in Accounts, sells, buys \in Denoms :
            /\ \A s \in added : /\ after[s].owner = taker
                                 /\ after[s].sells = sells /\ after[s].buys = buys
            /\ \A s \in touched : before[s].sells = buys /\ before[s].buys = sells
            /\ \E given \in [touched -> UNION {Given(before[s], after[s]) : s \in touched}] :
                  /\ \A s \in touched : given[s] \in Given(before[s], after[s])
                  /\ wealth' = Dealt(wealth, [from |-> before, sells |-> sells, buys |-> buys],
                                     [s \in OfferIDs |-> IF s \in touched THEN given[s] ELSE 0],
                                     taker)

ExchangeNext == Withdraw \/ Trade

ExchangeSpec == ExchangeInit /\ [][ExchangeNext]_<<wealth, offers>>
=============================================================================
