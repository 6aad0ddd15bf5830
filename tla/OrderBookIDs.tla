---------------------------- MODULE OrderBookIDs ----------------------------
(***************************************************************************)
(* The IDs of order books (x/dex/keeper/keeper.go, keeper_store.go,        *)
(* genesis.go): a pair of denoms has two books, one per direction, whose   *)
(* IDs are generated together when the first order of the pair is placed.  *)
(* Only one of the two is looked up afterwards.                            *)
(***************************************************************************)
EXTENDS Integers, FiniteSetsExt

CONSTANTS
    TradedDenoms,  \* the denoms orders may name
    DenomRank      \* the place of a denom in the order of strings

ASSUME RankAssumption ==
    /\ DenomRank \in [TradedDenoms -> Int]
    /\ \A c, d \in TradedDenoms : DenomRank[c] = DenomRank[d] => c = d

VARIABLES
    orderBookIDs,      \* the ID of the book <<base, quote>>, 0 when there is none
    orderBookSequence  \* the last generated ID

bookIDVars == <<orderBookIDs, orderBookSequence>>

Pairs == {p \in TradedDenoms \X TradedDenoms : p[1] # p[2]}

Inverted(p) == <<p[2], p[1]>>

BookIDsInit ==
    /\ orderBookIDs = [p \in Pairs |-> 0]
    /\ orderBookSequence = 0

\* The direction the IDs of a pair are generated and looked up under.
Ordered(p) == IF DenomRank[p[1]] < DenomRank[p[2]] THEN p ELSE Inverted(p)

\* Mutant: the sequence is saved with the first of the two IDs.
genOrderBookIDsAfterOne(p) ==
    /\ orderBookIDs' = [q \in Pairs |-> IF q = p THEN orderBookSequence + 1
                                        ELSE IF q = Inverted(p) THEN orderBookSequence + 2
                                        ELSE orderBookIDs[q]]
    /\ orderBookSequence' = orderBookSequence + 1

\* genOrderBookIDsFromDenoms: the two next IDs.
genOrderBookIDsFromDenoms(p) ==
    /\ orderBookIDs' = [q \in Pairs |-> IF q = p THEN orderBookSequence + 1
                                        ELSE IF q = Inverted(p) THEN orderBookSequence + 2
                                        ELSE orderBookIDs[q]]
    /\ orderBookSequence' = orderBookSequence + 2

getOrGenOrderBookIDs(p) ==
    IF orderBookIDs[Ordered(p)] = 0 THEN genOrderBookIDsFromDenoms(Ordered(p))
    ELSE UNCHANGED bookIDVars

\* What getOrGenOrderBookIDs returns for p once the pair has IDs: the ID of the second direction
\* is not read but computed.
ReturnedID(p) ==
    IF Ordered(p) = p THEN orderBookIDs[p] ELSE orderBookIDs[Ordered(p)] + 1

\* The books there are.
OrderBooks == {p \in Pairs : orderBookIDs[p] # 0}

\* Export and import: every book keeps its ID and the sequence restarts at the highest of them.
ImportOrderBooks ==
    /\ orderBookIDs' = orderBookIDs
    /\ orderBookSequence' = Max({0} \cup {orderBookIDs[p] : p \in OrderBooks})

BookIDsNext == ImportOrderBooks \/ \E p \in Pairs : getOrGenOrderBookIDs(p)

BookIDsSpec == BookIDsInit /\ [][BookIDsNext]_bookIDVars

-----------------------------------------------------------------------------
\* A book is found under its own ID from both directions: IDs are never shared, the ID computed for
\* the second direction is the stored one, and IDs yet to be generated are free, also after an
\* export and import. Records are stored under the ID alone, so two books with one ID would match
\* orders of different denoms.
BookIDsAreSound ==
    /\ \A p, q \in OrderBooks : orderBookIDs[p] = orderBookIDs[q] => p = q
    /\ \A p \in OrderBooks : /\ Inverted(p) \in OrderBooks
                             /\ ReturnedID(p) = orderBookIDs[p]
                             /\ orderBookIDs[p] \in 1 .. orderBookSequence
=============================================================================
