------------------------ MODULE OrderBookIDs_proofs ------------------------
(***************************************************************************)
(* BookIDsAreSound for any denoms and any number of books, exports and     *)
(* imports. The IDs of a pair are generated together, so the second one is *)
(* the first one plus one; the inductive invariant says so, and that every *)
(* ID is at most the sequence.                                             *)
(***************************************************************************)
EXTENDS OrderBookIDs, SeqSum_proofs

\* A bounded set of naturals that holds 0 has a maximum, which Max chooses.
LEMMA MaxOfBounded ==
  ASSUME NEW S \in SUBSET Nat, 0 \in S, NEW n \in Nat, \A y \in S : y <= n
  PROVE  Max(S) \in S /\ \A y \in S : y <= Max(S)
<1> DEFINE Best(x) == x \in S /\ \A y \in S : x >= y
           T == {m \in Nat : (\A y \in S : y <= m) => \E x \in S : Best(x)}
<1>1. 0 \in T
  OBVIOUS
<1>2. ASSUME NEW m \in T PROVE m + 1 \in T
  <2> SUFFICES ASSUME \A y \in S : y <= m + 1 PROVE \E x \in S : Best(x)
    OBVIOUS
  <2>1. CASE m + 1 \in S
    BY <2>1
  <2>2. CASE m + 1 \notin S
    <3>1. \A y \in S : y <= m
      BY <2>2
    <3> QED BY <3>1, <1>2
  <2> QED BY <2>1, <2>2
<1>3. T = Nat
  BY <1>1, <1>2, SetInduction
<1>4. \E x \in S : \A y \in S : x >= y
  BY <1>3
<1> QED BY <1>4 DEF Max

-----------------------------------------------------------------------------

\* What holds between the IDs of all books.
IDInv ==
    /\ orderBookIDs \in [Pairs -> Nat]
    /\ orderBookSequence \in Nat
    /\ \A p \in Pairs : orderBookIDs[p] <= orderBookSequence
    /\ \A p \in OrderBooks : Inverted(p) \in OrderBooks
    /\ \A p \in OrderBooks : Ordered(p) = p => orderBookIDs[Inverted(p)] = orderBookIDs[p] + 1
    /\ \A p, q \in OrderBooks : orderBookIDs[p] = orderBookIDs[q] => p = q

\* A pair has two directions, and one of them is ordered.
LEMMA Directions ==
  ASSUME NEW p \in Pairs
  PROVE  /\ Inverted(p) \in Pairs /\ Inverted(p) # p /\ Inverted(Inverted(p)) = p
         /\ Ordered(p) \in {p, Inverted(p)}
         /\ Ordered(Ordered(p)) = Ordered(p)
         /\ Ordered(p) # p => Ordered(Inverted(p)) = Inverted(p)
         /\ Ordered(p) = p => Ordered(Inverted(p)) # Inverted(p)
<1>1. PICK c \in TradedDenoms, d \in TradedDenoms : p = <<c, d>> /\ c # d
  BY DEF Pairs
<1>2. DenomRank[c] \in Int /\ DenomRank[d] \in Int /\ DenomRank[c] # DenomRank[d]
  BY <1>1, RankAssumption
<1>3. Inverted(p) = <<d, c>> /\ Inverted(Inverted(p)) = <<c, d>>
  BY <1>1 DEF Inverted
<1> QED BY <1>1, <1>2, <1>3 DEF Ordered, Pairs

\* Generating the IDs of a pair that has none keeps them apart.
LEMMA GenKeepsInv ==
  ASSUME IDInv, NEW p \in Pairs, Ordered(p) = p, orderBookIDs[p] = 0,
         genOrderBookIDsFromDenoms(p)
  PROVE  IDInv'
<1> DEFINE n == orderBookSequence
<1>0. /\ Inverted(p) \in Pairs /\ Inverted(p) # p /\ Inverted(Inverted(p)) = p
      /\ n \in Nat /\ orderBookIDs \in [Pairs -> Nat]
  BY Directions DEF IDInv
<1>1. orderBookIDs[Inverted(p)] = 0
  BY <1>0 DEF IDInv, OrderBooks
<1>2. /\ orderBookIDs'[p] = n + 1
      /\ orderBookIDs'[Inverted(p)] = n + 2
      /\ \A q \in Pairs : q # p /\ q # Inverted(p) => orderBookIDs'[q] = orderBookIDs[q]
      /\ orderBookSequence' = n + 2
  BY <1>0 DEF genOrderBookIDsFromDenoms
<1>3. orderBookIDs' \in [Pairs -> Nat] /\ orderBookSequence' \in Nat
  BY <1>0 DEF genOrderBookIDsFromDenoms
<1>4. \A q \in Pairs : orderBookIDs'[q] <= orderBookSequence'
  BY <1>0, <1>2 DEF IDInv
<1>5. OrderBooks' = OrderBooks \cup {p, Inverted(p)}
  BY <1>0, <1>1, <1>2 DEF OrderBooks
<1>6. \A q \in OrderBooks : q \in Pairs /\ q # p /\ q # Inverted(p) /\ orderBookIDs[q] <= n
  BY <1>1 DEF OrderBooks, IDInv
<1>7. \A q \in OrderBooks' : Inverted(q) \in OrderBooks'
  BY <1>0, <1>5 DEF IDInv
<1>8. ASSUME NEW q \in OrderBooks', Ordered(q) = q
      PROVE  orderBookIDs'[Inverted(q)] = orderBookIDs'[q] + 1
  <2>1. CASE q \in OrderBooks
    <3>1. Inverted(q) \in OrderBooks
      BY <2>1 DEF IDInv
    <3> QED BY <2>1, <3>1, <1>2, <1>6, <1>8 DEF IDInv
  <2>2. CASE q = p
    BY <2>2, <1>0, <1>2
  <2>3. CASE q = Inverted(p)
    BY <2>3, <1>8, Directions
  <2> QED BY <2>1, <2>2, <2>3, <1>5
<1>9. ASSUME NEW q \in OrderBooks', NEW r \in OrderBooks', orderBookIDs'[q] = orderBookIDs'[r]
      PROVE  q = r
  <2>1. CASE q \in OrderBooks /\ r \in OrderBooks
    BY <2>1, <1>2, <1>6, <1>9 DEF IDInv
  <2>2. \A s \in OrderBooks : orderBookIDs'[s] \in Nat /\ orderBookIDs'[s] <= n
    BY <1>2, <1>3, <1>6
  <2> QED BY <2>1, <2>2, <1>0, <1>2, <1>5, <1>9
<1>10. (\A q \in OrderBooks : Ordered(q) = q => orderBookIDs[Inverted(q)] = orderBookIDs[q] + 1)'
  BY <1>8 DEF Ordered, Inverted
<1> QED BY <1>3, <1>4, <1>7, <1>9, <1>10 DEF IDInv, Inverted

\* An import keeps the IDs and restarts the sequence above all of them.
LEMMA ImportKeepsInv ==
  ASSUME IDInv, ImportOrderBooks
  PROVE  IDInv'
<1> DEFINE S == {0} \cup {orderBookIDs[p] : p \in OrderBooks}
<1>1. S \in SUBSET Nat /\ 0 \in S /\ orderBookSequence \in Nat /\ \A y \in S : y <= orderBookSequence
  BY DEF IDInv, OrderBooks
<1>2. Max(S) \in S /\ \A y \in S : y <= Max(S)
  BY <1>1, MaxOfBounded
<1>3. orderBookIDs' = orderBookIDs /\ orderBookSequence' = Max(S)
  BY DEF ImportOrderBooks
<1>4. orderBookSequence' \in Nat
  BY <1>1, <1>2, <1>3
<1>5. \A p \in Pairs : orderBookIDs'[p] <= orderBookSequence'
  BY <1>2, <1>3 DEF OrderBooks, IDInv
<1> QED BY <1>3, <1>4, <1>5 DEF IDInv, OrderBooks, Ordered, Inverted

\* The invariant gives the property: the computed ID of the second direction is the stored one.
LEMMA IDInvIsSound == IDInv => BookIDsAreSound
<1> SUFFICES ASSUME IDInv, NEW p \in OrderBooks
             PROVE  /\ ReturnedID(p) = orderBookIDs[p]
                    /\ orderBookIDs[p] \in 1 .. orderBookSequence
  BY DEF IDInv, BookIDsAreSound
<1>1. p \in Pairs /\ orderBookIDs[p] \in Nat \ {0} /\ orderBookIDs[p] <= orderBookSequence
  BY DEF OrderBooks, IDInv
<1>2. CASE Ordered(p) = p
  BY <1>1, <1>2 DEF ReturnedID, IDInv
<1>3. CASE Ordered(p) # p
  <2>1. Ordered(p) = Inverted(p) /\ Ordered(Inverted(p)) = Inverted(p) /\ Inverted(Inverted(p)) = p
    BY <1>1, <1>3, Directions
  <2>2. Inverted(p) \in OrderBooks
    BY DEF IDInv
  <2> QED BY <1>1, <1>3, <2>1, <2>2 DEF ReturnedID, IDInv
<1> QED BY <1>2, <1>3

\* No two books share an ID and both directions of a pair find their own, whatever orders are placed
\* and however often the state is exported and imported (getOrGenOrderBookIDs, SaveOrderBookIDWithData).
THEOREM BookIDsStaySound == BookIDsSpec => []BookIDsAreSound
<1>1. BookIDsInit => IDInv
  BY DEF BookIDsInit, IDInv, OrderBooks
<1>2. ASSUME IDInv, [BookIDsNext]_bookIDVars PROVE IDInv'
  <2>1. CASE ImportOrderBooks
    BY <2>1, <1>2, ImportKeepsInv
  <2>2. ASSUME NEW p \in Pairs, getOrGenOrderBookIDs(p) PROVE IDInv'
    <3>1. CASE orderBookIDs[Ordered(p)] = 0
      <4>1. Ordered(p) \in Pairs /\ Ordered(Ordered(p)) = Ordered(p)
        BY Directions
      <4>2. genOrderBookIDsFromDenoms(Ordered(p))
        BY <2>2, <3>1 DEF getOrGenOrderBookIDs
      <4> QED BY <1>2, <3>1, <4>1, <4>2, GenKeepsInv
    <3>2. CASE orderBookIDs[Ordered(p)] # 0
      BY <1>2, <2>2, <3>2 DEF getOrGenOrderBookIDs, bookIDVars, IDInv, OrderBooks, Ordered, Inverted
    <3> QED BY <3>1, <3>2
  <2>3. CASE UNCHANGED bookIDVars
    BY <1>2, <2>3 DEF bookIDVars, IDInv, OrderBooks, Ordered, Inverted
  <2> QED BY <1>2, <2>1, <2>2, <2>3 DEF BookIDsNext
<1> QED BY <1>1, <1>2, IDInvIsSound, PTL DEF BookIDsSpec
=============================================================================
