----------------------------- MODULE OrderBook -----------------------------
(***************************************************************************)
(* The records of one side of an order book as the store keeps them        *)
(* (x/dex/types/price.go and keys.go, pkg/store/ordered_bytes.go) and the  *)
(* iterator that reads them best first (x/dex/keeper/                      *)
(* keeper_ob_iterator.go).                                                 *)
(*                                                                         *)
(* A price is [num, exp], the number num * 10^exp with no trailing zero in *)
(* num. A key is <<exponent byte, num, sequence>>: the code's fixed-width  *)
(* big-endian bytes compare as these numbers compare, from the left.       *)
(***************************************************************************)
EXTENDS Ticks, SequencesExt

CONSTANTS
    MaxNumLen, MinExp, MaxExp,
    ExpRange,      \* half the range of the exponent's integer type, 128 for int8
    PriceNums,     \* the num parts tried
    Sequences,     \* the order sequences tried
    NoPrice, NoRecord

ASSUME PriceAssumption ==
    /\ MaxNumLen \in Nat \ {0} /\ ExpRange \in Nat /\ MinExp \in Int /\ MaxExp \in Int
    /\ MinExp - MaxNumLen >= - ExpRange /\ MaxExp < ExpRange
    /\ Sequences \subseteq Nat
    /\ PriceNums \subseteq Nat \ {0}
    /\ \A n \in PriceNums : n % 10 # 0 /\ Digits[n] <= MaxNumLen

VARIABLES
    readSide,  \* the side the iterator was opened on
    stored,    \* the records of that side: order sequence -> price
    unread,    \* the keys the store's iterator has not passed yet, in its order
    pool,      \* records loaded but not returned yet
    returned,  \* the records returned so far
    ended      \* the last call found nothing

vars == <<readSide, stored, unread, pool, returned, ended>>

-----------------------------------------------------------------------------
(* Prices and keys.                                                          *)

Prices == [num : PriceNums, exp : MinExp .. MaxExp]

\* Arithmetic on the exponent wraps in its type.
Int8(x) == ((x + ExpRange) % (2 * ExpRange)) - ExpRange

\* Zeros are appended until the num has MaxNumLen digits.
normalizeForOrderedBytes(price) ==
    LET offset == MaxNumLen - Digits[price.num]
    IN  [num |-> price.num * TenToThePower[offset], exp |-> Int8(price.exp - Int8(offset))]

\* Trailing zeros are trimmed again.
denormalizeForOrderedBytes(price) ==
    LET offset == Max({z \in 0 .. MaxNumLen - 1 : price.num % TenToThePower[z] = 0})
    IN  [num |-> price.num \div TenToThePower[offset], exp |-> Int8(price.exp + Int8(offset))]

CreateOrderBookSideRecordKey(price, sequence) ==
    LET p == normalizeForOrderedBytes(price)
    IN  <<(p.exp + ExpRange) % (2 * ExpRange), p.num, sequence>>

DecodeOrderBookSideRecordKey(key) ==
    [price |-> denormalizeForOrderedBytes([num |-> key[2], exp |-> Int8(key[1] - ExpRange)]),
     sequence |-> key[3]]

\* The order of the store: the first byte that differs decides.
KeyLess(j, k) ==
    \/ j[1] < k[1]
    \/ j[1] = k[1] /\ j[2] < k[2]
    \/ j[1] = k[1] /\ j[2] = k[2] /\ j[3] < k[3]

KeyGreater(j, k) == KeyLess(k, j)

SamePrice(p, q) ==
    LET R(price) == IF price.exp > 0 THEN Rat(price.num * TenToThePower[price.exp], 1)
                    ELSE Rat(price.num, TenToThePower[-price.exp])
    IN  RatEQ(R(p), R(q))

-----------------------------------------------------------------------------
(* The iterator.                                                             *)

Records(f) == {[price |-> f[s], sequence |-> s] : s \in {t \in Sequences : f[t] # NoPrice}}

Keys(f) == {CreateOrderBookSideRecordKey(r.price, r.sequence) : r \in Records(f)}

\* Buyers are read from the tail.
NewOrderBookSideIterator ==
    /\ unread = IF readSide = "buy" THEN SetToSortSeq(Keys(stored), KeyGreater)
                ELSE SetToSortSeq(Keys(stored), KeyLess)
    /\ pool = <<>>
    /\ returned = <<>>
    /\ ended = FALSE

IteratorInit ==
    /\ readSide \in Sides
    /\ stored \in [Sequences -> Prices \cup {NoPrice}]
    /\ NewOrderBookSideIterator

\* The first n unread records, decoded, behind those of the pool.
Loaded(n) == pool \o [i \in 1 .. n |-> DecodeOrderBookSideRecordKey(unread[i])]

\* At least two records, until the last price differs from the one before it.
LoadStops(q) == Len(q) >= 2 /\ ~ SamePrice(q[Len(q) - 1].price, q[Len(q)].price)

LoadCount ==
    LET stops == {n \in 1 .. Len(unread) : LoadStops(Loaded(n))}
    IN  IF Len(pool) > 1 THEN 0 ELSE IF stops = {} THEN Len(unread) ELSE Min(stops)

\* Mutant: the last record is always taken.
TailIndexLast(q) == Len(q)

\* The last record when it has the price of the one before it, otherwise that one.
TailIndex(q) ==
    IF Len(q) = 1 \/ SamePrice(q[Len(q)].price, q[Len(q) - 1].price) THEN Len(q) ELSE Len(q) - 1

nextFromTail ==
    /\ readSide = "buy"
    /\ LET q == Loaded(LoadCount)
       IN  /\ q # <<>>
           /\ pool' = RemoveAt(q, TailIndex(q))
           /\ returned' = Append(returned, q[TailIndex(q)])
    /\ unread' = SubSeq(unread, LoadCount + 1, Len(unread))
    /\ UNCHANGED <<readSide, stored, ended>>

nextFromHead ==
    /\ readSide = "sell"
    /\ unread # <<>>
    /\ returned' = Append(returned, DecodeOrderBookSideRecordKey(Head(unread)))
    /\ unread' = Tail(unread)
    /\ UNCHANGED <<readSide, stored, pool, ended>>

NotFound ==
    /\ unread = <<>> /\ pool = <<>>
    /\ ended' = TRUE
    /\ UNCHANGED <<readSide, stored, unread, pool, returned>>

IteratorNext == ~ ended /\ (nextFromTail \/ nextFromHead \/ NotFound)

IteratorSpec == IteratorInit /\ [][IteratorNext]_vars

-----------------------------------------------------------------------------
(* What the iterator promises.                                               *)

Promise ==
    INSTANCE BookSide WITH
        side <- readSide,
        left <- Records(stored) \ ToSet(returned),
        given <- IF returned = <<>> \/ ended THEN NoRecord ELSE Last(returned)

\* Reading a side through the keys of the store and the pool of the iterator implements reading it
\* in price-time priority: every stored order is returned once, with the price it was stored with,
\* best price first and oldest first within a price, and "not found" comes only after all of them
\* (OrderBookIterator.Next; the order the matching finder relies on).
ReadsInPriority == Promise!SideSpec
=============================================================================
