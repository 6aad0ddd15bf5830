-------------------------------- MODULE DEX --------------------------------
(***************************************************************************)
(* The exchange: x/dex/keeper on top of the token ledger (AssetFT) and the *)
(* delay keeper (Delay). A record of the order book, the data of its       *)
(* order, the ID and denom indexes, the order counters and the delayed     *)
(* good-til cancellation are separate store entries, as in the code.       *)
(*                                                                         *)
(* Placing an order is one transaction. It is modelled in steps so that    *)
(* one step matches one maker: PlaceOrder opens tx, MatchRecords adds one  *)
(* maker to the matching result, and one of ApplyMatchingResult,           *)
(* CloseUnexecuted and RejectOrder ends it. Nothing else runs meanwhile    *)
(* and only the last step writes to the store.                             *)
(*                                                                         *)
(* The pair <<base, quote>> stands for the order book ID.                  *)
(***************************************************************************)
EXTENDS AssetFT, Delay, Ticks, SeqSum

CONSTANTS
    OrderIDs,       \* IDs clients choose
    NoID,           \* no ID
    Orders,         \* the orders clients may place, without creator and ID
    MaxSequence,    \* bound on the number of orders that get a sequence
    GenesisParams,  \* module parameters at genesis
    ParamUpdates    \* parameters governance may set

Sequences == 1 .. MaxSequence

Coin == [denom : Denoms, amount : Nat]

Price == [num : Nat, den : Nat \ {0}]

GoodTil == [height : Nat, time : Nat]

\* Zero height and zero time stand for an absent setting.
NoGoodTil == [height |-> 0, time |-> 0]

Order == [type : {"limit", "market"}, base : Denoms, quote : Denoms, side : Sides, price : Price,
          quantity : Nat, timeInForce : {"GTC", "IOC", "FOK"}, goodTil : GoodTil]

Params == [defaultUnifiedRefAmount : Nat \ {0}, priceTickExponent : Int,
           quantityStepExponent : Int, maxOrdersPerDenom : Nat \ {0}, orderReserve : Coin]

\* Params.ValidateBasic
ValidParams(p) ==
    /\ p \in Params
    /\ p.priceTickExponent < 0 /\ p.quantityStepExponent < 0

ASSUME DEXAssumption ==
    /\ NoID \notin OrderIDs
    /\ Orders \subseteq Order
    /\ MaxSequence \in Nat
    /\ ValidParams(GenesisParams)

Record == [base : Denoms, quote : Denoms, side : Sides, price : Price, id : OrderIDs,
           creator : Accounts, remBase : Nat, remSpend : Nat]

NoRecord == [base |-> BondDenom, quote |-> BondDenom, side |-> "buy", price |-> MarketPrice,
             id |-> NoID, creator |-> NoAdmin, remBase |-> 0, remSpend |-> 0]

OrderData == [id : OrderIDs, base : Denoms, quote : Denoms, side : Sides, price : Price,
              quantity : Nat, goodTil : GoodTil, reserve : Coin]

NoCoin == [denom |-> BondDenom, amount |-> 0]

NoOrderData == [id |-> NoID, base |-> BondDenom, quote |-> BondDenom, side |-> "buy",
                price |-> MarketPrice, quantity |-> 0, goodTil |-> NoGoodTil, reserve |-> NoCoin]

NoOrder == [type |-> "limit", base |-> BondDenom, quote |-> BondDenom, side |-> "buy",
            price |-> MarketPrice, quantity |-> 0, timeInForce |-> "GTC", goodTil |-> NoGoodTil]

\* MatchingResult, the taker record and the DEXActions collected so far.
Transaction ==
    [active : BOOLEAN, creator : Accounts \cup {NoAdmin}, id : OrderIDs \cup {NoID},
     order : Order, remBase : Nat, remSpend : Nat, filled : BOOLEAN,
     toRemove : SUBSET Sequences, toUpdate : 0 .. MaxSequence, updated : Record \cup {NoRecord},
     spent : Nat, received : Nat,
     unlock : [Accounts -> [Denoms -> Nat]], unexpect : [Accounts -> Nat],
     sendToMaker : [Accounts -> Nat], sendToTaker : [Accounts -> Nat]]

IdleTx ==
    [active |-> FALSE, creator |-> NoAdmin, id |-> NoID, order |-> NoOrder, remBase |-> 0,
     remSpend |-> 0, filled |-> FALSE, toRemove |-> {}, toUpdate |-> 0, updated |-> NoRecord,
     spent |-> 0, received |-> 0, unlock |-> Zero, unexpect |-> [a \in Accounts |-> 0],
     sendToMaker |-> [a \in Accounts |-> 0], sendToTaker |-> [a \in Accounts |-> 0]]

VARIABLES
    records,            \* order book records by order sequence
    orderData,          \* order data by order sequence
    orderIDToSequence,  \* the sequence of an account's order ID, 0 when absent
    reservedIDs,        \* every <<account, ID>> ever used
    accountDenomOrders, \* the <<account, denom, sequence>> index
    ordersCount,        \* orders per account and denom
    orderSequence,      \* the last generated sequence
    params,
    tx                  \* the order being placed

bookVars == <<records, orderData, orderIDToSequence, accountDenomOrders, ordersCount>>
dexVars == <<bookVars, reservedIDs, orderSequence, params, tx>>
vars == <<ftVars, delayVars, dexVars>>

DEXInit ==
    /\ FTInit
    /\ DelayInit
    /\ records = [s \in Sequences |-> NoRecord]
    /\ orderData = [s \in Sequences |-> NoOrderData]
    /\ orderIDToSequence = [a \in Accounts |-> [i \in OrderIDs |-> 0]]
    /\ reservedIDs = {}
    /\ accountDenomOrders = {}
    /\ ordersCount = Zero
    /\ orderSequence = 0
    /\ params = GenesisParams
    /\ tx = IdleTx

-----------------------------------------------------------------------------
(* What a resting order holds                                              *)

HasRecord(s) == records[s] # NoRecord

DenomsOf(r) == {r.base, r.quote}

\* What the order of a record keeps locked for account a in denom d: its remaining spendable
\* balance and its reserve.
OrderLock(r, data, a, d) ==
    IF r.creator # a THEN 0
    ELSE (IF d = GetSpendDenom(r) THEN r.remSpend ELSE 0)
         + (IF d = data.reserve.denom THEN data.reserve.amount ELSE 0)

OrderExpects(r, a, d) ==
    IF r.creator = a /\ d = GetReceiveDenom(r)
    THEN ComputeLimitOrderExpectedToReceiveAmount(r.side, r.remBase, r.price) ELSE 0

CountsFor(r, a, d) == IF r.creator = a /\ d \in DenomsOf(r) THEN 1 ELSE 0

\* The sums over the orders of a set S.
LockOf(S, a, d) ==
    SumTo([s \in Sequences |-> IF s \in S THEN OrderLock(records[s], orderData[s], a, d) ELSE 0],
          MaxSequence)

ExpectedOf(S, a, d) ==
    SumTo([s \in Sequences |-> IF s \in S THEN OrderExpects(records[s], a, d) ELSE 0], MaxSequence)

CountOf(S, a, d) ==
    SumTo([s \in Sequences |-> IF s \in S THEN CountsFor(records[s], a, d) ELSE 0], MaxSequence)

-----------------------------------------------------------------------------
(* Placing an order                                                        *)

\* A contract's messages are dispatched by the contract itself.
ContextOf(a) == [purpose |-> "none", triggeredByContract |-> a \in Contracts]

\* Order.Validate
IsValidOrder(o) ==
    /\ o.base # o.quote
    /\ o.quantity > 0
    /\ o.type = "limit" => o.price.num > 0
    /\ o.type = "market" => /\ o.price = MarketPrice
                            /\ o.goodTil = NoGoodTil
                            /\ o.timeInForce = "IOC"

UnifiedRefAmount(d) ==
    IF dexSettings[d].unifiedRefAmount = 0 THEN params.defaultUnifiedRefAmount
    ELSE dexSettings[d].unifiedRefAmount

ValidateGoodTil(goodTil) ==
    /\ goodTil.height > 0 => goodTil.height > blockHeight
    /\ goodTil.time > 0 => goodTil.time > blockTime

ValidateOrder(o) ==
    /\ IsValidOrder(o)
    /\ HasSupply(o.base) /\ HasSupply(o.quote)
    /\ IsQuantityStepValid(o.quantity, UnifiedRefAmount(o.base), params.quantityStepExponent)
    /\ o.type = "limit" =>
          IsPriceTickValid(o.price, ComputePriceTick(UnifiedRefAmount(o.base),
                                                     UnifiedRefAmount(o.quote),
                                                     params.priceTickExponent))
    /\ ValidateGoodTil(o.goodTil)

GetInitialRemainingBalance(a, o) ==
    LET spendable == GetSpendableBalance(a, GetSpendDenom(o))
    IN  IF o.type = "limit" THEN ComputeLimitOrderLockedAmount(o.side, o.quantity, o.price)
        ELSE IF o.side = "sell" /\ o.quantity < spendable THEN o.quantity ELSE spendable

PlaceOrder(a, id, o) ==
    /\ phase = "deliver" /\ ~ tx.active
    /\ orderSequence < MaxSequence
    /\ ValidateOrder(o)
    /\ <<a, id>> \notin reservedIDs
    /\ orderIDToSequence[a][id] = 0
    /\ tx' = [IdleTx EXCEPT !.active = TRUE, !.creator = a, !.id = id, !.order = o,
                            !.remBase = o.quantity,
                            !.remSpend = GetInitialRemainingBalance(a, o)]
    /\ UNCHANGED <<ftVars, delayVars, bookVars, reservedIDs, orderSequence, params>>

-----------------------------------------------------------------------------
(* Finding the next maker                                                  *)

\* The makers of one side of a book that the taker has not met yet.
Unvisited(base, quote, side) ==
    {s \in Sequences \ (tx.toRemove \cup {tx.toUpdate}) :
        /\ HasRecord(s)
        /\ records[s].base = base /\ records[s].quote = quote /\ records[s].side = side}

\* Mutant: the newest order of a price is first.
PrecedesNewestFirst(s, t) ==
    LET p == records[s].price
        q == records[t].price
    IN  IF RatEQ(p, q) THEN s >= t
        ELSE IF records[s].side = "sell" THEN RatLTE(p, q) ELSE RatLTE(q, p)

\* The order an OrderBookIterator returns records in: the sell side from the lowest price, the
\* buy side from the highest, and older orders first at the same price.
Precedes(s, t) ==
    LET p == records[s].price
        q == records[t].price
    IN  IF RatEQ(p, q) THEN s <= t
        ELSE IF records[s].side = "sell" THEN RatLTE(p, q) ELSE RatLTE(q, p)

HeadOf(side) == {s \in side : \A t \in side : Precedes(s, t)}

\* Mutant: prices are not compared.
IsPriceMatchesAny(o, price) == TRUE

IsPriceMatches(o, price) ==
    \/ o.type = "market"
    \/ IF o.side = "buy" THEN RatLTE(price, o.price) ELSE RatLTE(o.price, price)

IsDirectRecordBestMatch(o, direct, inverted) ==
    LET p == records[direct].price
        q == RatInv(records[inverted].price)
    IN  IF RatEQ(p, q) THEN direct < inverted
        ELSE IF o.side = "buy" THEN RatLTE(p, q) ELSE RatLTE(q, p)

\* Mutant: the inverted book is not looked at.
NextDirectMakers ==
    {s \in HeadOf(Unvisited(tx.order.base, tx.order.quote, Opposite(tx.order.side))) :
        IsPriceMatches(tx.order, records[s].price)}

\* MatchingFinder.Next: the heads of the two books that match the taker, the better one first.
NextMakers ==
    LET o        == tx.order
        direct   == {s \in HeadOf(Unvisited(o.base, o.quote, Opposite(o.side))) :
                        IsPriceMatches(o, records[s].price)}
        inverted == {s \in HeadOf(Unvisited(o.quote, o.base, o.side)) :
                        IsPriceMatches(o, RatInv(records[s].price))}
    IN  {s \in direct : \A t \in inverted : IsDirectRecordBestMatch(o, s, t)}
        \cup {t \in inverted : \A s \in direct : ~ IsDirectRecordBestMatch(o, s, t)}

-----------------------------------------------------------------------------
(* Matching                                                                *)

\* The amounts one match moves: what the taker trades with maker s, what is left of the maker,
\* and whether that closes the maker.
MatchWith(s) ==
    LET o        == tx.order
        rec      == records[s]
        inverted == rec.side = o.side
        trade    == Match(NewMatchingOBRecord([side |-> o.side, price |-> o.price,
                                               remBase |-> tx.remBase, remSpend |-> tx.remSpend],
                                              FALSE),
                          NewMatchingOBRecord(rec, inverted))
        left     == [rec EXCEPT !.remBase = @ - (IF inverted THEN trade.quote ELSE trade.base),
                                !.remSpend = @ - trade.takerReceives]
    IN  [trade |-> trade, left |-> left,
         closed |-> trade.closeMaker \/ ~ IsOrderRecordExecutableAsMaker(left)]

\* Mutant: the reserve is not given back.
ReserveIsKept(s) == NoCoin

\* A closed order releases the reserve it was created with.
ReserveOf(s) == orderData[s].reserve

MatchRecords(s) ==
    LET m        == MatchWith(s)
        maker    == records[s].creator
        reserve  == ReserveOf(s)
        released == [d \in Denoms |->
                        (IF d = GetReceiveDenom(tx.order)
                         THEN m.trade.takerReceives + (IF m.closed THEN m.left.remSpend ELSE 0)
                         ELSE 0)
                        + (IF m.closed /\ d = reserve.denom THEN reserve.amount ELSE 0)]
        dropped  == m.trade.takerSpends
                    + (IF m.closed
                       THEN ComputeLimitOrderExpectedToReceiveAmount(m.left.side, m.left.remBase,
                                                                     m.left.price)
                       ELSE 0)
    IN  /\ tx.active /\ ~ tx.filled
        /\ s \in NextMakers
        /\ tx' = [tx EXCEPT
                     !.remBase = @ - m.trade.base,
                     !.remSpend = @ - m.trade.takerSpends,
                     !.filled = m.trade.closeTaker,
                     !.toRemove = IF m.closed THEN @ \cup {s} ELSE @,
                     !.toUpdate = IF m.closed THEN @ ELSE s,
                     !.updated = IF m.closed THEN @ ELSE m.left,
                     !.spent = @ + m.trade.takerSpends,
                     !.received = @ + m.trade.takerReceives,
                     !.unlock[maker] = [d \in Denoms |-> @[d] + released[d]],
                     !.unexpect[maker] = @ + dropped,
                     !.sendToMaker[maker] = @ + m.trade.takerSpends,
                     !.sendToTaker[maker] = @ + m.trade.takerReceives]
        /\ UNCHANGED <<ftVars, delayVars, bookVars, reservedIDs, orderSequence, params>>

IsMatched == tx.active /\ (tx.filled \/ NextMakers = {})

\* Mutant: a rest that cannot trade stays.
RestsInexecutable ==
    tx.order.type = "limit" /\ tx.order.timeInForce = "GTC" /\ ~ tx.filled /\ tx.remBase > 0

\* What is left of a GTC limit order goes to the book.
Rests ==
    /\ tx.order.type = "limit" /\ tx.order.timeInForce = "GTC"
    /\ ~ tx.filled
    /\ IsOrderRecordExecutableAsMaker([price |-> tx.order.price, remBase |-> tx.remBase])

IsKilled == tx.order.type = "limit" /\ tx.order.timeInForce = "FOK" /\ tx.remBase > 0

\* CreatorExpectedToSpend is nil: no coin moved and none is to be locked.
HasNothingToApply == ~ Rests /\ tx.spent = 0

\* A killed FOK order, or one that moved nothing: the transaction succeeds, the ID and the
\* sequence are used up, nothing else changes.
CloseUnexecuted ==
    /\ IsMatched
    /\ IsKilled \/ HasNothingToApply
    /\ reservedIDs' = reservedIDs \cup {<<tx.creator, tx.id>>}
    /\ orderSequence' = orderSequence + 1
    /\ tx' = IdleTx
    /\ UNCHANGED <<ftVars, delayVars, bookVars, params>>

-----------------------------------------------------------------------------
(* Removing orders from the store: removeOrderByRecord for every order of S *)

IndexWithout(S) ==
    [a \in Accounts |-> [i \in OrderIDs |->
        IF \E s \in S : records[s].creator = a /\ records[s].id = i THEN 0
        ELSE orderIDToSequence[a][i]]]

DenomIndexWithout(S) ==
    {e \in accountDenomOrders :
        ~ (e[3] \in S /\ e[1] = records[e[3]].creator /\ e[2] \in DenomsOf(records[e[3]]))}

\* Mutant: the counter is not lowered.
CountKept(S) == ordersCount

CountWithout(S) ==
    [a \in Accounts |-> [d \in Denoms |-> ordersCount[a][d] - CountOf(S, a, d)]]

DelayedWithout(S) ==
    {i \in delayedItems :
        ~ \E s \in S : LET t == orderData[s].goodTil.time IN t > 0 /\ i.at = Unix(t) /\ i.id = s}

\* The delayed items that carry a CancelGoodTil message.
CancelItems == {i \in delayedItems : i.data \in Accounts}

\* Mutant: the delayed cancellation stays.
BlocksKept(S) == blockItems

BlocksWithout(S) ==
    {i \in blockItems :
        ~ \E s \in S : LET h == orderData[s].goodTil.height IN h > 0 /\ i.at = h /\ i.id = s}

-----------------------------------------------------------------------------
(* Applying the matching result                                            *)

\* What IncreaseTakerLimitsForRecord asks for the remaining part. The reserve is locked too, but
\* it is not part of what the creator is checked to be able to spend.
TakerLock ==
    IF Rests THEN ComputeLimitOrderLockedAmount(tx.order.side, tx.remBase, tx.order.price) ELSE 0

TakerExpects ==
    IF Rests
    THEN ComputeLimitOrderExpectedToReceiveAmount(tx.order.side, tx.remBase, tx.order.price)
    ELSE 0

TakerReserve == IF Rests THEN params.orderReserve ELSE NoCoin

IncreaseLocked(d) ==
    (IF d = GetSpendDenom(tx.order) THEN TakerLock ELSE 0)
    + (IF d = TakerReserve.denom THEN TakerReserve.amount ELSE 0)

LockedAfter ==
    [a \in Accounts |-> [d \in Denoms |->
        dexLocked[a][d] + (IF a = tx.creator THEN IncreaseLocked(d) ELSE 0) - tx.unlock[a][d]]]

\* Mutant: a trade leaves the expected receipts alone.
ExpectedAfterKept ==
    [a \in Accounts |-> [d \in Denoms |->
        IF ~ ShouldRecordExpectedToReceive(d) THEN dexExpectedToReceive[a][d]
        ELSE dexExpectedToReceive[a][d]
             + (IF a = tx.creator /\ d = GetReceiveDenom(tx.order) THEN TakerExpects ELSE 0)]]

ExpectedAfter ==
    [a \in Accounts |-> [d \in Denoms |->
        IF ~ ShouldRecordExpectedToReceive(d) THEN dexExpectedToReceive[a][d]
        ELSE dexExpectedToReceive[a][d]
             + (IF a = tx.creator /\ d = GetReceiveDenom(tx.order) THEN TakerExpects ELSE 0)
             - (IF d = GetSpendDenom(tx.order) THEN tx.unexpect[a] ELSE 0)]]

\* Mutant: the taker is not charged.
BalancesAfterUnpaid ==
    [a \in Accounts |-> [d \in Denoms |->
        balances[a][d]
        + (IF d = GetSpendDenom(tx.order) THEN tx.sendToMaker[a] ELSE 0)
        + (IF d = GetReceiveDenom(tx.order)
           THEN (IF a = tx.creator THEN tx.received ELSE 0) - tx.sendToTaker[a] ELSE 0)]]

\* The sends, through the bank keeper without the transfer hooks.
BalancesAfter ==
    [a \in Accounts |-> [d \in Denoms |->
        balances[a][d]
        + (IF d = GetSpendDenom(tx.order)
           THEN tx.sendToMaker[a] - (IF a = tx.creator THEN tx.spent ELSE 0) ELSE 0)
        + (IF d = GetReceiveDenom(tx.order)
           THEN (IF a = tx.creator THEN tx.received ELSE 0) - tx.sendToTaker[a] ELSE 0)]]

CountAfter ==
    [a \in Accounts |-> [d \in Denoms |->
        CountWithout(tx.toRemove)[a][d]
        + (IF Rests /\ a = tx.creator /\ d \in DenomsOf(tx.order) THEN 1 ELSE 0)]]

\* No call of createOrder, removeOrderByRecord or DEXExecuteActions returns an error. The limit of
\* orders per denom is checked before the makers' orders are removed.
CanApply ==
    LET o == tx.order
    IN  /\ Rests => \A d \in DenomsOf(o) : ordersCount[tx.creator][d] < params.maxOrdersPerDenom
        /\ \A a \in Accounts, d \in Denoms :
              CountAfter[a][d] >= 0 /\ LockedAfter[a][d] >= 0 /\ ExpectedAfter[a][d] >= 0
        /\ DEXCheckOrderAmounts(tx.creator, GetSpendDenom(o), tx.spent + TakerLock,
                                GetReceiveDenom(o), tx.received + TakerExpects,
                                ContextOf(tx.creator))
        /\ \A d \in Denoms :
              IncreaseLocked(d) > 0 =>
                  NotLockedByDEXAndBank(balances, tx.creator, d, IncreaseLocked(d))
        /\ CanMove(balances, tx.creator, GetSpendDenom(o), tx.spent)
        /\ Rests => IF o.goodTil.height > 0
                    THEN ~ HasItem(blockItems, o.goodTil.height, orderSequence + 1)
                    ELSE ~ HasItem(delayedItems, Unix(o.goodTil.time), orderSequence + 1)
        /\ \A a \in Accounts : CanMove(balances, a, GetReceiveDenom(o), tx.sendToTaker[a])

\* delayGoodTilCancellation: a height wins over a time.
DelayedWithTaker(items, seq) ==
    IF Rests /\ tx.order.goodTil.height = 0 /\ tx.order.goodTil.time > 0
    THEN WithItem(items, Unix(tx.order.goodTil.time), seq, tx.creator) ELSE items

BlocksWithTaker(items, seq) ==
    IF Rests /\ tx.order.goodTil.height > 0
    THEN WithItem(items, tx.order.goodTil.height, seq, tx.creator) ELSE items

ApplyMatchingResult ==
    LET o   == tx.order
        seq == orderSequence + 1
        rec == [base |-> o.base, quote |-> o.quote, side |-> o.side, price |-> o.price,
                id |-> tx.id, creator |-> tx.creator, remBase |-> tx.remBase,
                remSpend |-> TakerLock]
        data == [id |-> tx.id, base |-> o.base, quote |-> o.quote, side |-> o.side,
                 price |-> o.price, quantity |-> o.quantity, goodTil |-> o.goodTil,
                 reserve |-> TakerReserve]
    IN  /\ IsMatched /\ ~ IsKilled /\ ~ HasNothingToApply
        /\ CanApply
        /\ records' = [s \in Sequences |->
                          IF Rests /\ s = seq THEN rec
                          ELSE IF s \in tx.toRemove THEN NoRecord
                          ELSE IF s = tx.toUpdate THEN tx.updated ELSE records[s]]
        /\ orderData' = [s \in Sequences |->
                            IF Rests /\ s = seq THEN data
                            ELSE IF s \in tx.toRemove THEN NoOrderData ELSE orderData[s]]
        /\ orderIDToSequence' = IF Rests
                                THEN [IndexWithout(tx.toRemove) EXCEPT ![tx.creator][tx.id] = seq]
                                ELSE IndexWithout(tx.toRemove)
        /\ accountDenomOrders' = DenomIndexWithout(tx.toRemove)
                                 \cup {<<tx.creator, d, seq>> : d \in IF Rests THEN DenomsOf(o) ELSE {}}
        /\ ordersCount' = CountAfter
        /\ reservedIDs' = reservedIDs \cup {<<tx.creator, tx.id>>}
        /\ orderSequence' = seq
        /\ delayedItems' = DelayedWithTaker(DelayedWithout(tx.toRemove), seq)
        /\ blockItems' = BlocksWithTaker(BlocksWithout(tx.toRemove), seq)
        /\ dexLocked' = LockedAfter
        /\ dexExpectedToReceive' = ExpectedAfter
        /\ balances' = BalancesAfter
        /\ tx' = IdleTx
        /\ UNCHANGED <<supply, bankLocked, definitions, frozen, globallyFrozen, whitelisted,
                       dexSettings, blockTime, blockHeight, phase, params>>

\* The transaction fails and everything it wrote is rolled back.
RejectOrder ==
    /\ IsMatched /\ ~ IsKilled /\ ~ HasNothingToApply
    /\ ~ CanApply
    /\ tx' = IdleTx
    /\ UNCHANGED <<ftVars, delayVars, bookVars, reservedIDs, orderSequence, params>>

-----------------------------------------------------------------------------
(* Cancelling                                                              *)

\* getOrderWithRecordByAddressAndID finds the order data and, under its key, the record.
IsFound(s) ==
    /\ s \in Sequences
    /\ orderData[s] # NoOrderData
    /\ HasRecord(s)
    /\ records[s].base = orderData[s].base /\ records[s].quote = orderData[s].quote
    /\ records[s].side = orderData[s].side /\ records[s].price = orderData[s].price

\* Mutant: the counter refuses to go to zero.
CanCancelAboveOne(S) ==
    /\ \A s \in S : IsFound(s)
    /\ \A a \in Accounts, d \in Denoms : CountOf(S, a, d) > 0 => CountOf(S, a, d) < ordersCount[a][d]

\* cancelOrder succeeds for every order of S, one after the other.
CanCancel(S) ==
    /\ \A s \in S : IsFound(s)
    /\ \A s \in S : OrderExpects(records[s], records[s].creator, GetReceiveDenom(records[s])) > 0
    /\ \A a \in Accounts, d \in Denoms :
          /\ CountOf(S, a, d) <= ordersCount[a][d]
          /\ LockOf(S, a, d) <= dexLocked[a][d]
          /\ ShouldRecordExpectedToReceive(d) => ExpectedOf(S, a, d) <= dexExpectedToReceive[a][d]

\* What cancelOrder does to the book and the limits, for every order of S.
Cancel(S) ==
    /\ records' = [s \in Sequences |-> IF s \in S THEN NoRecord ELSE records[s]]
    /\ orderData' = [s \in Sequences |-> IF s \in S THEN NoOrderData ELSE orderData[s]]
    /\ orderIDToSequence' = IndexWithout(S)
    /\ accountDenomOrders' = DenomIndexWithout(S)
    /\ ordersCount' = CountWithout(S)
    /\ dexLocked' = [a \in Accounts |-> [d \in Denoms |-> dexLocked[a][d] - LockOf(S, a, d)]]
    /\ dexExpectedToReceive' =
           [a \in Accounts |-> [d \in Denoms |->
               IF ShouldRecordExpectedToReceive(d)
               THEN dexExpectedToReceive[a][d] - ExpectedOf(S, a, d)
               ELSE dexExpectedToReceive[a][d]]]
    /\ UNCHANGED <<balances, supply, bankLocked, definitions, frozen, globallyFrozen, whitelisted,
                   dexSettings, reservedIDs, orderSequence, params, tx>>

\* cancelOrderBySequence looks the order up again by the ID in its data.
BySequence(a, s) == IF orderData[s] = NoOrderData THEN 0 ELSE orderIDToSequence[a][orderData[s].id]

CancelMessage(S) ==
    /\ phase = "deliver" /\ ~ tx.active
    /\ CanCancel(S)
    /\ Cancel(S)
    /\ delayedItems' = DelayedWithout(S)
    /\ blockItems' = BlocksWithout(S)
    /\ UNCHANGED <<blockTime, blockHeight, phase>>

CancelOrder(a, id) == CancelMessage({orderIDToSequence[a][id]})

CancelOrdersByDenom(admin, a, d) ==
    LET indexed == {s \in Sequences : <<a, d, s>> \in accountDenomOrders}
    IN  /\ ValidateDEXCancelOrdersByDenomIsAllowed(admin, d)
        /\ CancelMessage({BySequence(a, s) : s \in indexed})

\* BeginBlock hands a due CancelGoodTil message to NewDelayCancelOrderHandler and deletes it. An
\* error of the handler is an error of BeginBlock: the chain halts.
ExecuteItem(item) ==
    LET S == {BySequence(item.data, item.id)}
    IN  /\ phase = "begin"
        /\ item \in NextItems
        /\ IF CanCancel(S)
           THEN /\ Cancel(S)
                /\ delayedItems' = DelayedWithout(S) \ (IF DueDelayedItems # {} THEN {item} ELSE {})
                /\ blockItems' = BlocksWithout(S) \ (IF DueDelayedItems # {} THEN {} ELSE {item})
                /\ UNCHANGED <<blockTime, blockHeight, phase>>
           ELSE HaltBegin /\ UNCHANGED <<ftVars, dexVars>>

UpdateParams(p) ==
    /\ phase = "deliver" /\ ~ tx.active
    /\ ValidParams(p)
    /\ params' = p
    /\ UNCHANGED <<ftVars, delayVars, bookVars, reservedIDs, orderSequence, tx>>

-----------------------------------------------------------------------------
(* The chain                                                               *)

OrderNext ==
    \/ \E a \in Users, id \in OrderIDs, o \in Orders : PlaceOrder(a, id, o)
    \/ \E s \in Sequences : MatchRecords(s)
    \/ ApplyMatchingResult
    \/ CloseUnexecuted
    \/ RejectOrder

CancelNext ==
    \/ \E a \in Users, id \in OrderIDs : CancelOrder(a, id)
    \/ \E admin, a \in Users, d \in Denoms : CancelOrdersByDenom(admin, a, d)

BlockNext ==
    \/ \E elapsed \in BlockTimes : NewBlock(elapsed) /\ ~ tx.active /\ UNCHANGED <<ftVars, dexVars>>
    \/ \E item \in NextItems : ExecuteItem(item)
    \/ FinishBegin /\ UNCHANGED <<ftVars, dexVars>>

TokenNext ==
    /\ phase = "deliver" /\ ~ tx.active
    /\ MessagesNext
    /\ UNCHANGED <<delayVars, dexVars>>

ParamsNext == \E p \in ParamUpdates : UpdateParams(p)

DEXNext == OrderNext \/ CancelNext \/ BlockNext \/ TokenNext \/ ParamsNext

DEXSpec == DEXInit /\ [][DEXNext]_vars

-----------------------------------------------------------------------------
(* Properties                                                              *)

\* Every variable has its type; in particular no trade leaves an order or an account with less
\* than nothing.
DEXTypeOK ==
    /\ FTTypeOK
    /\ blockTime \in Nat /\ blockHeight \in Nat
    /\ phase \in {"begin", "deliver", "halted"}
    /\ \A i \in delayedItems \cup blockItems :
          i \in [at : Nat, id : Sequences, data : Accounts]
    /\ records \in [Sequences -> Record \cup {NoRecord}]
    /\ orderData \in [Sequences -> OrderData \cup {NoOrderData}]
    /\ orderIDToSequence \in [Accounts -> [OrderIDs -> 0 .. MaxSequence]]
    /\ reservedIDs \subseteq Accounts \X OrderIDs
    /\ accountDenomOrders \subseteq Accounts \X Denoms \X Sequences
    /\ ordersCount \in [Accounts -> [Denoms -> Nat]]
    /\ orderSequence \in 0 .. MaxSequence
    /\ params \in Params
    /\ tx \in Transaction

\* What the ledger has locked for an account is exactly what its resting orders have left to spend
\* plus their reserves, whatever was matched, rounded, closed or cancelled, also when the reserve
\* parameter changed in between (DEXIncreaseLocked / DEXDecreaseLocked against the order book).
LockedMatchesOrders ==
    \A a \in Accounts, d \in Denoms : dexLocked[a][d] = LockOf(Sequences, a, d)

\* For tokens with whitelisting, the ledger expects for an account exactly what its resting orders
\* can still deliver, so that its whitelisted limit is neither overrun nor used up by old orders.
ExpectedMatchesOrders ==
    \A a \in Accounts, d \in Denoms :
        dexExpectedToReceive[a][d] =
            IF ShouldRecordExpectedToReceive(d) THEN ExpectedOf(Sequences, a, d) ELSE 0

\* An order's record, its data, its ID and its two denom entries appear and disappear together, and
\* the counters that max_orders_per_denom is checked against count them, so that
\* decrementUint64Counter never fails and no slot is lost.
IndexesAgree ==
    /\ \A s \in Sequences :
          HasRecord(s) => /\ IsFound(s)
                          /\ orderData[s].id = records[s].id
                          /\ orderIDToSequence[records[s].creator][records[s].id] = s
                          /\ <<records[s].creator, records[s].id>> \in reservedIDs
    /\ \A s \in Sequences : orderData[s] # NoOrderData => HasRecord(s)
    /\ \A a \in Accounts, i \in OrderIDs :
          LET s == orderIDToSequence[a][i]
          IN  s # 0 => records[s].creator = a /\ records[s].id = i
    /\ accountDenomOrders = UNION {{<<records[s].creator, d, s>> : d \in DenomsOf(records[s])} :
                                   s \in {t \in Sequences : HasRecord(t)}}
    /\ \A a \in Accounts, d \in Denoms : ordersCount[a][d] = CountOf(Sequences, a, d)

\* An account can always pay for its resting orders: what they have left to spend, on top of what
\* vesting keeps locked, is in its balance. A taker is never rejected because a maker has no funds.
OrdersAreFunded ==
    \A a \in Accounts, d \in Denoms :
        SumTo([s \in Sequences |->
                  IF records[s].creator = a /\ d = GetSpendDenom(records[s])
                  THEN records[s].remSpend ELSE 0], MaxSequence)
        + bankLocked[a][d] <= balances[a][d]

\* A resting order can be executed at its price, and what it may spend is what its remaining
\* quantity costs: partial fills leave no rounding remainder in a record.
RecordsAreExact ==
    \A s \in Sequences : HasRecord(s) =>
        /\ IsOrderRecordExecutableAsMaker(records[s])
        /\ records[s].remSpend = ComputeLimitOrderLockedAmount(records[s].side, records[s].remBase,
                                                               records[s].price)

\* Whether two resting orders could trade with each other, in one book or across inverted books.
Crosses(r, q) ==
    \/ /\ r.base = q.base /\ r.quote = q.quote /\ r.side = "sell" /\ q.side = "buy"
       /\ RatLTE(r.price, q.price)
    \/ /\ r.base = q.quote /\ r.quote = q.base /\ r.side = q.side
       /\ IF r.side = "sell" THEN RatLTE(r.price, RatInv(q.price))
          ELSE RatLTE(RatInv(q.price), r.price)

\* The book is never crossed: orders that could trade have traded when the later one was placed.
NotCrossed ==
    \A s, t \in Sequences : HasRecord(s) /\ HasRecord(t) => ~ Crosses(records[s], records[t])

\* A limit order never trades at a worse average price than its own, over all its makers in both
\* books, and never runs out of the balance that covers the rest of it.  A market order never
\* commits more than its creator could spend when it was placed.
TakerGetsItsPrice ==
    /\ tx.active /\ tx.order.type = "limit" =>
        /\ IF tx.order.side = "buy"
           THEN tx.spent * tx.order.price.den <= tx.received * tx.order.price.num
           ELSE tx.received * tx.order.price.den >= tx.spent * tx.order.price.num
        /\ tx.remSpend >= ComputeLimitOrderLockedAmount(tx.order.side, tx.remBase, tx.order.price)
    /\ tx.active /\ tx.order.type = "market" =>
        /\ tx.remBase >= 0 /\ tx.remSpend >= 0
        /\ tx.spent <= GetSpendableBalance(tx.creator, GetSpendDenom(tx.order))

\* Each resting order with a good-til setting has exactly one delayed cancellation, and no
\* cancellation outlives its order.
GoodTilIsScheduled ==
    LET resting == {s \in Sequences : HasRecord(s)}
    IN  /\ blockItems = {[at |-> orderData[s].goodTil.height, id |-> s, data |-> records[s].creator] :
                            s \in {r \in resting : orderData[r].goodTil.height > 0}}
        /\ CancelItems = {[at |-> Unix(orderData[s].goodTil.time), id |-> s,
                            data |-> records[s].creator] :
                              s \in {r \in resting : /\ orderData[r].goodTil.height = 0
                                                     /\ orderData[r].goodTil.time > 0}}

\* A delayed cancellation never fails: an error in BeginBlock would stop the chain.
NotHalted == phase # "halted"

\* Price-time priority over both books: when a match touches a maker, every maker with a better
\* price for the taker, or the same price and an older order, is closed by that match.
EffectivePrice(s) ==
    IF records[s].side = tx.order.side THEN RatInv(records[s].price) ELSE records[s].price

IsMakerFor(o, s) ==
    /\ HasRecord(s)
    /\ \/ /\ records[s].base = o.base /\ records[s].quote = o.quote
          /\ records[s].side = Opposite(o.side)
       \/ records[s].base = o.quote /\ records[s].quote = o.base /\ records[s].side = o.side

HasPriority(s, t) ==
    LET p == EffectivePrice(s)
        q == EffectivePrice(t)
    IN  IF RatEQ(p, q) THEN s < t
        ELSE IF tx.order.side = "buy" THEN RatLTE(p, q) ELSE RatLTE(q, p)

PriceTimePriority ==
    [][ApplyMatchingResult =>
          \A s, t \in Sequences :
              /\ IsMakerFor(tx.order, s) /\ IsMakerFor(tx.order, t)
              /\ HasPriority(s, t)
              /\ records'[t] # records[t]
              => records'[s] = NoRecord]_vars

\* A record as an offer: what it has left to spend, at its price.
OfferOf(r) ==
    [owner |-> r.creator, sells |-> GetSpendDenom(r), buys |-> GetReceiveDenom(r),
     rate |-> IF r.side = "sell" THEN r.price ELSE RatInv(r.price), left |-> r.remSpend]

NoOffer == OfferOf(NoRecord)

Promise ==
    INSTANCE Exchange WITH
        wealth <- balances,
        offers <- [s \in Sequences |-> OfferOf(records[s])],
        OfferCount <- MaxSequence

\* The exchange settles: every transaction is, for its users, a withdrawal of offers or a single
\* deal in which each maker it touches is paid at exactly its own price, over both books and all
\* roundings, and the taker gives and gets exactly what the makers get and give. The locks, the
\* partial results and the separate sends of DEXActions are not visible.
SettlesDeals == Promise!ExchangeSpec

\* No step of the exchange or of a transfer takes what an account holds of a whitelisted token,
\* together with what its orders may still deliver, over its limit.
HoldingsStayWhitelisted ==
    [][\A a \in Users, d \in Denoms :
          (/\ IsFeatureEnabled(d, "whitelisting") /\ ~ HasAdminPrivileges(d, a)
           /\ balances'[a][d] + dexExpectedToReceive'[a][d]
                  > balances[a][d] + dexExpectedToReceive[a][d])
          => balances'[a][d] + dexExpectedToReceive'[a][d] <= whitelisted[a][d]]_vars

\* Every resting order with a good-til setting eventually leaves the book, provided blocks keep
\* being produced.
GoodTilOrdersLeave ==
    \A s \in Sequences : HasRecord(s) /\ orderData[s].goodTil # NoGoodTil ~> ~ HasRecord(s)

-----------------------------------------------------------------------------
(* Statements of the documentation that the code does not keep             *)

\* x/dex/spec/README.md on GTC: "The order remains active until it is fully executed or manually
\* canceled by the trader." A taker whose quantity is below the denominator of the first maker's
\* price is closed by a trade of zero.
GTCOrdersAreNotDropped ==
    [][tx.active /\ ~ tx'.active /\ reservedIDs' # reservedIDs
       /\ tx.order.timeInForce = "GTC" /\ tx.spent = 0
       /\ IsOrderRecordExecutableAsMaker([price |-> tx.order.price, remBase |-> tx.remBase])
       => \E s \in Sequences : records'[s].creator = tx.creator /\ records'[s].id = tx.id]_vars

\* x/dex/spec/README.md:201: "The reserve acts as a security deposit", and :168 "we lock the coins in
\* the assetft". What an account has locked, reserves included, is in its balance. The reserve is
\* not part of what the creator is checked to be able to spend, so the sends may move it away.
ReserveIsDeposited ==
    \A a \in Accounts, d \in Denoms : dexLocked[a][d] <= balances[a][d]
=============================================================================
