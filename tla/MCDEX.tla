------------------------------- MODULE MCDEX -------------------------------
(* Small exchanges for TLC: two traders and one module account that is also  *)
(* the escrow address; core, the bond and reserve denom, and usd.            *)
EXTENDS DEX, TLC

CONSTANTS alice, bob, module, core, usd

MCAccounts == {alice, bob, module}

MCDenoms == {core, usd}

Holding(amount) ==
    [a \in MCAccounts |-> [d \in MCDenoms |-> IF a = module THEN 0 ELSE amount]]

NoHolding == Holding(0)

NoDefinitions == [d \in MCDenoms |-> NoDefinition]

Reserving(amount) ==
    [defaultUnifiedRefAmount |-> 1, priceTickExponent |-> -1, quantityStepExponent |-> -1,
     maxOrdersPerDenom |-> 2, orderReserve |-> [denom |-> core, amount |-> amount]]

Limit(base, quote, side, quantity, num, den, tif) ==
    [type |-> "limit", base |-> base, quote |-> quote, side |-> side, price |-> Rat(num, den),
     quantity |-> quantity, timeInForce |-> tif, goodTil |-> NoGoodTil]

Market(side, quantity) ==
    [type |-> "market", base |-> core, quote |-> usd, side |-> side, price |-> MarketPrice,
     quantity |-> quantity, timeInForce |-> "IOC", goodTil |-> NoGoodTil]

-----------------------------------------------------------------------------
(* Matching: prices that round, both books, every order type.                *)

MatchBalances == Holding(6)

MatchParams == Reserving(1)

MatchOrders ==
    {Limit(core, usd, "sell", 3, 1, 2, "GTC"),
     Limit(core, usd, "buy", 3, 3, 2, "GTC"),
     Limit(core, usd, "buy", 1, 1, 1, "GTC"),
     Limit(usd, core, "sell", 3, 1, 1, "GTC"),
     Limit(usd, core, "buy", 3, 3, 2, "GTC"),
     Limit(usd, core, "buy", 2, 1, 2, "IOC"),
     Limit(core, usd, "sell", 3, 1, 2, "FOK"),
     Market("buy", 4),
     Market("sell", 3)}

MatchNext == OrderNext \/ \E a \in Users, id \in OrderIDs : CancelOrder(a, id)

MatchSpec == DEXInit /\ [][MatchNext]_vars

IDSymmetry == Permutations(OrderIDs)

-----------------------------------------------------------------------------
(* Tokens: the rules of the ledger change between orders. usd has the        *)
(* features; core vests and can be delegated.                                *)

MCToken(features) ==
    [features |-> features, issuer |-> alice, admin |-> alice, burnRate |-> 0,
     commissionRate |-> 0]

TokenDefinitions ==
    (core :> NoDefinition)
    @@ (usd :> MCToken({"freezing", "whitelisting", "clawback", "dex_order_cancellation"}))

TokenBalances ==
    [a \in MCAccounts |-> [d \in MCDenoms |->
        CASE a = alice /\ d = usd -> 3 [] a = bob /\ d = core -> 3
          [] a = bob /\ d = usd -> 1 [] OTHER -> 0]]

TokenVesting ==
    [a \in MCAccounts |-> [d \in MCDenoms |-> IF a = bob /\ d = core THEN 1 ELSE 0]]

TokenOrders ==
    {Limit(core, usd, "buy", 1, 1, 1, "GTC"),
     Limit(core, usd, "sell", 1, 1, 1, "GTC"),
     Limit(usd, core, "buy", 2, 1, 2, "GTC"),
     Limit(usd, core, "sell", 1, 1, 1, "GTC")}

CONSTANTS MaxFrozen, MaxWhitelisted

TokenBounds ==
    /\ \A a \in MCAccounts :
          /\ frozen[a][usd] <= IF a = bob THEN MaxFrozen ELSE 0
          /\ whitelisted[a][usd] <= IF a = bob THEN MaxWhitelisted ELSE 0
    /\ definitions[usd].admin = alice

TokenParams == Reserving(0)

TokenMessages ==
    \/ \E from, to \in Users, d \in Denoms, amt \in Amounts : SendCoins(from, to, d, amt, Direct)
    \/ \E amt \in Amounts : DelegateCoins(bob, amt)
    \/ Vest(bob, core)
    \/ \E amt \in Amounts :
          \/ Clawback(alice, bob, usd, amt)
          \/ SetFrozen(alice, bob, usd, amt)
          \/ SetWhitelistedBalance(alice, bob, usd, amt)
    \/ GloballyFreeze(alice, usd)
    \/ GloballyUnfreeze(alice, usd)

TokensNext ==
    /\ \/ OrderNext
       \/ CancelNext
       \/ /\ phase = "deliver" /\ ~ tx.active
          /\ TokenMessages
          /\ UNCHANGED <<delayVars, dexVars>>
    /\ TokenBounds'

TokensSpec == DEXInit /\ [][TokensNext]_vars
=============================================================================
