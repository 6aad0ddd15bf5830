------------------------------ MODULE AssetFT ------------------------------
(***************************************************************************)
(* The fungible token ledger: bank balances and supply, the x/asset/ft     *)
(* keeper (definitions, features, freezing, whitelisting, burn and         *)
(* commission rates, the limits it keeps for the DEX) and the x/wbank      *)
(* wrapper that routes every bank transfer through the keeper's hooks.     *)
(*                                                                         *)
(* A message either commits or is rolled back as a whole, so an action is  *)
(* enabled exactly when the handler returns no error.                      *)
(***************************************************************************)
EXTENDS Integers, FiniteSets, Functions, SeqSum

CONSTANTS
    Accounts,       \* every address that can hold coins
    Denoms,         \* the denoms of the instance
    NoAdmin,        \* the empty admin address
    BondDenom,      \* the staking denom; it has no definition
    Contracts,      \* the addresses that are smart contracts
    ModuleAccounts, \* addresses owned by modules: no private key signs for them
    Escrow,         \* the address that escrows outgoing IBC transfers
    BondedPool,     \* the staking pool delegations move to
    Issuable,       \* definitions MsgIssue may create: one per denom
    IssueFee,       \* Params.IssueFee, in BondDenom
    RateScale,      \* rates are integers over RateScale
    Amounts,        \* amounts messages carry
    GenesisBalances, GenesisBankLocked, GenesisDefinitions

Features == {"minting", "burning", "freezing", "whitelisting", "ibc", "clawback",
             "block_smart_contracts", "dex_block", "dex_whitelisted_denoms",
             "dex_order_cancellation", "dex_unified_ref_amount_change"}

Definition == [features : SUBSET Features, issuer : Accounts,
               admin : Accounts \cup {NoAdmin}, burnRate : Nat, commissionRate : Nat]

\* The value of definitions[d] for a denom without one (core, IBC vouchers).
NoDefinition == [features |-> {}, issuer |-> NoAdmin, admin |-> NoAdmin,
                 burnRate |-> 0, commissionRate |-> 0]

Settings == [whitelistedDenoms : SUBSET Denoms, unifiedRefAmount : Nat]

ASSUME AccountsAssumption ==
    /\ IsFiniteSet(Accounts)
    /\ NoAdmin \notin Accounts
    /\ ModuleAccounts \subseteq Accounts
    /\ Escrow \in Accounts
    /\ BondedPool \in ModuleAccounts

ASSUME AmountsAssumption ==
    /\ Amounts \subseteq Nat
    /\ IssueFee \in Nat
    /\ RateScale \in Nat \ {0}
    /\ BondDenom \in Denoms

ASSUME DefinitionsAssumption ==
    /\ Issuable \in [Denoms -> Definition \cup {NoDefinition}]
    /\ GenesisDefinitions \in [Denoms -> Definition \cup {NoDefinition}]
    /\ GenesisDefinitions[BondDenom] = NoDefinition
    /\ Issuable[BondDenom] = NoDefinition
    /\ \A d \in Denoms :
          GenesisDefinitions[d].commissionRate > 0 => GenesisDefinitions[d].admin # NoAdmin

ASSUME GenesisAssumption ==
    /\ GenesisBalances \in [Accounts -> [Denoms -> Nat]]
    /\ GenesisBankLocked \in [Accounts -> [Denoms -> Nat]]
    /\ \A a \in Accounts, d \in Denoms : GenesisBankLocked[a][d] <= GenesisBalances[a][d]

VARIABLES
    balances,            \* bank balances
    supply,              \* bank supply
    bankLocked,          \* what vesting keeps locked (bank LockedCoins)
    definitions,         \* token definitions
    frozen,              \* frozen amounts
    globallyFrozen,      \* denoms under global freeze
    whitelisted,         \* whitelisted limits
    dexLocked,           \* amounts the DEX has locked for resting orders
    dexExpectedToReceive,\* amounts resting orders may still deliver
    dexSettings          \* DEX settings per denom

ftVars == <<balances, supply, bankLocked, definitions, frozen, globallyFrozen, whitelisted,
            dexLocked, dexExpectedToReceive, dexSettings>>

\* The accounts in some order, and the sum of their balances b in denom d.
AccountOrder == CHOOSE f \in Bijection(1 .. Cardinality(Accounts), Accounts) : TRUE

Total(b, d) ==
    SumTo([i \in 1 .. Cardinality(Accounts) |-> b[AccountOrder[i]][d]], Cardinality(Accounts))

Zero == [a \in Accounts |-> [d \in Denoms |-> 0]]

StartsWith(held, vesting, defined) ==
    /\ balances = held
    /\ supply = [d \in Denoms |-> Total(held, d)]
    /\ bankLocked = vesting
    /\ definitions = defined
    /\ frozen = Zero
    /\ globallyFrozen = {}
    /\ whitelisted = Zero
    /\ dexLocked = Zero
    /\ dexExpectedToReceive = Zero
    /\ dexSettings = [d \in Denoms |-> [whitelistedDenoms |-> {}, unifiedRefAmount |-> 0]]

FTInit == StartsWith(GenesisBalances, GenesisBankLocked, GenesisDefinitions)

-----------------------------------------------------------------------------
(* Definitions and permissions                                             *)

HasDefinition(d) == definitions[d] # NoDefinition

IsFeatureEnabled(d, f) == f \in definitions[d].features

IsAdmin(d, a) == definitions[d].admin = a

\* The extension contract, the other holder of admin privileges, is not modelled.
HasAdminPrivileges(d, a) == IsAdmin(d, a)

IsFeatureAllowed(d, a, f) ==
    IF HasAdminPrivileges(d, a)
    THEN IsFeatureEnabled(d, f) \/ f = "burning"
    ELSE IsFeatureEnabled(d, f) /\ f = "burning"

HasSupply(d) == supply[d] > 0

-----------------------------------------------------------------------------
(* The bank, as the keepers use it. Operators take the balances b they      *)
(* read, because a transfer is made of several consecutive bank calls.      *)

CanMove(b, from, d, amt) == b[from][d] - bankLocked[from][d] >= amt

Move(b, from, to, d, amt) == [[b EXCEPT ![from][d] = @ - amt] EXCEPT ![to][d] = @ + amt]

\* Mutant: a burn leaves the supply alone.
BurntWithoutSupply(d, amt) == supply

\* BurnCoins lowers the supply together with the balance.
Burnt(d, amt) == [supply EXCEPT ![d] = @ - amt]

Take(b, from, d, amt) == [b EXCEPT ![from][d] = @ - amt]

-----------------------------------------------------------------------------
(* Where a transfer comes from: the IBC purpose and whether a smart         *)
(* contract dispatched the message.                                         *)

Purposes == {"none", "out", "in", "ack", "timeout"}

Contexts == [purpose : Purposes, triggeredByContract : BOOLEAN]

Direct == [purpose |-> "none", triggeredByContract |-> FALSE]

IsRefund(ctx) == ctx.purpose \in {"ack", "timeout"}

-----------------------------------------------------------------------------
(* Spending and receiving rules                                            *)

\* Mutant: only vesting locks coins.
NotLockedByBank(b, a, d, amt) == b[a][d] - bankLocked[a][d] >= amt

NotLockedByDEXAndBank(b, a, d, amt) == b[a][d] - dexLocked[a][d] - bankLocked[a][d] >= amt

\* Mutant: only the global freeze counts.
GetGloballyFrozenBalance(b, a, d) ==
    IF ~ HasAdminPrivileges(d, a) /\ d \in globallyFrozen THEN b[a][d] ELSE 0

GetFrozenBalance(b, a, d) ==
    IF HasAdminPrivileges(d, a) THEN 0
    ELSE IF d \in globallyFrozen THEN b[a][d] ELSE frozen[a][d]

ValidateCoinSpendable(b, a, d, amt, ctx) ==
    \/ IsRefund(ctx)
    \/ /\ ~ (IsFeatureEnabled(d, "freezing") /\ d \in globallyFrozen /\ ~ HasAdminPrivileges(d, a))
       /\ \/ ctx.purpose = "in"
          \/ /\ ~ (/\ IsFeatureEnabled(d, "block_smart_contracts")
                   /\ ~ HasAdminPrivileges(d, a)
                   /\ ctx.triggeredByContract)
             /\ NotLockedByDEXAndBank(b, a, d, amt)
             /\ (IsFeatureEnabled(d, "freezing") /\ ~ HasAdminPrivileges(d, a))
                    => b[a][d] - GetFrozenBalance(b, a, d) >= amt

\* Mutant: expected receipts of orders do not count.
ValidateHeldBalance(b, a, d, amt) == whitelisted[a][d] - b[a][d] >= amt

ValidateWhitelistedBalance(b, a, d, amt) ==
    whitelisted[a][d] - b[a][d] - dexExpectedToReceive[a][d] >= amt

ValidateCoinReceivable(b, a, d, amt, ctx) ==
    IF ctx.purpose = "out" THEN IsFeatureEnabled(d, "ibc")
    ELSE \/ IsRefund(ctx)
         \/ HasAdminPrivileges(d, a)
         \/ /\ IsFeatureEnabled(d, "whitelisting") => ValidateWhitelistedBalance(b, a, d, amt)
            /\ ~ (IsFeatureEnabled(d, "block_smart_contracts") /\ a \in Contracts)

GetSpendableBalance(a, d) ==
    LET notLocked == balances[a][d] - dexLocked[a][d] - bankLocked[a][d]
        notFrozen == balances[a][d] - GetFrozenBalance(balances, a, d)
        spendable == IF IsFeatureEnabled(d, "freezing") /\ notFrozen < notLocked
                     THEN notFrozen ELSE notLocked
    IN  IF spendable < 0 THEN 0 ELSE spendable

\* ceil(rate * amt)
CalculateRate(rate, a, amt, ctx) ==
    IF ctx.purpose \in {"in", "ack", "timeout"} \/ a \in Contracts THEN 0
    ELSE (rate * amt + RateScale - 1) \div RateScale

-----------------------------------------------------------------------------
(* Transfers                                                               *)

\* The outcome of one transfer from balances b: the commission goes to the admin without
\* a lock check, the burn is taken through burnIfSpendable, then the amount itself is
\* checked and moved.
ApplyFeatures(b, from, to, d, amt, ctx) ==
    LET def        == definitions[d]
        charged    == def.admin \notin {from, to}
        commission == IF charged THEN CalculateRate(def.commissionRate, from, amt, ctx) ELSE 0
        burn       == IF charged THEN CalculateRate(def.burnRate, from, amt, ctx) ELSE 0
        afterFee   == IF commission > 0 THEN Move(b, from, def.admin, d, commission) ELSE b
        afterBurn  == Take(afterFee, from, d, burn)
        moved      == Move(b, from, to, d, amt)
    IN  IF ~ HasDefinition(d)
        THEN [ok |-> NotLockedByDEXAndBank(b, from, d, amt) /\ CanMove(b, from, d, amt),
              balances |-> moved, burnt |-> 0]
        ELSE IF IsRefund(ctx)
        THEN [ok |-> CanMove(b, from, d, amt), balances |-> moved, burnt |-> 0]
        ELSE [ok |-> /\ commission > 0 => /\ def.admin # NoAdmin
                                          /\ CanMove(b, from, d, commission)
                     /\ burn > 0 => /\ ValidateCoinSpendable(afterFee, from, d, burn, ctx)
                                    /\ CanMove(afterFee, from, d, burn)
                     /\ ValidateCoinSpendable(afterBurn, from, d, amt, ctx)
                     /\ ValidateCoinReceivable(afterBurn, to, d, amt, ctx)
                     /\ CanMove(afterBurn, from, d, amt),
              balances |-> Move(afterBurn, from, to, d, amt), burnt |-> burn]

\* Only the IBC transfer module sends with a purpose: out to the escrow address, the
\* others from it. Module accounts receive nothing from a plain send (BlockedAddr).
ValidRoute(from, to, ctx) ==
    CASE ctx.purpose = "none" -> from \notin ModuleAccounts \cup {Escrow} /\ to \notin ModuleAccounts
      [] ctx.purpose = "out"  -> from \notin ModuleAccounts \cup {Escrow} /\ to = Escrow
      [] OTHER                -> from = Escrow /\ to \notin ModuleAccounts

SendCoins(from, to, d, amt, ctx) ==
    LET res == ApplyFeatures(balances, from, to, d, amt, ctx)
    IN  /\ amt > 0
        /\ ValidRoute(from, to, ctx)
        /\ res.ok
        /\ balances' = res.balances
        /\ supply' = Burnt(d, res.burnt)
        /\ UNCHANGED <<bankLocked, definitions, frozen, globallyFrozen, whitelisted, dexLocked,
                       dexExpectedToReceive, dexSettings>>

\* A multi-send with two outputs: the second is applied to what the first leaves.
InputOutputCoins(from, to1, to2, d, amt1, amt2) ==
    LET one == ApplyFeatures(balances, from, to1, d, amt1, Direct)
        two == ApplyFeatures(one.balances, from, to2, d, amt2, Direct)
    IN  /\ amt1 > 0 /\ amt2 > 0
        /\ ValidRoute(from, to1, Direct) /\ ValidRoute(from, to2, Direct)
        /\ one.ok /\ two.ok
        /\ balances' = two.balances
        /\ supply' = Burnt(d, one.burnt + two.burnt)
        /\ UNCHANGED <<bankLocked, definitions, frozen, globallyFrozen, whitelisted, dexLocked,
                       dexExpectedToReceive, dexSettings>>

\* Mutant: delegation ignores the DEX locks.
CanDelegateLocked(a, amt) == balances[a][BondDenom] >= amt

\* beforeDelegateCoins: the coins the DEX has locked stay.
CanDelegate(a, amt) == balances[a][BondDenom] - dexLocked[a][BondDenom] >= amt

\* A delegation may use coins that still vest; the bank then counts them as delegated
\* vesting, which lowers what it keeps locked.
DelegateCoins(a, amt) ==
    LET d == BondDenom
        vesting == IF bankLocked[a][d] < amt THEN bankLocked[a][d] ELSE amt
    IN  /\ amt > 0
        /\ a \notin ModuleAccounts \cup {Escrow}
        /\ CanDelegate(a, amt)
        /\ balances' = Move(balances, a, BondedPool, d, amt)
        /\ bankLocked' = [bankLocked EXCEPT ![a][d] = @ - vesting]
        /\ UNCHANGED <<supply, definitions, frozen, globallyFrozen, whitelisted, dexLocked,
                       dexExpectedToReceive, dexSettings>>

\* Time passes and coins vest.
Vest(a, d) ==
    /\ bankLocked[a][d] > 0
    /\ bankLocked' = [bankLocked EXCEPT ![a][d] = @ - 1]
    /\ UNCHANGED <<balances, supply, definitions, frozen, globallyFrozen, whitelisted, dexLocked,
                   dexExpectedToReceive, dexSettings>>

-----------------------------------------------------------------------------
(* Issuing, minting, burning                                               *)

\* The issue fee is burned from the issuer, the initial amount minted to it. The issuer is
\* the admin, so the initial amount is always receivable.
Issue(d, amt) ==
    LET def  == Issuable[d]
        paid == Take(balances, def.issuer, BondDenom, IssueFee)
    IN  /\ def # NoDefinition
        /\ ~ HasDefinition(d)
        /\ IssueFee > 0 => /\ NotLockedByDEXAndBank(balances, def.issuer, BondDenom, IssueFee)
                           /\ CanMove(balances, def.issuer, BondDenom, IssueFee)
        /\ definitions' = [definitions EXCEPT ![d] = [def EXCEPT !.admin = def.issuer]]
        /\ balances' = [paid EXCEPT ![def.issuer][d] = @ + amt]
        /\ supply' = [Burnt(BondDenom, IssueFee) EXCEPT ![d] = @ + amt]
        /\ UNCHANGED <<bankLocked, frozen, globallyFrozen, whitelisted, dexLocked,
                       dexExpectedToReceive, dexSettings>>

Mint(sender, recipient, d, amt) ==
    /\ HasDefinition(d)
    /\ IsFeatureAllowed(d, sender, "minting")
    /\ recipient \notin ModuleAccounts
    /\ amt > 0 => ValidateCoinReceivable(balances, recipient, d, amt, Direct)
    /\ balances' = [balances EXCEPT ![recipient][d] = @ + amt]
    /\ supply' = [supply EXCEPT ![d] = @ + amt]
    /\ UNCHANGED <<bankLocked, definitions, frozen, globallyFrozen, whitelisted, dexLocked,
                   dexExpectedToReceive, dexSettings>>

Burn(sender, d, amt) ==
    /\ amt > 0
    /\ sender \notin ModuleAccounts \cup {Escrow}
    /\ IF d = BondDenom
       THEN NotLockedByDEXAndBank(balances, sender, d, amt)
       ELSE /\ HasDefinition(d)
            /\ IsFeatureAllowed(d, sender, "burning")
            /\ ValidateCoinSpendable(balances, sender, d, amt, Direct)
    /\ CanMove(balances, sender, d, amt)
    /\ balances' = Take(balances, sender, d, amt)
    /\ supply' = Burnt(d, amt)
    /\ UNCHANGED <<bankLocked, definitions, frozen, globallyFrozen, whitelisted, dexLocked,
                   dexExpectedToReceive, dexSettings>>

Clawback(sender, a, d, amt) ==
    /\ amt > 0
    /\ HasDefinition(d)
    /\ a \notin ModuleAccounts
    /\ NotLockedByDEXAndBank(balances, a, d, amt)
    /\ IsFeatureAllowed(d, sender, "clawback")
    /\ CanMove(balances, a, d, amt)
    /\ balances' = Move(balances, a, sender, d, amt)
    /\ UNCHANGED <<supply, bankLocked, definitions, frozen, globallyFrozen, whitelisted, dexLocked,
                   dexExpectedToReceive, dexSettings>>

-----------------------------------------------------------------------------
(* Freezing and whitelisting                                               *)

FreezingChecks(sender, a, d) ==
    /\ HasDefinition(d)
    /\ ~ HasAdminPrivileges(d, a)
    /\ IsFeatureAllowed(d, sender, "freezing")

FrozenBecomes(a, d, amt) ==
    /\ frozen' = [frozen EXCEPT ![a][d] = amt]
    /\ UNCHANGED <<balances, supply, bankLocked, definitions, globallyFrozen, whitelisted, dexLocked,
                   dexExpectedToReceive, dexSettings>>

Freeze(sender, a, d, amt) ==
    /\ amt > 0
    /\ FreezingChecks(sender, a, d)
    /\ FrozenBecomes(a, d, frozen[a][d] + amt)

\* Mutant: the frozen amount is not compared with what is released.
UnfreezeUnchecked(sender, a, d, amt) ==
    /\ amt > 0
    /\ FreezingChecks(sender, a, d)
    /\ FrozenBecomes(a, d, frozen[a][d] - amt)

Unfreeze(sender, a, d, amt) ==
    /\ amt > 0
    /\ FreezingChecks(sender, a, d)
    /\ frozen[a][d] >= amt
    /\ FrozenBecomes(a, d, frozen[a][d] - amt)

SetFrozen(sender, a, d, amt) ==
    /\ FreezingChecks(sender, a, d)
    /\ FrozenBecomes(a, d, amt)

SetGlobalFreeze(sender, d, frozenDenoms) ==
    /\ HasDefinition(d)
    /\ IsFeatureAllowed(d, sender, "freezing")
    /\ globallyFrozen' = frozenDenoms
    /\ UNCHANGED <<balances, supply, bankLocked, definitions, frozen, whitelisted, dexLocked,
                   dexExpectedToReceive, dexSettings>>

GloballyFreeze(sender, d) == SetGlobalFreeze(sender, d, globallyFrozen \cup {d})

GloballyUnfreeze(sender, d) == SetGlobalFreeze(sender, d, globallyFrozen \ {d})

SetWhitelistedBalance(sender, a, d, amt) ==
    /\ HasDefinition(d)
    /\ ~ IsAdmin(d, a)
    /\ IsFeatureAllowed(d, sender, "whitelisting")
    /\ whitelisted' = [whitelisted EXCEPT ![a][d] = amt]
    /\ UNCHANGED <<balances, supply, bankLocked, definitions, frozen, globallyFrozen, dexLocked,
                   dexExpectedToReceive, dexSettings>>

-----------------------------------------------------------------------------
(* Administration                                                          *)

DefinitionBecomes(d, def) ==
    /\ definitions' = [definitions EXCEPT ![d] = def]
    /\ UNCHANGED <<balances, supply, bankLocked, frozen, globallyFrozen, whitelisted, dexLocked,
                   dexExpectedToReceive, dexSettings>>

TransferAdmin(sender, a, d) ==
    /\ HasDefinition(d)
    /\ IsAdmin(d, sender)
    /\ DefinitionBecomes(d, [definitions[d] EXCEPT !.admin = a])

\* With nobody to pay a commission to, the commission rate is dropped.
ClearAdmin(sender, d) ==
    /\ HasDefinition(d)
    /\ IsAdmin(d, sender)
    /\ DefinitionBecomes(d, [definitions[d] EXCEPT !.admin = NoAdmin, !.commissionRate = 0])

SettingsBecome(d, settings) ==
    /\ dexSettings' = [dexSettings EXCEPT ![d] = settings]
    /\ UNCHANGED <<balances, supply, bankLocked, definitions, frozen, globallyFrozen, whitelisted,
                   dexLocked, dexExpectedToReceive>>

\* The access rule is evaluated on the merged settings; a stored empty list reads back as nil.
UpdateDEXWhitelistedDenoms(sender, d, denoms) ==
    /\ HasDefinition(d)
    /\ IsAdmin(d, sender)
    /\ ~ IsFeatureEnabled(d, "dex_block")
    /\ IsFeatureEnabled(d, "dex_whitelisted_denoms")
    /\ dexSettings[d].unifiedRefAmount > 0 => IsFeatureEnabled(d, "dex_unified_ref_amount_change")
    /\ SettingsBecome(d, [dexSettings[d] EXCEPT !.whitelistedDenoms = denoms])

UpdateDEXUnifiedRefAmount(sender, d, amt) ==
    /\ amt > 0
    /\ HasDefinition(d)
    /\ IsAdmin(d, sender)
    /\ ~ IsFeatureEnabled(d, "dex_block")
    /\ dexSettings[d].whitelistedDenoms # {} => IsFeatureEnabled(d, "dex_whitelisted_denoms")
    /\ IsFeatureEnabled(d, "dex_unified_ref_amount_change")
    /\ SettingsBecome(d, [dexSettings[d] EXCEPT !.unifiedRefAmount = amt])

\* The governance authority may set anything, for denoms without a definition too.
GovUpdateDEXSettings(d, settings) == SettingsBecome(d, settings)

-----------------------------------------------------------------------------
(* The limits kept for the DEX                                             *)

\* Expected-to-receive amounts are recorded for tokens with whitelisting only.
ShouldRecordExpectedToReceive(d) == IsFeatureEnabled(d, "whitelisting")

LimitsBecome(locked, expected) ==
    /\ dexLocked' = locked
    /\ dexExpectedToReceive' = expected
    /\ UNCHANGED <<balances, supply, bankLocked, definitions, frozen, globallyFrozen, whitelisted,
                   dexSettings>>

DEXIncreaseLocked(a, d, amt) ==
    /\ amt > 0
    /\ NotLockedByDEXAndBank(balances, a, d, amt)
    /\ LimitsBecome([dexLocked EXCEPT ![a][d] = @ + amt], dexExpectedToReceive)

DEXDecreaseLocked(a, d, amt) ==
    /\ amt > 0
    /\ dexLocked[a][d] >= amt
    /\ LimitsBecome([dexLocked EXCEPT ![a][d] = @ - amt], dexExpectedToReceive)

DEXIncreaseExpectedToReceive(a, d, amt) ==
    /\ amt > 0
    /\ ShouldRecordExpectedToReceive(d)
    /\ LimitsBecome(dexLocked, [dexExpectedToReceive EXCEPT ![a][d] = @ + amt])

DEXDecreaseExpectedToReceive(a, d, amt) ==
    /\ amt > 0
    /\ ShouldRecordExpectedToReceive(d)
    /\ dexExpectedToReceive[a][d] >= amt
    /\ LimitsBecome(dexLocked, [dexExpectedToReceive EXCEPT ![a][d] = @ - amt])

\* dex_block, smart contract and global freeze rules, then the denoms it may trade against.
DEXChecksForDenom(a, d, opposite, ctx) ==
    HasDefinition(d) =>
        /\ ~ IsFeatureEnabled(d, "dex_block")
        /\ ~ (/\ IsFeatureEnabled(d, "block_smart_contracts")
              /\ ~ HasAdminPrivileges(d, a)
              /\ ctx.triggeredByContract)
        /\ ~ (/\ IsFeatureEnabled(d, "freezing")
              /\ d \in globallyFrozen
              /\ ~ HasAdminPrivileges(d, a))
        /\ \/ dexSettings[d].whitelistedDenoms = {}
           \/ opposite \in dexSettings[d].whitelistedDenoms

\* What the creator of an order must be able to spend and to receive.
DEXCheckOrderAmounts(a, spendDenom, spend, receiveDenom, receive, ctx) ==
    /\ NotLockedByDEXAndBank(balances, a, spendDenom, spend)
    /\ DEXChecksForDenom(a, spendDenom, receiveDenom, ctx)
    /\ HasDefinition(spendDenom) => ValidateCoinSpendable(balances, a, spendDenom, spend, ctx)
    /\ DEXChecksForDenom(a, receiveDenom, spendDenom, ctx)
    /\ HasDefinition(receiveDenom) => ValidateCoinReceivable(balances, a, receiveDenom, receive, ctx)

ValidateDEXCancelOrdersByDenomIsAllowed(a, d) ==
    /\ HasDefinition(d)
    /\ HasAdminPrivileges(d, a)
    /\ IsFeatureEnabled(d, "dex_order_cancellation")

-----------------------------------------------------------------------------
(* The messages, the passing of time, and the DEX's use of the limits      *)

Users == Accounts \ (ModuleAccounts \cup {Escrow})

TransferNext ==
    \/ \E from, to \in Accounts, d \in Denoms, amt \in Amounts, ctx \in Contexts :
           SendCoins(from, to, d, amt, ctx)
    \/ \E from, to1, to2 \in Users, d \in Denoms, amt1, amt2 \in Amounts :
           InputOutputCoins(from, to1, to2, d, amt1, amt2)
    \/ \E a \in Users, amt \in Amounts : DelegateCoins(a, amt)
    \/ \E a \in Users, d \in Denoms : Vest(a, d)

IssuanceNext ==
    \E d \in Denoms, amt \in Amounts :
        \/ Issue(d, amt)
        \/ \E s \in Users, r \in Accounts : Mint(s, r, d, amt)
        \/ \E s \in Users : Burn(s, d, amt)
        \/ \E s \in Users, a \in Accounts : Clawback(s, a, d, amt)

ControlNext ==
    \E s \in Users, d \in Denoms :
        \/ \E a \in Accounts, amt \in Amounts :
               \/ Freeze(s, a, d, amt)
               \/ Unfreeze(s, a, d, amt)
               \/ SetFrozen(s, a, d, amt)
               \/ SetWhitelistedBalance(s, a, d, amt)
        \/ GloballyFreeze(s, d)
        \/ GloballyUnfreeze(s, d)
        \/ \E a \in Accounts : TransferAdmin(s, a, d)
        \/ ClearAdmin(s, d)

SettingsNext ==
    \E d \in Denoms :
        \/ \E s \in Users, denoms \in SUBSET Denoms : UpdateDEXWhitelistedDenoms(s, d, denoms)
        \/ \E s \in Users, amt \in Amounts : UpdateDEXUnifiedRefAmount(s, d, amt)
        \/ \E settings \in [whitelistedDenoms : SUBSET Denoms, unifiedRefAmount : Amounts] :
               GovUpdateDEXSettings(d, settings)

LimitsNext ==
    \E a \in Users, d \in Denoms, amt \in Amounts :
        \/ DEXIncreaseLocked(a, d, amt)
        \/ DEXDecreaseLocked(a, d, amt)
        \/ DEXIncreaseExpectedToReceive(a, d, amt)
        \/ DEXDecreaseExpectedToReceive(a, d, amt)

MessagesNext == TransferNext \/ IssuanceNext \/ ControlNext \/ SettingsNext

FTNext == MessagesNext \/ LimitsNext

FTSpec == FTInit /\ [][FTNext]_ftVars

-----------------------------------------------------------------------------
(* Properties                                                              *)

\* Every variable has its type; in particular no balance, supply or limit goes negative.
FTTypeOK ==
    /\ balances \in [Accounts -> [Denoms -> Nat]]
    /\ supply \in [Denoms -> Nat]
    /\ bankLocked \in [Accounts -> [Denoms -> Nat]]
    /\ definitions \in [Denoms -> Definition \cup {NoDefinition}]
    /\ frozen \in [Accounts -> [Denoms -> Nat]]
    /\ globallyFrozen \in SUBSET Denoms
    /\ whitelisted \in [Accounts -> [Denoms -> Nat]]
    /\ dexLocked \in [Accounts -> [Denoms -> Nat]]
    /\ dexExpectedToReceive \in [Accounts -> [Denoms -> Nat]]
    /\ dexSettings \in [Denoms -> Settings]

\* What the DEX has locked for an account, on top of what vesting keeps locked, stays in the
\* account: no send (with its commission and burn), burn, clawback, issue fee or delegation
\* takes a coin that validateCoinIsNotLockedByDEXAndBank or beforeDelegateCoins protects.
LockedIsCovered ==
    \A a \in Accounts, d \in Denoms : dexLocked[a][d] + bankLocked[a][d] <= balances[a][d]

\* The supply the bank reports is the sum of the balances, through rates that burn, issue fees
\* burned in another denom, and multi-sends that burn twice.
SupplyIsTheSumOfBalances ==
    \A d \in Denoms : supply[d] = Total(balances, d)

ClawbackStep ==
    \E s \in Users, a \in Accounts, d \in Denoms, amt \in Amounts : Clawback(s, a, d, amt)

RefundStep ==
    \E to \in Accounts, d \in Denoms, amt \in Amounts, p \in {"ack", "timeout"} :
        SendCoins(Escrow, to, d, amt, [purpose |-> p, triggeredByContract |-> FALSE])

\* A freeze keeps coins where they are, whatever rates the token charges: a step that lowers the
\* balance of an account leaves the frozen amount, and under global freeze no step lowers it,
\* unless the admin claws coins back. Escrowed coins are released by IBC refunds.
FrozenStaysPut ==
    [][\A a \in Accounts \ {Escrow}, d \in Denoms :
          (/\ balances'[a][d] < balances[a][d]
           /\ IsFeatureEnabled(d, "freezing") /\ ~ HasAdminPrivileges(d, a))
          => ClawbackStep \/ (d \notin globallyFrozen /\ balances'[a][d] >= frozen[a][d])]_ftVars

\* An account that is not the admin never ends a step with more of a whitelisted token, held or
\* expected from its orders, than its limit, unless it held as much before: only IBC refunds and
\* escrowing ignore the limit.
WhitelistLimitsReceipts ==
    [][\A a \in Accounts \ {Escrow}, d \in Denoms :
          (/\ balances'[a][d] > balances[a][d]
           /\ IsFeatureEnabled(d, "whitelisting") /\ ~ HasAdminPrivileges(d, a)
           /\ balances'[a][d] + dexExpectedToReceive'[a][d] > whitelisted[a][d])
          => RefundStep]_ftVars
=============================================================================
