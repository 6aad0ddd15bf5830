------------------------------- MODULE Chain -------------------------------
(***************************************************************************)
(* The exchange, its order book IDs and the token upgrades on one chain:   *)
(* they share the token definitions, the delay keeper's store and the      *)
(* block that executes what is due, and they are exported to a genesis     *)
(* file and imported again together (x/dex/genesis.go, x/asset/ft/         *)
(* genesis.go, x/delay/genesis.go, app/export.go).                         *)
(***************************************************************************)
EXTENDS DEX, TokenUpgrade, OrderBookIDs

\* The delay keeper finds the handler of an item by the type of its message: a cancellation holds
\* a sequence and an account, an upgrade holds a denom. Every denom may have books.
ASSUME ChainAssumption ==
    /\ Denoms \cap Accounts = {}
    /\ Denoms \cap Nat = {}
    /\ Denoms \subseteq TradedDenoms

chainVars == <<vars, upgradeVars, bookIDVars>>

ChainInit == DEXInit /\ UpgradeInit /\ BookIDsInit

-----------------------------------------------------------------------------
(* Blocks and messages                                                     *)

\* A placement that commits has given its pair of denoms their book IDs.
PlacementNext ==
    /\ \/ /\ ApplyMatchingResult \/ CloseUnexecuted
          /\ getOrGenOrderBookIDs(<<tx.order.base, tx.order.quote>>)
       \/ /\ \/ \E a \in Users, id \in OrderIDs, o \in Orders : PlaceOrder(a, id, o)
             \/ \E s \in Sequences : MatchRecords(s)
             \/ RejectOrder
          /\ UNCHANGED bookIDVars
    /\ UNCHANGED upgradeVars

MessageNext == (CancelNext \/ ParamsNext) /\ UNCHANGED <<upgradeVars, bookIDVars>>

UpgradeNext ==
    /\ phase = "deliver" /\ ~ tx.active
    /\ \E sender \in Users, d \in Denoms : AddDelayedTokenUpgradeV1(sender, d)
    /\ UNCHANGED <<dexVars, bookIDVars>>

\* The admin gives the token up, also while its upgrade is pending.
AdminNext ==
    /\ phase = "deliver" /\ ~ tx.active
    /\ \E sender \in Users, d \in Denoms : ClearAdmin(sender, d)
    /\ UNCHANGED <<delayVars, dexVars, upgradeVars, bookIDVars>>

\* The router of the delay keeper finds the handler by the type of the message.
ExecuteNext ==
    \/ \E item \in NextItems \cap UpgradeItems :
           UpgradeTokenToV1(item) /\ UNCHANGED <<dexVars, bookIDVars>>
    \/ \E item \in NextItems \ UpgradeItems :
           ExecuteItem(item) /\ UNCHANGED <<upgradeVars, bookIDVars>>

BlocksNext ==
    \/ ExecuteNext
    \/ /\ \/ \E elapsed \in BlockTimes : NewBlock(elapsed) /\ ~ tx.active
          \/ FinishBegin
       /\ UNCHANGED <<ftVars, dexVars, upgradeVars, bookIDVars>>

-----------------------------------------------------------------------------
(* Export and import                                                       *)

\* Mutant: the exported orders have no reserve.
ExportedReserveOf(s) == NoCoin

\* The reserve an order is exported with.
ExportedReserve(s) == orderData[s].reserve

\* GetAccountsOrders follows the ID index to the data of the order and from there to its record.
GetAccountsOrders ==
    LET Exported(a, s) ==
            [creator |-> a, id |-> records[s].id, sequence |-> s, base |-> orderData[s].base,
             quote |-> orderData[s].quote, side |-> orderData[s].side,
             price |-> orderData[s].price, quantity |-> orderData[s].quantity,
             goodTil |-> orderData[s].goodTil, reserve |-> ExportedReserve(s),
             remBase |-> records[s].remBase, remSpend |-> records[s].remSpend]
    IN  {Exported(p[1], orderIDToSequence[p[1]][p[2]]) :
            p \in {q \in Accounts \X OrderIDs : orderIDToSequence[q[1]][q[2]] \in Sequences}}

\* No lookup of the export fails, and GenesisState.Validate accepts what it returns.
CanExport ==
    /\ \A a \in Accounts, i \in OrderIDs :
          orderIDToSequence[a][i] # 0 => IsFound(orderIDToSequence[a][i])
    /\ ValidParams(params)
    /\ \A o \in GetAccountsOrders :
          /\ <<o.base, o.quote>> \in OrderBooks
          /\ \A p \in GetAccountsOrders : p.sequence = o.sequence => p = o
          /\ o.quantity > 0 /\ o.price.num > 0 /\ o.base # o.quote

\* What InitGenesis saves for one order.
ImportedRecord(o) ==
    [base |-> o.base, quote |-> o.quote, side |-> o.side, price |-> o.price, id |-> o.id,
     creator |-> o.creator, remBase |-> o.remBase, remSpend |-> o.remSpend]

ImportedData(o) ==
    [id |-> o.id, base |-> o.base, quote |-> o.quote, side |-> o.side, price |-> o.price,
     quantity |-> o.quantity, goodTil |-> o.goodTil, reserve |-> o.reserve]

ImportOrders(orders) ==
    LET At(s) == {o \in orders : o.sequence = s}
    IN  /\ records' = [s \in Sequences |-> IF At(s) = {} THEN NoRecord
                                           ELSE ImportedRecord(CHOOSE o \in At(s) : TRUE)]
        /\ orderData' = [s \in Sequences |-> IF At(s) = {} THEN NoOrderData
                                             ELSE ImportedData(CHOOSE o \in At(s) : TRUE)]
        /\ orderIDToSequence' =
               [a \in Accounts |-> [i \in OrderIDs |->
                   LET own == {o \in orders : o.creator = a /\ o.id = i}
                   IN  IF own = {} THEN 0 ELSE (CHOOSE o \in own : TRUE).sequence]]
        /\ accountDenomOrders' = UNION {{<<o.creator, o.base, o.sequence>>,
                                         <<o.creator, o.quote, o.sequence>>} : o \in orders}

\* GetAccountsDenomsOrdersCounts, and SetAccountDenomOrdersCount for each of them.
ImportedCounts == ordersCount

\* ExportReserveOrderIDs returns the keys, ImportReservedOrderIDs sets them.
ImportedReservedIDs == reservedIDs

\* A store of amounts is exported as the coins above zero of each account, which are set again.
ImportedAmounts(store) ==
    LET coins == {[address |-> p[1], denom |-> p[2], amount |-> store[p[1]][p[2]]] :
                     p \in {q \in Accounts \X Denoms : store[q[1]][q[2]] > 0}}
        Of(a, d) == {c \in coins : c.address = a /\ c.denom = d}
    IN  [a \in Accounts |-> [d \in Denoms |->
            IF Of(a, d) = {} THEN 0 ELSE (CHOOSE c \in Of(a, d) : TRUE).amount]]

\* The InitGenesis of x/asset/ft; the bank keeps its own balances.
ImportTokens ==
    /\ frozen' = ImportedAmounts(frozen)
    /\ whitelisted' = ImportedAmounts(whitelisted)
    /\ dexLocked' = ImportedAmounts(dexLocked)
    /\ dexExpectedToReceive' = ImportedAmounts(dexExpectedToReceive)
    /\ UNCHANGED <<balances, supply, bankLocked, definitions, globallyFrozen, dexSettings, versions>>

\* Pending versions are set again, for the denoms they were exported with.
ImportPendingTokenUpgrades ==
    LET exported == {[denom |-> d, version |-> 1] : d \in pendingUpgrades}
    IN  pendingUpgrades' = {u.denom : u \in exported}

\* An item is exported with the time of its key.
ImportedItems(items) == {[at |-> i.at, id |-> i.id, data |-> i.data] : i \in items}

\* A new chain is started from the exported state: everything is written again. The statuses of
\* token upgrades are the one store that the genesis state does not hold.
Restart ==
    /\ phase = "deliver" /\ ~ tx.active
    /\ CanExport
    /\ ImportOrders(GetAccountsOrders)
    /\ ordersCount' = ImportedCounts
    /\ ImportOrderBooks
    /\ reservedIDs' = ImportedReservedIDs
    /\ ImportTokens
    /\ ImportPendingTokenUpgrades
    /\ delayedItems' = ImportedItems(delayedItems)
    /\ blockItems' = ImportedItems(blockItems)
    /\ upgradeStatuses' = [d \in Denoms |-> NoStatus]
    /\ UNCHANGED <<orderSequence, params, tx, blockTime, blockHeight, phase>>

ChainNext == PlacementNext \/ MessageNext \/ UpgradeNext \/ AdminNext \/ BlocksNext \/ Restart

ChainSpec == ChainInit /\ [][ChainNext]_chainVars

\* A block holds finitely many transactions, so it ends however often the chain is inside one
\* (strong fairness); BeginBlock runs what is due; a transaction in a block is executed.
ChainFairness ==
    /\ SF_chainVars(BlocksNext)
    /\ WF_chainVars(tx.active /\ PlacementNext)

LiveChainSpec == ChainSpec /\ ChainFairness

-----------------------------------------------------------------------------
(* Properties                                                              *)

\* A chain started from an exported state goes on where the exported one stopped: between two
\* transactions the export always succeeds and validates, and the import rebuilds every record,
\* index, counter, limit and delayed message as it was.
RestartIsTransparent ==
    /\ [](phase = "deliver" /\ ~ tx.active => CanExport)
    /\ [][Restart => UNCHANGED <<vars, bookIDVars, versions, pendingUpgrades>>]_chainVars

\* A delayed message is executed less than a second before the time it was asked for: keys hold
\* whole seconds, the time of an order and the end of a grace period do not.
NothingRunsEarly ==
    [][\A item \in DueDelayedItems :
          item \notin delayedItems' /\ phase = "begin" =>
              IF item \in UpgradeItems
              THEN upgradeStatuses[item.data] # NoStatus =>
                       blockTime > upgradeStatuses[item.data].end - TicksPerSecond
              ELSE blockTime > orderData[item.id].goodTil.time - TicksPerSecond]_chainVars

\* An upgrade that was accepted is carried out, whatever the admin does to the token meanwhile,
\* provided blocks keep being produced.
UpgradesHappen ==
    \A d \in Denoms : d \in pendingUpgrades ~> versions[d] = 1 /\ IsFeatureEnabled(d, "ibc")
=============================================================================
