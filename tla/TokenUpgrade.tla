---------------------------- MODULE TokenUpgrade ----------------------------
(***************************************************************************)
(* The upgrade of tokens to version 1 (x/asset/ft/keeper/                  *)
(* token_upgradev1.go, token_upgrade.go): the admin decides whether the    *)
(* token gets the ibc feature; without it the version changes at once,     *)
(* with it the change waits for a grace period as a delayed message.       *)
(***************************************************************************)
EXTENDS AssetFT, Delay

CONSTANTS
    DecisionTimeout,  \* Params.TokenUpgradeDecisionTimeout, in ticks
    GracePeriod,      \* Params.TokenUpgradeGracePeriod, in ticks
    GenesisVersions   \* the version of every token at genesis

ASSUME UpgradeAssumption ==
    /\ DecisionTimeout \in Nat /\ GracePeriod \in Nat
    /\ GenesisVersions \in [Denoms -> {0, 1}]

VARIABLES
    versions,         \* Definition.Version
    pendingUpgrades,  \* the denoms with a pending version
    upgradeStatuses   \* TokenUpgradeStatuses.V1, for queries

upgradeVars == <<versions, pendingUpgrades, upgradeStatuses>>

NoStatus == [ibcEnabled |-> FALSE, start |-> 0, end |-> 0]

UpgradeInit ==
    /\ versions = GenesisVersions
    /\ pendingUpgrades = {}
    /\ upgradeStatuses = [d \in Denoms |-> NoStatus]

\* The items of the delay keeper that carry a DelayedTokenUpgradeV1.
UpgradeItems == {i \in delayedItems : i.data \in Denoms}

\* Mutant: a pending upgrade does not prevent another one.
CanUpgradeAgain(sender, d) ==
    /\ blockTime <= DecisionTimeout
    /\ HasDefinition(d)
    /\ HasAdminPrivileges(d, sender)
    /\ versions[d] < 1

CanUpgrade(sender, d) ==
    /\ blockTime <= DecisionTimeout
    /\ HasDefinition(d)
    /\ HasAdminPrivileges(d, sender)
    /\ versions[d] < 1
    /\ d \notin pendingUpgrades

\* ibcEnabled is FALSE: the definition is saved with the new version and the pending version,
\* set before, is cleared again.
UpgradeAtOnce(sender, d) ==
    /\ CanUpgrade(sender, d)
    /\ versions' = [versions EXCEPT ![d] = 1]
    /\ upgradeStatuses' = [upgradeStatuses EXCEPT ![d] =
                              [ibcEnabled |-> FALSE, start |-> blockTime, end |-> blockTime]]
    /\ UNCHANGED <<ftVars, delayVars, pendingUpgrades>>

\* ibcEnabled is TRUE.
UpgradeAfterGracePeriod(sender, d) ==
    LET end == blockTime + GracePeriod
    IN  /\ CanUpgrade(sender, d)
        /\ ~ HasItem(delayedItems, Unix(end), d)
        /\ pendingUpgrades' = pendingUpgrades \cup {d}
        /\ upgradeStatuses' = [upgradeStatuses EXCEPT ![d] =
                                  [ibcEnabled |-> TRUE, start |-> blockTime, end |-> end]]
        /\ delayedItems' = WithItem(delayedItems, Unix(end), d, d)
        /\ UNCHANGED <<ftVars, blockTime, blockHeight, phase, blockItems, versions>>

AddDelayedTokenUpgradeV1(sender, d) ==
    UpgradeAtOnce(sender, d) \/ UpgradeAfterGracePeriod(sender, d)

\* Mutant: only the version of the definition changes.
DefinitionWithoutFeature(d) == definitions[d]

\* The feature is added to the definition of now, unless it is there already.
UpgradedDefinition(d) == [definitions[d] EXCEPT !.features = @ \cup {"ibc"}]

\* NewDelayTokenUpgradeV1Handler, run by BeginBlock. The definition is read again: what the admin
\* changed meanwhile is kept.
UpgradeTokenToV1(item) ==
    LET d == item.data
    IN  /\ phase = "begin"
        /\ item \in NextItems /\ item \in UpgradeItems
        /\ IF HasDefinition(d)
           THEN /\ DefinitionBecomes(d, UpgradedDefinition(d))
                /\ versions' = [versions EXCEPT ![d] = 1]
                /\ pendingUpgrades' = pendingUpgrades \ {d}
                /\ delayedItems' = delayedItems \ {item}
                /\ UNCHANGED <<blockTime, blockHeight, phase, blockItems, upgradeStatuses>>
           ELSE HaltBegin /\ UNCHANGED <<ftVars, upgradeVars>>

-----------------------------------------------------------------------------
\* A token has a pending version exactly while one delayed upgrade is stored for it, at the second
\* in which its grace period ends, and only old tokens do: a second request, a request after the
\* upgrade, or an upgrade executed twice would all leave the two stores apart.
UpgradeIsScheduled ==
    /\ pendingUpgrades = {i.data : i \in UpgradeItems}
    /\ \A i, j \in UpgradeItems : i.data = j.data => i = j
    /\ \A d \in pendingUpgrades : versions[d] = 0 /\ HasDefinition(d)
=============================================================================
