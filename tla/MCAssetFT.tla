----------------------------- MODULE MCAssetFT -----------------------------
(* Two small ledgers for TLC: an issuer, a holder, a smart contract, the     *)
(* escrow address and the bonded pool; the bond denom and one token with     *)
(* the features a holder can run into.                                       *)
EXTENDS AssetFT, TLC

CONSTANTS issuer, holder, contract, escrow, pool, core, token

MCAccounts == {issuer, holder, contract, escrow, pool}

MCDenoms == {core, token}

MCToken ==
    [features |-> {"minting", "burning", "freezing", "whitelisting", "ibc", "clawback",
                   "block_smart_contracts"},
     issuer |-> issuer, admin |-> issuer, burnRate |-> 1, commissionRate |-> 1]

\* For the second ledger: no transfer rules, but the settings can change.
MCTradable ==
    [features |-> {"dex_whitelisted_denoms", "dex_unified_ref_amount_change"},
     issuer |-> issuer, admin |-> issuer, burnRate |-> 1, commissionRate |-> 0]

MCUndefined == [d \in MCDenoms |-> NoDefinition]

MCDefined == (core :> NoDefinition) @@ (token :> MCToken)

MCIssuable == (core :> NoDefinition) @@ (token :> MCTradable)

Holding(holdings) ==
    [a \in MCAccounts |-> [d \in MCDenoms |->
        IF <<a, d>> \in DOMAIN holdings THEN holdings[<<a, d>>] ELSE 0]]

NoHolding == Holding(<<>>)

-----------------------------------------------------------------------------
(* The token ledger: the token exists, the bond denom is not used.           *)

LedgerBalances == Holding((<<issuer, token>> :> 2) @@ (<<holder, token>> :> 2))

CONSTANTS MaxTokenSupply, MaxFrozen, MaxLocked, MaxBondLocked, MaxExpected

MaxContractLimit == 1

LedgerBounds ==
    /\ supply[token] <= MaxTokenSupply
    /\ \A a \in MCAccounts :
          /\ frozen[a][token] <= IF a = holder THEN MaxFrozen ELSE 0
          /\ dexLocked[a][token] <= IF a = holder THEN MaxLocked ELSE 0
          /\ dexExpectedToReceive[a][token] <= IF a = holder THEN MaxExpected ELSE 0
          /\ a \notin {holder, contract} => whitelisted[a][token] = 0
          /\ a = contract => whitelisted[a][token] <= MaxContractLimit
          /\ bankLocked[a][token] = 0
    /\ definitions[token].admin \in {issuer, holder, NoAdmin}

LedgerNext == (TransferNext \/ IssuanceNext \/ ControlNext \/ LimitsNext) /\ LedgerBounds'

-----------------------------------------------------------------------------
(* The bond denom: vesting, delegation, issue fee, DEX settings.             *)

BondBalances == Holding((<<issuer, core>> :> 2) @@ (<<holder, core>> :> 3))

BondVesting == Holding(<<holder, core>> :> 2)

BondBounds ==
    /\ supply[token] <= 1
    /\ \A a \in MCAccounts, d \in MCDenoms :
          /\ dexLocked[a][d] <= IF a = holder /\ d = core THEN MaxBondLocked ELSE 0
          /\ balances[a][d] > 0 => a \notin {contract, escrow}
    /\ definitions[token].admin \in {issuer, NoAdmin}
    /\ \A d \in MCDenoms :
          /\ dexSettings[d].unifiedRefAmount <= 1
          /\ dexSettings[d].whitelistedDenoms \in {{}, {core}}

BondNext == (TransferNext \/ IssuanceNext \/ SettingsNext \/ LimitsNext \/
             \E s \in Users, d \in Denoms : ClearAdmin(s, d)) /\ BondBounds'

-----------------------------------------------------------------------------
(* Either ledger: the features of the token tell which one it is.            *)

IsTokenLedger == definitions[token].features = MCToken.features

LedgersInit == FTInit \/ StartsWith(BondBalances, BondVesting, MCUndefined)

LedgersNext ==
    \/ IsTokenLedger /\ LedgerNext
    \/ ~ IsTokenLedger /\ BondNext

LedgerSpec == LedgersInit /\ [][LedgersNext]_ftVars
=============================================================================
