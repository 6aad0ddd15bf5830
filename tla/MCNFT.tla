------------------------------- MODULE MCNFT -------------------------------
(* Two classes for TLC: art, with the rules an owner can run into, and       *)
(* badge, whose tokens are soulbound. The issuer pays the mint fee.          *)
EXTENDS NFT, TLC

CONSTANTS issuer, alice, bob, pool, escrow, core, art, badge

MCAccounts == {issuer, alice, bob, pool, escrow}

MCNoDefinitions == [d \in {core} |-> NoDefinition]

Holding(amount) ==
    [a \in MCAccounts |-> [d \in {core} |-> IF a = issuer THEN amount ELSE 0]]

MCBalances == Holding(1)

MCNoLocks == Holding(0)

MCClasses ==
    (art :> [issuer |-> issuer, features |-> {"burning", "freezing", "whitelisting"}])
    @@ (badge :> [issuer |-> issuer, features |-> {"burning", "soulbound", "freezing"}])

\* One item each for the issuer and the owner, and one that nobody edits.
MCMintable == {<<[editors |-> {"admin"}, data |-> 0], [editors |-> {}, data |-> 0]>>,
               <<[editors |-> {"owner"}, data |-> 0]>>}

\* The badge's rules do not depend on its data.
NFTBounds ==
    /\ \A a \in MCAccounts : <<badge, a>> \notin classFrozen
    /\ \A t \in NFTs : t[1] = badge => Len(data[t]) < 2

MCNFTNext == NFTNext /\ NFTBounds'

MCNFTInit == FTInit /\ NFTInit

MCNFTSpec == MCNFTInit /\ [][MCNFTNext]_<<ftVars, nftVars>>

\* The mint fee beside a DEX lock.
FeeNext == (NFTNext \/ (LimitsNext /\ UNCHANGED nftVars)) /\ NFTBounds'

FeeSpec == MCNFTInit /\ [][FeeNext]_<<ftVars, nftVars>>
=============================================================================
