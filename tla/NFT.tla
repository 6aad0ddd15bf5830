-------------------------------- MODULE NFT --------------------------------
(***************************************************************************)
(* The non-fungible tokens: x/asset/nft/keeper on top of the SDK's nft     *)
(* module, with x/wnft routing every transfer through its hooks. A mint    *)
(* fee is taken from the token ledger (AssetFT).                           *)
(*                                                                         *)
(* The class issuer plays the admin: there is no admin of a class yet. A   *)
(* class ID contains its issuer, so Issuable classes are given per ID.     *)
(***************************************************************************)
EXTENDS AssetFT, Sequences

CONSTANTS
    Classes,          \* class IDs
    TokenIDs,         \* IDs of tokens within a class
    NoClass,          \* no class definition
    IssuableClasses,  \* the definition MsgIssueClass gives each class
    Mintable,         \* the data MsgMint may carry
    DataValues,       \* contents of a dynamic data item
    MintFees          \* values governance gives Params.MintFee, in BondDenom

ClassFeatures == {"burning", "freezing", "whitelisting", "disable_sending", "soulbound"}

ClassDefinition == [issuer : Accounts, features : SUBSET ClassFeatures]

\* DataDynamic: a sequence of items. Absent data and DataBytes, which never change, are <<>>.
Item == [editors : SUBSET {"admin", "owner"}, data : DataValues]

NFTs == Classes \X TokenIDs

ASSUME ClassesAssumption ==
    /\ IssuableClasses \in [Classes -> ClassDefinition]
    /\ NoClass \notin ClassDefinition
    /\ Mintable \subseteq Seq(Item)
    /\ MintFees \subseteq Nat

VARIABLES
    classes,           \* class definitions
    owner,             \* the owner of each token, NoAdmin for a token that does not exist
    data,              \* its data
    nftFrozen,         \* frozen tokens
    classFrozen,       \* <<class, account>>: the account is frozen for the class
    nftWhitelisted,    \* <<token, account>>
    classWhitelisted,  \* <<class, account>>
    burnt,             \* tokens that were burnt
    mintFee            \* Params.MintFee

nftVars == <<classes, owner, data, nftFrozen, classFrozen, nftWhitelisted, classWhitelisted, burnt,
             mintFee>>

NFTInit ==
    /\ classes = [c \in Classes |-> NoClass]
    /\ owner = [t \in NFTs |-> NoAdmin]
    /\ data = [t \in NFTs |-> <<>>]
    /\ nftFrozen = {}
    /\ classFrozen = {}
    /\ nftWhitelisted = {}
    /\ classWhitelisted = {}
    /\ burnt = {}
    /\ mintFee = 0

-----------------------------------------------------------------------------
(* Classes and permissions                                                 *)

HasClass(c) == classes[c] # NoClass

HasNFT(t) == owner[t] # NoAdmin

IsIssuer(c, a) == classes[c].issuer = a

IsClassFeatureEnabled(c, f) == f \in classes[c].features

\* The issuer may always burn, everyone when burning is enabled; the other features are for the
\* issuer only.
CheckFeatureAllowed(c, a, f) ==
    IF f = "burning" THEN IsIssuer(c, a) \/ IsClassFeatureEnabled(c, f)
    ELSE IsIssuer(c, a) /\ IsClassFeatureEnabled(c, f)

\* Both the token and its owner's holdings of the class can be frozen.
IsFrozen(t) ==
    /\ IsClassFeatureEnabled(t[1], "freezing")
    /\ t \in nftFrozen \/ <<t[1], owner[t]>> \in classFrozen

IsWhitelisted(t, a) == <<t, a>> \in nftWhitelisted \/ <<t[1], a>> \in classWhitelisted

\* Mutant: the owner's class freeze is ignored.
ValidateSendableUnlessTokenFrozen(t) ==
    \/ IsIssuer(t[1], owner[t])
    \/ /\ ~ IsClassFeatureEnabled(t[1], "disable_sending")
       /\ ~ IsClassFeatureEnabled(t[1], "soulbound")
       /\ ~ (IsClassFeatureEnabled(t[1], "freezing") /\ t \in nftFrozen)

\* The issuer may send whatever it owns.
ValidateSendableNFT(t) ==
    \/ IsIssuer(t[1], owner[t])
    \/ /\ ~ IsClassFeatureEnabled(t[1], "disable_sending")
       /\ ~ IsClassFeatureEnabled(t[1], "soulbound")
       /\ ~ IsFrozen(t)

ValidateReceivableNFT(t, a) ==
    IsIssuer(t[1], a) \/ (IsClassFeatureEnabled(t[1], "whitelisting") => IsWhitelisted(t, a))

-----------------------------------------------------------------------------
(* Issuing, minting, burning, sending                                      *)

IssueClass(c) ==
    /\ ~ HasClass(c)
    /\ classes' = [classes EXCEPT ![c] = IssuableClasses[c]]
    /\ UNCHANGED <<ftVars, owner, data, nftFrozen, classFrozen, nftWhitelisted, classWhitelisted,
                   burnt, mintFee>>

\* Mutant: anybody may receive a mint.
CanReceiveMintUnchecked(c, recipient) == TRUE

\* Only a whitelisting of the whole class lets somebody other than the issuer receive a mint.
CanReceiveMint(c, recipient) ==
    IsClassFeatureEnabled(c, "whitelisting") /\ ~ IsIssuer(c, recipient)
        => <<c, recipient>> \in classWhitelisted

\* Mutant: burnt IDs are not looked up.
IsFreshID(t) == ~ HasNFT(t)

\* The ID is neither in use nor burnt.
IsMintableID(t) == ~ HasNFT(t) /\ t \notin burnt

\* Mutant: the fee is not compared with the balance.
MintFeeUnchecked(sender) == TRUE

\* The fee goes through the bank keeper without the transfer hooks, and is burned.
CanPayMintFee(sender) == CanMove(balances, sender, BondDenom, mintFee)

MintNFT(sender, recipient, t, items) ==
    LET c == t[1]
    IN  /\ HasClass(c)
        /\ IsIssuer(c, sender)
        /\ CanReceiveMint(c, recipient)
        /\ IsMintableID(t)
        /\ CanPayMintFee(sender)
        /\ owner' = [owner EXCEPT ![t] = recipient]
        /\ data' = [data EXCEPT ![t] = items]
        /\ balances' = Take(balances, sender, BondDenom, mintFee)
        /\ supply' = Burnt(BondDenom, mintFee)
        /\ UNCHANGED <<bankLocked, definitions, frozen, globallyFrozen, whitelisted, dexLocked,
                       dexExpectedToReceive, dexSettings>>
        /\ UNCHANGED <<classes, nftFrozen, classFrozen, nftWhitelisted, classWhitelisted, burnt,
                       mintFee>>

\* Burning cleans the freezing record; the whitelisting records of the token stay.
FrozenAfterBurn(t) == nftFrozen \ {t}

\* validateBurnableNFT: a frozen token may be burnt by the issuer only.
BurnNFT(sender, t) ==
    /\ HasClass(t[1])
    /\ CheckFeatureAllowed(t[1], sender, "burning")
    /\ HasNFT(t)
    /\ owner[t] = sender
    /\ IsFrozen(t) => IsIssuer(t[1], sender)
    /\ t \notin burnt
    /\ nftFrozen' = FrozenAfterBurn(t)
    /\ owner' = [owner EXCEPT ![t] = NoAdmin]
    /\ data' = [data EXCEPT ![t] = <<>>]
    /\ burnt' = burnt \cup {t}
    /\ UNCHANGED <<ftVars, classes, classFrozen, nftWhitelisted, classWhitelisted, mintFee>>

\* x/wnft: the sender owns the token, then the hooks of the asset module run.
Transfer(sender, t, receiver) ==
    /\ HasNFT(t)
    /\ owner[t] = sender
    /\ ValidateSendableNFT(t)
    /\ ValidateReceivableNFT(t, receiver)
    /\ owner' = [owner EXCEPT ![t] = receiver]
    /\ UNCHANGED <<ftVars, classes, data, nftFrozen, classFrozen, nftWhitelisted, classWhitelisted,
                   burnt, mintFee>>

\* Mutant: it does not look at who edits.
IsAnyUpdateAllowed(sender, t, item) == TRUE

IsDataDynamicItemUpdateAllowed(sender, t, item) ==
    \/ "admin" \in item.editors /\ IsIssuer(t[1], sender)
    \/ "owner" \in item.editors /\ owner[t] = sender

Updated(items, update) ==
    [i \in DOMAIN items |->
        IF i \in DOMAIN update THEN [editors |-> items[i].editors, data |-> update[i]] ELSE items[i]]

\* All items of the message are updated, or none. Frozen tokens are not updated, the issuer's
\* own included.
UpdateData(sender, t, update) ==
    /\ HasNFT(t)
    /\ ~ IsFrozen(t)
    /\ DOMAIN update # {} /\ DOMAIN update \subseteq DOMAIN data[t]
    /\ \A i \in DOMAIN update : IsDataDynamicItemUpdateAllowed(sender, t, data[t][i])
    /\ data' = [data EXCEPT ![t] = Updated(data[t], update)]
    /\ UNCHANGED <<ftVars, classes, owner, nftFrozen, classFrozen, nftWhitelisted,
                   classWhitelisted, burnt, mintFee>>

-----------------------------------------------------------------------------
(* Freezing and whitelisting                                               *)

\* freezeOrUnfreeze
NFTFrozenBecomes(sender, t, tokens) ==
    /\ HasClass(t[1])
    /\ CheckFeatureAllowed(t[1], sender, "freezing")
    /\ HasNFT(t)
    /\ nftFrozen' = tokens
    /\ UNCHANGED <<ftVars, classes, owner, data, classFrozen, nftWhitelisted, classWhitelisted,
                   burnt, mintFee>>

FreezeNFT(sender, t) == NFTFrozenBecomes(sender, t, nftFrozen \cup {t})

UnfreezeNFT(sender, t) == NFTFrozenBecomes(sender, t, nftFrozen \ {t})

\* classFreezeOrUnfreeze
ClassFrozenBecomes(sender, a, c, accounts) ==
    /\ HasClass(c)
    /\ CheckFeatureAllowed(c, sender, "freezing")
    /\ ~ IsIssuer(c, a)
    /\ classFrozen' = accounts
    /\ UNCHANGED <<ftVars, classes, owner, data, nftFrozen, nftWhitelisted, classWhitelisted, burnt,
                   mintFee>>

ClassFreeze(sender, a, c) == ClassFrozenBecomes(sender, a, c, classFrozen \cup {<<c, a>>})

ClassUnfreeze(sender, a, c) == ClassFrozenBecomes(sender, a, c, classFrozen \ {<<c, a>>})

\* addToWhitelistOrRemoveFromWhitelist
NFTWhitelistedBecomes(sender, a, t, entries) ==
    /\ HasClass(t[1])
    /\ CheckFeatureAllowed(t[1], sender, "whitelisting")
    /\ HasNFT(t)
    /\ ~ IsIssuer(t[1], a)
    /\ nftWhitelisted' = entries
    /\ UNCHANGED <<ftVars, classes, owner, data, nftFrozen, classFrozen, classWhitelisted, burnt,
                   mintFee>>

AddToWhitelist(sender, a, t) == NFTWhitelistedBecomes(sender, a, t, nftWhitelisted \cup {<<t, a>>})

RemoveFromWhitelist(sender, a, t) == NFTWhitelistedBecomes(sender, a, t, nftWhitelisted \ {<<t, a>>})

\* addToWhitelistOrRemoveFromWhitelistClass
ClassWhitelistedBecomes(sender, a, c, entries) ==
    /\ HasClass(c)
    /\ CheckFeatureAllowed(c, sender, "whitelisting")
    /\ ~ IsIssuer(c, a)
    /\ classWhitelisted' = entries
    /\ UNCHANGED <<ftVars, classes, owner, data, nftFrozen, classFrozen, nftWhitelisted, burnt,
                   mintFee>>

AddToClassWhitelist(sender, a, c) ==
    ClassWhitelistedBecomes(sender, a, c, classWhitelisted \cup {<<c, a>>})

RemoveFromClassWhitelist(sender, a, c) ==
    ClassWhitelistedBecomes(sender, a, c, classWhitelisted \ {<<c, a>>})

UpdateNFTParams(fee) ==
    /\ mintFee' = fee
    /\ UNCHANGED <<ftVars, classes, owner, data, nftFrozen, classFrozen, nftWhitelisted,
                   classWhitelisted, burnt>>

-----------------------------------------------------------------------------
(* Export and import of the genesis state                                  *)

\* What is exported of the marks: those of tokens and classes that the nft module has, and all
\* frozen and burnt IDs.
GetWhitelistedAccounts == {w \in nftWhitelisted : HasNFT(w[1])}

GetAllClassWhitelistedAccounts == {w \in classWhitelisted : HasClass(w[1])}

GetAllClassFrozenAccounts == {f \in classFrozen : HasClass(f[1])}

GetFrozenNFTs == nftFrozen

GetBurntNFTs == burnt

\* The chain is restarted from its exported state. SetFrozen writes without a check; SetBurnt fails,
\* and with it InitGenesis, on a burnt token that the nft module has.
RestartNFT ==
    /\ \A t \in GetBurntNFTs : ~ HasNFT(t)
    /\ nftWhitelisted' = GetWhitelistedAccounts
    /\ classWhitelisted' = GetAllClassWhitelistedAccounts
    /\ classFrozen' = GetAllClassFrozenAccounts
    /\ nftFrozen' = GetFrozenNFTs
    /\ burnt' = GetBurntNFTs
    /\ UNCHANGED <<ftVars, classes, owner, data, mintFee>>

-----------------------------------------------------------------------------

Updates(t) == UNION {[I -> DataValues] : I \in SUBSET (DOMAIN data[t])}

OwnershipNext ==
    \/ \E c \in Classes : IssueClass(c)
    \/ \E t \in NFTs, s \in Users :
          \/ \E r \in Users, items \in Mintable : MintNFT(s, r, t, items)
          \/ BurnNFT(s, t)
          \/ \E r \in Users : Transfer(s, t, r)
          \/ \E update \in Updates(t) : UpdateData(s, t, update)

RulesNext ==
    \E s \in Users :
        \/ \E t \in NFTs :
              \/ FreezeNFT(s, t)
              \/ UnfreezeNFT(s, t)
              \/ \E a \in Users : AddToWhitelist(s, a, t)
              \/ \E a \in Users : RemoveFromWhitelist(s, a, t)
        \/ \E c \in Classes, a \in Users :
              \/ ClassFreeze(s, a, c)
              \/ ClassUnfreeze(s, a, c)
              \/ AddToClassWhitelist(s, a, c)
              \/ RemoveFromClassWhitelist(s, a, c)

NFTNext ==
    \/ OwnershipNext
    \/ RulesNext
    \/ \E fee \in MintFees : UpdateNFTParams(fee)
    \/ RestartNFT

NFTSpec == FTInit /\ NFTInit /\ [][NFTNext]_<<ftVars, nftVars>>

\* Together with the messages of the fungible tokens and the limits of the DEX.
TokensSpec ==
    FTInit /\ NFTInit /\ [][NFTNext \/ (FTNext /\ UNCHANGED nftVars)]_<<ftVars, nftVars>>

-----------------------------------------------------------------------------
(* Properties                                                              *)

\* Every variable has its type; in particular a mint fee is paid from an existing balance.
NFTTypeOK ==
    /\ FTTypeOK
    /\ classes \in [Classes -> ClassDefinition \cup {NoClass}]
    /\ owner \in [NFTs -> Accounts \cup {NoAdmin}]
    /\ data \in [NFTs -> Seq(Item)]
    /\ nftFrozen \subseteq NFTs
    /\ classFrozen \subseteq Classes \X Accounts
    /\ nftWhitelisted \subseteq NFTs \X Accounts
    /\ classWhitelisted \subseteq Classes \X Accounts
    /\ burnt \subseteq NFTs
    /\ mintFee \in Nat

\* The marks of the asset module agree with the tokens of the nft module. A burnt token does not
\* come back under its ID, so that the whitelisting records it leaves behind give nobody a right,
\* and an exported state can be imported (SetBurnt would panic). A freezing record belongs to a
\* token that exists: burning a frozen token leaves no trace that an export would carry over.
MarksAgreeWithTokens ==
    /\ \A t \in burnt : ~ HasNFT(t)
    /\ \A t \in nftFrozen : HasNFT(t)

\* A token that is frozen, itself or through its owner, neither moves, changes nor disappears as
\* long as somebody other than the issuer owns it.
FrozenNFTStays ==
    [][\A t \in NFTs :
          HasNFT(t) /\ IsFrozen(t) /\ ~ IsIssuer(t[1], owner[t])
          => owner'[t] = owner[t] /\ data'[t] = data[t]]_<<ftVars, nftVars>>

\* Whoever becomes the owner of a token of a class with whitelisting, by a mint or a transfer, is
\* the issuer or is whitelisted at that moment.
OwnersAreWhitelisted ==
    [][\A t \in NFTs :
          /\ owner'[t] \notin {owner[t], NoAdmin}
          /\ IsClassFeatureEnabled(t[1], "whitelisting")
          => IsIssuer(t[1], owner'[t]) \/ IsWhitelisted(t, owner'[t])]_<<ftVars, nftVars>>

\* While a token exists nobody changes who may edit an item of its data, and an item that lists
\* no editor keeps its content.
DataKeepsItsEditors ==
    [][\A t \in NFTs :
          HasNFT(t) /\ HasNFT(t)' =>
              /\ DOMAIN data'[t] = DOMAIN data[t]
              /\ \A i \in DOMAIN data[t] :
                    /\ data'[t][i].editors = data[t][i].editors
                    /\ data[t][i].editors = {} => data'[t][i] = data[t][i]]_<<ftVars, nftVars>>
=============================================================================
