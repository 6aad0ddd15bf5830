----------------------------- MODULE NFT_proofs -----------------------------
(***************************************************************************)
(* The rules of non-fungible tokens for any classes, tokens and accounts,  *)
(* with the messages of the fungible tokens in between (TokensSpec).       *)
(***************************************************************************)
EXTENDS NFT, TLAPS

vars == <<ftVars, nftVars>>

Next == NFTNext \/ (FTNext /\ UNCHANGED nftVars)

\* The marks agree with the tokens as long as ownership keeps its type: it is what a transfer to a
\* real account, and the absence of an account for "no owner", rest on.
MarksInv ==
    /\ owner \in [NFTs -> Accounts \cup {NoAdmin}]
    /\ DOMAIN data = NFTs
    /\ nftFrozen \subseteq NFTs
    /\ MarksAgreeWithTokens

\* The steps that change a token, its data or its marks; every other step leaves all of them alone.
LEMMA StepsOnTokens ==
  ASSUME [Next]_vars
  PROVE  \/ UNCHANGED <<owner, data, nftFrozen, burnt>>
         \/ \E t \in NFTs, s \in Users :
               \/ \E r \in Users, items \in Mintable : MintNFT(s, r, t, items)
               \/ BurnNFT(s, t)
               \/ \E r \in Users : Transfer(s, t, r)
               \/ \E update \in Updates(t) : UpdateData(s, t, update)
               \/ FreezeNFT(s, t)
               \/ UnfreezeNFT(s, t)
<1>1. CASE OwnershipNext
  BY <1>1 DEF OwnershipNext, IssueClass
<1>2. CASE RulesNext
  <2> SUFFICES ASSUME NEW s \in Users,
                      \/ \E t \in NFTs, a \in Users : AddToWhitelist(s, a, t)
                                                      \/ RemoveFromWhitelist(s, a, t)
                      \/ \E c \in Classes, a \in Users :
                            \/ ClassFreeze(s, a, c)
                            \/ ClassUnfreeze(s, a, c)
                            \/ AddToClassWhitelist(s, a, c)
                            \/ RemoveFromClassWhitelist(s, a, c)
               PROVE  UNCHANGED <<owner, data, nftFrozen, burnt>>
    BY <1>2 DEF RulesNext
  <2> QED BY DEF AddToWhitelist, RemoveFromWhitelist, NFTWhitelistedBecomes, ClassFreeze,
                 ClassUnfreeze, ClassFrozenBecomes, AddToClassWhitelist, RemoveFromClassWhitelist,
                 ClassWhitelistedBecomes
<1>3. CASE \E fee \in MintFees : UpdateNFTParams(fee)
  BY <1>3 DEF UpdateNFTParams
<1>4. CASE RestartNFT
  BY <1>4 DEF RestartNFT, GetFrozenNFTs, GetBurntNFTs
<1>5. CASE UNCHANGED nftVars
  BY <1>5 DEF nftVars
<1> QED BY <1>1, <1>2, <1>3, <1>4, <1>5 DEF Next, NFTNext, vars

\* A token that does not exist is not frozen, a new owner exists, and a burnt token has no owner.
LEMMA MarksInvStep ==
  ASSUME MarksInv, [Next]_vars
  PROVE  MarksInv'
<1> USE DEF MarksInv, MarksAgreeWithTokens, HasNFT
<1>0. \A r \in Users : r \in Accounts /\ r # NoAdmin
  BY AccountsAssumption DEF Users
<1>1. CASE UNCHANGED <<owner, data, nftFrozen, burnt>>
  BY <1>1
<1>2. ASSUME NEW t \in NFTs, NEW s \in Users, NEW r \in Users, NEW items \in Mintable,
             MintNFT(s, r, t, items)
      PROVE  MarksInv'
  <2>1. /\ owner' = [owner EXCEPT ![t] = r] /\ data' = [data EXCEPT ![t] = items]
        /\ nftFrozen' = nftFrozen /\ burnt' = burnt /\ t \notin burnt
    BY <1>2 DEF MintNFT, IsMintableID
  <2> QED BY <1>0, <2>1
<1>3. ASSUME NEW t \in NFTs, NEW s \in Users, BurnNFT(s, t)
      PROVE  MarksInv'
  <2>1. /\ owner' = [owner EXCEPT ![t] = NoAdmin] /\ data' = [data EXCEPT ![t] = <<>>]
        /\ nftFrozen' = nftFrozen \ {t} /\ burnt' = burnt \cup {t}
    BY <1>3 DEF BurnNFT, FrozenAfterBurn
  <2> QED BY <2>1
<1>4. ASSUME NEW t \in NFTs, NEW s \in Users, NEW r \in Users, Transfer(s, t, r)
      PROVE  MarksInv'
  <2>1. /\ owner' = [owner EXCEPT ![t] = r] /\ data' = data
        /\ nftFrozen' = nftFrozen /\ burnt' = burnt /\ owner[t] # NoAdmin
    BY <1>4 DEF Transfer
  <2> QED BY <1>0, <2>1
<1>5. ASSUME NEW t \in NFTs, NEW s \in Users, NEW update \in Updates(t), UpdateData(s, t, update)
      PROVE  MarksInv'
  BY <1>5 DEF UpdateData
<1>6. ASSUME NEW t \in NFTs, NEW s \in Users, FreezeNFT(s, t) \/ UnfreezeNFT(s, t)
      PROVE  MarksInv'
  BY <1>6 DEF FreezeNFT, UnfreezeNFT, NFTFrozenBecomes
<1> QED BY <1>1, <1>2, <1>3, <1>4, <1>5, <1>6, StepsOnTokens

LEMMA MarksInvInit == NFTInit => MarksInv
BY DEF NFTInit, MarksInv, MarksAgreeWithTokens, HasNFT

\* A burnt token never comes back and no freezing record outlives its token, through every message and
\* every restart from an exported state.
THEOREM MarksAgree == TokensSpec => []MarksAgreeWithTokens
<1>1. MarksInv => MarksAgreeWithTokens
  BY DEF MarksInv
<1>2. MarksInv /\ [Next]_vars => MarksInv'
  BY MarksInvStep
<1> QED BY <1>1, <1>2, MarksInvInit, PTL DEF TokensSpec, Next, vars

-----------------------------------------------------------------------------

\* Nobody but the issuer moves, changes or burns a token that is frozen, by itself or through its
\* owner (ValidateSendableNFT, validateBurnableNFT, UpdateData).
THEOREM FrozenNFTsStay == TokensSpec => FrozenNFTStays
<1> DEFINE Kept(t) == HasNFT(t) /\ IsFrozen(t) /\ ~ IsIssuer(t[1], owner[t])
                      => owner'[t] = owner[t] /\ data'[t] = data[t]
<1>1. ASSUME MarksInv, [Next]_vars, NEW x \in NFTs PROVE Kept(x)
  <2>0. SUFFICES ASSUME HasNFT(x), IsFrozen(x), ~ IsIssuer(x[1], owner[x])
                 PROVE  owner'[x] = owner[x] /\ data'[x] = data[x]
    OBVIOUS
  <2> USE DEF MarksInv
  <2>1. CASE UNCHANGED <<owner, data, nftFrozen, burnt>>
    BY <2>1
  <2>2. ASSUME NEW t \in NFTs, NEW s \in Users, NEW r \in Users, NEW items \in Mintable,
               MintNFT(s, r, t, items)
        PROVE  owner'[x] = owner[x] /\ data'[x] = data[x]
    <3>1. t # x /\ owner' = [owner EXCEPT ![t] = r] /\ data' = [data EXCEPT ![t] = items]
      BY <2>0, <2>2 DEF MintNFT, IsMintableID
    <3> QED BY <1>1, <3>1
  <2>3. ASSUME NEW t \in NFTs, NEW s \in Users, BurnNFT(s, t)
        PROVE  owner'[x] = owner[x] /\ data'[x] = data[x]
    <3>1. t # x /\ owner' = [owner EXCEPT ![t] = NoAdmin] /\ data' = [data EXCEPT ![t] = <<>>]
      BY <2>0, <2>3 DEF BurnNFT
    <3> QED BY <1>1, <3>1
  <2>4. ASSUME NEW t \in NFTs, NEW s \in Users, NEW r \in Users, Transfer(s, t, r)
        PROVE  owner'[x] = owner[x] /\ data'[x] = data[x]
    <3>1. t # x /\ owner' = [owner EXCEPT ![t] = r] /\ data' = data
      BY <2>0, <2>4 DEF Transfer, ValidateSendableNFT
    <3> QED BY <1>1, <3>1
  <2>5. ASSUME NEW t \in NFTs, NEW s \in Users, NEW update \in Updates(t), UpdateData(s, t, update)
        PROVE  owner'[x] = owner[x] /\ data'[x] = data[x]
    <3>1. t # x /\ owner' = owner /\ data' = [data EXCEPT ![t] = Updated(data[t], update)]
      BY <2>0, <2>5 DEF UpdateData
    <3> QED BY <1>1, <3>1
  <2>6. ASSUME NEW t \in NFTs, NEW s \in Users, FreezeNFT(s, t) \/ UnfreezeNFT(s, t)
        PROVE  owner'[x] = owner[x] /\ data'[x] = data[x]
    BY <2>6 DEF FreezeNFT, UnfreezeNFT, NFTFrozenBecomes
  <2> QED BY <1>1, <2>1, <2>2, <2>3, <2>4, <2>5, <2>6, StepsOnTokens
<1>2. MarksInv /\ [Next]_vars => [\A t \in NFTs : Kept(t)]_vars
  BY <1>1
<1>3. MarksInv /\ [Next]_vars => MarksInv'
  BY MarksInvStep
<1> QED BY <1>2, <1>3, MarksInvInit, PTL DEF TokensSpec, FrozenNFTStays, Next, vars

\* Whoever gets a token of a class with whitelisting is the issuer or whitelisted (MintNFT,
\* ValidateReceivableNFT).
THEOREM NewOwnersAreWhitelisted == TokensSpec => OwnersAreWhitelisted
<1> DEFINE Allowed(t) == /\ owner'[t] \notin {owner[t], NoAdmin}
                         /\ IsClassFeatureEnabled(t[1], "whitelisting")
                         => IsIssuer(t[1], owner'[t]) \/ IsWhitelisted(t, owner'[t])
<1>1. ASSUME MarksInv, [Next]_vars, NEW x \in NFTs PROVE Allowed(x)
  <2>0. SUFFICES ASSUME owner'[x] # owner[x], owner'[x] # NoAdmin,
                        IsClassFeatureEnabled(x[1], "whitelisting")
                 PROVE  IsIssuer(x[1], owner'[x]) \/ IsWhitelisted(x, owner'[x])
    OBVIOUS
  <2> USE DEF MarksInv
  <2>1. CASE UNCHANGED <<owner, data, nftFrozen, burnt>>
    BY <2>0, <2>1
  <2>2. ASSUME NEW t \in NFTs, NEW s \in Users, NEW r \in Users, NEW items \in Mintable,
               MintNFT(s, r, t, items)
        PROVE  IsIssuer(x[1], owner'[x]) \/ IsWhitelisted(x, owner'[x])
    <3>1. CanReceiveMint(t[1], r) /\ owner' = [owner EXCEPT ![t] = r]
      BY <2>2 DEF MintNFT
    <3>2. t = x /\ owner'[x] = r
      BY <1>1, <2>0, <3>1
    <3> QED BY <2>0, <3>1, <3>2 DEF CanReceiveMint, IsWhitelisted
  <2>3. ASSUME NEW t \in NFTs, NEW s \in Users, BurnNFT(s, t)
        PROVE  FALSE
    <3>1. owner' = [owner EXCEPT ![t] = NoAdmin]
      BY <2>3 DEF BurnNFT
    <3> QED BY <1>1, <2>0, <3>1
  <2>4. ASSUME NEW t \in NFTs, NEW s \in Users, NEW r \in Users, Transfer(s, t, r)
        PROVE  IsIssuer(x[1], owner'[x]) \/ IsWhitelisted(x, owner'[x])
    <3>1. ValidateReceivableNFT(t, r) /\ owner' = [owner EXCEPT ![t] = r]
      BY <2>4 DEF Transfer
    <3>2. t = x /\ owner'[x] = r
      BY <1>1, <2>0, <3>1
    <3> QED BY <2>0, <3>1, <3>2 DEF ValidateReceivableNFT
  <2>5. ASSUME NEW t \in NFTs, NEW s \in Users,
               \/ \E update \in Updates(t) : UpdateData(s, t, update)
               \/ FreezeNFT(s, t)
               \/ UnfreezeNFT(s, t)
        PROVE  FALSE
    BY <2>0, <2>5 DEF UpdateData, FreezeNFT, UnfreezeNFT, NFTFrozenBecomes
  <2> QED BY <1>1, <2>1, <2>2, <2>3, <2>4, <2>5, StepsOnTokens
<1>2. MarksInv /\ [Next]_vars => [\A t \in NFTs : Allowed(t)]_vars
  BY <1>1
<1>3. MarksInv /\ [Next]_vars => MarksInv'
  BY MarksInvStep
<1> QED BY <1>2, <1>3, MarksInvInit, PTL DEF TokensSpec, OwnersAreWhitelisted, Next, vars

\* An update of the data leaves the editors of every item, and the items without an editor
\* (UpdateData, isDataDynamicItemUpdateAllowed).
THEOREM EditorsAreKept == TokensSpec => DataKeepsItsEditors
<1> DEFINE Kept(t) == HasNFT(t) /\ HasNFT(t)' =>
                          /\ DOMAIN data'[t] = DOMAIN data[t]
                          /\ \A i \in DOMAIN data[t] :
                                /\ data'[t][i].editors = data[t][i].editors
                                /\ data[t][i].editors = {} => data'[t][i] = data[t][i]
<1>1. ASSUME MarksInv, [Next]_vars, NEW x \in NFTs PROVE Kept(x)
  <2>0. SUFFICES ASSUME HasNFT(x), HasNFT(x)', data'[x] # data[x] PROVE Kept(x)
    OBVIOUS
  <2> USE DEF MarksInv
  <2>1. CASE UNCHANGED <<owner, data, nftFrozen, burnt>>
    BY <2>0, <2>1
  <2>2. ASSUME NEW t \in NFTs, NEW s \in Users, NEW r \in Users, NEW items \in Mintable,
               MintNFT(s, r, t, items)
        PROVE  FALSE
    <3>1. t # x /\ data' = [data EXCEPT ![t] = items]
      BY <2>0, <2>2 DEF MintNFT, IsMintableID
    <3> QED BY <1>1, <2>0, <3>1
  <2>3. ASSUME NEW t \in NFTs, NEW s \in Users, BurnNFT(s, t)
        PROVE  FALSE
    <3>1. owner' = [owner EXCEPT ![t] = NoAdmin] /\ data' = [data EXCEPT ![t] = <<>>]
      BY <2>3 DEF BurnNFT
    <3> QED BY <1>1, <2>0, <3>1 DEF HasNFT
  <2>4. ASSUME NEW t \in NFTs, NEW s \in Users,
               \/ \E r \in Users : Transfer(s, t, r)
               \/ FreezeNFT(s, t)
               \/ UnfreezeNFT(s, t)
        PROVE  FALSE
    BY <2>0, <2>4 DEF Transfer, FreezeNFT, UnfreezeNFT, NFTFrozenBecomes
  <2>5. ASSUME NEW t \in NFTs, NEW s \in Users, NEW update \in Updates(t), UpdateData(s, t, update)
        PROVE  Kept(x)
    <3>1. /\ data' = [data EXCEPT ![t] = Updated(data[t], update)]
          /\ \A i \in DOMAIN update : IsDataDynamicItemUpdateAllowed(s, t, data[t][i])
      BY <2>5 DEF UpdateData
    <3>2. t = x /\ data'[x] = Updated(data[x], update)
      BY <1>1, <2>0, <3>1
    <3>3. DOMAIN data'[x] = DOMAIN data[x]
      BY <3>2 DEF Updated
    <3>4. ASSUME NEW i \in DOMAIN data[x]
          PROVE  /\ data'[x][i].editors = data[x][i].editors
                 /\ data[x][i].editors = {} => data'[x][i] = data[x][i]
      <4>1. CASE i \in DOMAIN update
        BY <3>1, <3>2, <4>1 DEF Updated, IsDataDynamicItemUpdateAllowed
      <4>2. CASE i \notin DOMAIN update
        BY <3>2, <4>2 DEF Updated
      <4> QED BY <4>1, <4>2
    <3> QED BY <3>3, <3>4
  <2> QED BY <1>1, <2>1, <2>2, <2>3, <2>4, <2>5, StepsOnTokens
<1>2. MarksInv /\ [Next]_vars => [\A t \in NFTs : Kept(t)]_vars
  BY <1>1
<1>3. MarksInv /\ [Next]_vars => MarksInv'
  BY MarksInvStep
<1> QED BY <1>2, <1>3, MarksInvInit, PTL DEF TokensSpec, DataKeepsItsEditors, Next, vars
=============================================================================
