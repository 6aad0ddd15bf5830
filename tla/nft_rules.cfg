SPECIFICATION MCNFTSpec
CONSTANTS
    issuer = issuer  alice = alice  bob = bob  pool = pool  escrow = escrow
    core = core  art = art  badge = badge
    NoAdmin = NoAdmin
    Accounts <- MCAccounts
    Denoms = {core}
    BondDenom = core
    Contracts = {}
    ModuleAccounts = {pool}
    Escrow = escrow
    BondedPool = pool
    Issuable <- MCNoDefinitions
    IssueFee = 0
    RateScale = 2
    Amounts = {1}
    GenesisBalances <- MCBalances
    GenesisBankLocked <- MCNoLocks
    GenesisDefinitions <- MCNoDefinitions
    Classes = {art, badge}
    TokenIDs = {1}
    NoClass = NoClass
    IssuableClasses <- MCClasses
    Mintable <- MCMintable
    DataValues = {0, 1}
    MintFees = {1}
INVARIANTS
    NFTTypeOK
    MarksAgreeWithTokens
PROPERTIES
    FrozenNFTStays
    OwnersAreWhitelisted
    DataKeepsItsEditors
CHECK_DEADLOCK FALSE
