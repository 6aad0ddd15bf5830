SPECIFICATION LedgerSpec
CONSTANTS
    issuer = issuer  holder = holder  contract = contract  escrow = escrow  pool = pool
    core = core  token = token
    NoAdmin = NoAdmin
    Accounts <- MCAccounts
    Denoms <- MCDenoms
    BondDenom = core
    Contracts = {contract}
    ModuleAccounts = {pool}
    Escrow = escrow
    BondedPool = pool
    Issuable <- MCIssuable
    IssueFee = 1
    RateScale = 2
    Amounts = {1, 2}
    GenesisBalances <- LedgerBalances
    GenesisBankLocked <- NoHolding
    GenesisDefinitions <- MCDefined
    MaxTokenSupply = 4
    MaxFrozen = 1
    MaxLocked = 1
    MaxBondLocked = 2
    MaxExpected = 1
INVARIANTS
    FTTypeOK
    LockedIsCovered
    SupplyIsTheSumOfBalances
PROPERTIES
    FrozenStaysPut
    WhitelistLimitsReceipts
CHECK_DEADLOCK FALSE
