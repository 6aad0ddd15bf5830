SPECIFICATION LiveChainSpec
CONSTANTS
    alice = alice  bob = bob  module = module  core = core  usd = usd
    NoAdmin = NoAdmin
    NoID = NoID
    Accounts <- MCAccounts
    Denoms <- MCDenoms
    BondDenom = core
    Contracts = {}
    ModuleAccounts = {module}
    Escrow = module
    BondedPool = module
    Issuable <- NoDefinitions
    IssueFee = 1
    RateScale = 2
    Amounts = {1}
    GenesisBalances <- BlockBalances
    GenesisBankLocked <- NoHolding
    GenesisDefinitions <- BlockDefinitions
    TicksPerSecond = 2
    GenesisTime = 2
    MaxHeight = 4
    BlockTimes = {1, 2}
    LegacyPrecision = 0
    OrderIDs = {o1}
    Orders <- BlockOrders
    MaxSequence = 2
    GenesisParams <- BlockParams
    ParamUpdates <- BlockParamUpdates
    MaxFrozen = 0
    MaxWhitelisted = 0
    TradedDenoms <- MCDenoms
    DenomRank <- BlockRanks
    DecisionTimeout = 3
    GracePeriod = 2
    GenesisVersions <- BlockVersions
INVARIANTS
    NotHalted
    IndexesAgree
    GoodTilIsScheduled
    
    BookIDsAreSound
PROPERTIES
    RestartIsTransparent
    
    GoodTilOrdersLeave
    UpgradesHappen
CHECK_DEADLOCK FALSE
