SPECIFICATION TokensSpec
SYMMETRY IDSymmetry
CONSTANTS
    alice = alice  bob = bob  module = module  core = core  usd = usd
    NoAdmin = NoAdmin
    NoID = NoID
    Accounts <- MCAccounts
    Denoms <- MCDenoms
    BondDenom = core
    Contracts = {}
    ModuleAccounts = {module}
    Escrow = module
    BondedPool = module
    Issuable <- NoDefinitions
    IssueFee = 1
    RateScale = 2
    Amounts = {1, 2}
    GenesisBalances <- TokenBalances
    GenesisBankLocked <- TokenVesting
    GenesisDefinitions <- TokenDefinitions
    TicksPerSecond = 2
    GenesisTime = 2
    MaxHeight = 1
    BlockTimes = {1}
    LegacyPrecision = 0
    OrderIDs = {o1, o2}
    Orders <- TokenOrders
    MaxSequence = 2
    GenesisParams <- TokenParams
    ParamUpdates = {}
    MaxFrozen = 1
    MaxWhitelisted = 2
INVARIANTS
    ExpectedMatchesOrders
    OrdersAreFunded
PROPERTIES
    HoldingsStayWhitelisted
CHECK_DEADLOCK FALSE
