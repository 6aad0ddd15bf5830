SPECIFICATION MatchSpec
SYMMETRY IDSymmetry
CONSTANTS
    alice = alice  bob = bob  module = module  core = core  usd = usd
    NoAdmin = NoAdmin
    NoID = NoID
    Accounts <- MCAccounts
    Denoms <- MCDenoms
    BondDenom = core
    Contracts = {}
    ModuleAccounts = {module}
    Escrow = module
    BondedPool = module
    Issuable <- NoDefinitions
    IssueFee = 1
    RateScale = 2
    Amounts = {1}
    GenesisBalances <- MatchBalances
    GenesisBankLocked <- NoHolding
    GenesisDefinitions <- NoDefinitions
    TicksPerSecond = 2
    GenesisTime = 2
    MaxHeight = 1
    BlockTimes = {1}
    LegacyPrecision = 0
    OrderIDs = {o1, o2, o3, o4}
    Orders <- MatchOrders
    MaxSequence = 4
    GenesisParams <- MatchParams
    ParamUpdates = {}
    MaxFrozen = 0
    MaxWhitelisted = 0
INVARIANTS
    ReserveIsDeposited
CHECK_DEADLOCK FALSE
