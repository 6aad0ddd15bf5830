SPECIFICATION GasSpec
CONSTANTS
    One = 100
    BlockGasLimit = 12
    Gas = {4, 8}
    Fees = {4, 24}
    GenesisParams <- MCGenesisParams
    ParamUpdates <- MCParamUpdates
    FixedGas = 1
    TxBaseGas = 2
    EnvelopeGas = {1, 3}
    FuseGasMultiplier = 2
    MsgTypes <- MCMsgTypes
    GasTable <- MCGasTable
    Messages <- MCMessages
    RealGas = {1, 3}
    MaxMessages = 2
INVARIANTS
    FeeTypeOK
    GasIsForeseen
    FeesCoverTrackedGas
PROPERTIES
    PriceIsWithinTheCurve
    
