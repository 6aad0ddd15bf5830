SPECIFICATION LivePSESpec
CONSTANTS
    alice = alice  bob = bob  fund = fund  team = team
    Delegators = {alice, bob}
    Validators = {1, 2}
    Recipients = {team, bob}
    BlockedAccounts = {}
    Community = community
    OtherClearing = {fund}
    PageLimit = 2
    GenesisTime = 0
    MaxTime = 2
    BlockTimes = {1, 2}
    MaxSlashes = 1
    MaxMessages = 3
    Stakes = {1, 2}
    GenesisWallet <- MCWallet
    GenesisClearing <- MCClearing
    GenesisSchedule <- MCSchedule
    GenesisMapping <- MCMapping
    ExclusionUpdates <- MCExclusionUpdates
    ScheduleUpdates <- MCScheduleUpdates
    MappingUpdates <- MCMappingUpdates
INVARIANTS
    CoinsAreConserved
    
    EntriesMirrorDelegations
PROPERTIES
    
    DueDistributionsArePaid
CHECK_DEADLOCK FALSE
