CONSTANTS
    LegacyPrecision = 2
    MaxNumLen = 2
    MinExp <- LowestExp
    MaxExp = 2
    ExpRange = 4
    PriceNums = {2, 11}
    Sequences = {1, 2, 3, 4}
    NoPrice = NoPrice
    NoRecord = NoRecord
SPECIFICATION IteratorSpec
PROPERTY ReadsInPriority
CHECK_DEADLOCK FALSE
