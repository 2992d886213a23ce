SPECIFICATION PixSpec
CONSTANTS
    PcSize = 128
    IterSize = 16384
    Depth = 10
    Rows = 2
    MaxCalls = 1
    Data <- MCData
    Hits <- MCHits
    Calls <- MCCalls
INVARIANTS OnlyBSelected
