SPECIFICATION ProgramSpec
CONSTANTS
    PcSize = 64
    IterSize = 16
    Depth = 10
    Counts = {1, 2}
    MaxStores = 1
    Programs <- MCPrograms
INVARIANTS LoopsUnrolled
PROPERTIES ProgramEnds
