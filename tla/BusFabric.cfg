SPECIFICATION Spec
CONSTANTS
    Mapped = {4, 65536, 1048576, 16785440, 33554432}
    Stored = {65536, 1048576, 16842756}
    Fetched = {4, 65536, 1048576}
    Address <- MCAddress
    Lane = {0}
    Byte = {0}
    Zero <- MCZero
    RomImage <- MCRomImage
    DataRequests <- MCDataRequests
    FetchAddresses <- Fetched
INVARIANTS TypeOK AnswersAreOwned NoSpuriousResponse WaitsAreServed BoundedWait
PROPERTIES EveryRequestAnswered
