SPECIFICATION Spec
CONSTANTS
    Mapped = {4, 65536, 16785440}
    Stored = {65536}
    Fetched = {4, 65536}
    Address <- MCAddress
    Lane = {0, 1}
    Byte = {0, 1}
    Zero <- MCZero
    RomImage <- MCRomImage
    DataRequests <- MCDataRequests
    FetchAddresses <- Fetched
PROPERTIES SharedMemorySpec
