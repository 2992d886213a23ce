SPECIFICATION BootSpec
CONSTANTS
    MaxDivider = 255
    Bit = {0, 1}
    DataBits = 8
    Oversampling = 4
    Pauses = {0, 37}
    Pins = {15, 16, 17}
    FlashImage <- MCFlashImage
    CodeWords = 2
    SpiDivider = 3
    Timeout = 1500
    CounterHalf = 6000
    DelayCycles = 20
    Paces = {4, 7}
    UartDivider = 1
    SkippingPin = 17
    SourcePin = 16
    StatusPin = 15
    HostImage <- MCHostImage
    Sent = {0, 5, 8}
    BitTime = 16
    Counts = {0, 5300, 5999, 12000}
INVARIANTS BootTypeOK NothingDropped GivesUpOnlyLate
PROPERTIES ImplementsLoading BootEnds
