SPECIFICATION LineSpec
CONSTANTS
    MaxDivider = 255
    Bit = {0, 1}
    DataBits = 8
    Oversampling = 16
    Div = 1
    BufferSize = 4
    BitTimes = {64, 67}
    Pauses = {0, 3}
    Paces = {4, 11}
    Newline <- MCNewline
    Backspace <- MCBackspace
    Lines <- MCLines
INVARIANTS LineTypeOK BytesInOrder NeverOverwritten LineComesBack
PROPERTIES LineEnds
