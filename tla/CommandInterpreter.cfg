SPECIFICATION ShellSpec
CONSTANTS
    Bytes = 1
    Pins = {0, 1, 2, 3, 4, 5, 6, 7}
    Boards = {"ARTY", "BASYS", "SIM"}
    Characters = {"0", "9", "b", "F", "x", "-"}
    Lines <- MCLines
    Spaces = {1, 2}
    Loose = {2}
    Counts = {0, 255, 700}
    Durations = {10, 300}
    Readings <- MCReadings
INVARIANTS ShellTypeOK ParsedAsWritten CommandsDone OnlySignOverruns
