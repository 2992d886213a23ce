SPECIFICATION ConsoleSpec
CONSTANTS
    MaxDivider = 0
    prompt = prompt
    p = p
    ing = ing
    heart = heart
    beat = beat
    Bit = {0, 1, prompt, p, ing, heart, beat}
    DataBits = 1
    Oversampling = 3
    Div = 0
    CounterSize = 88
    Periods = {80, 85}
    Pace = 4
    Entry = 2
    Text <- MCShortText
INVARIANTS ConsoleTypeOK LossesAccounted OnlyBeatsCollide StraysOnlyWhileDisabling
PROPERTIES CommandsReturn BeatsKeepComing
