SPECIFICATION MCSpec
CONSTANTS
    Entries = {m1, m2, m3}
    Nothing = Nothing
    Capacity = 4
    Asks <- MCAsks
    Ids = {i1, i2}
    Symbols = {star, tilde}
    Broken = {star}
    None = None
    Themes = {colors, mono}
    HostTheme = colors
    Self = self
    Operators = {op}
    Uses = {"/theme", "/quiet", "/timestamp"}
    Amount = 3
    Frequency = 3
    Grace = 1
    GraceReads = 2
    ReadCap = 2
    ReadSizes = {1, 3}
    MaxTime = 9
INVARIANTS NothingLost PromptFollows PoliteStays FloodEnds
PROPERTIES Implements
CHECK_DEADLOCK FALSE
