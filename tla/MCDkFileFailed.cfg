CONSTANTS
    Direct = 1
    Fan = 2
    Levels = 1
    BS = 1
    NBlocks = 1
    Values = {u}
    Positions = {0, 1}
    Lengths = {1}
    Sizes = {0}
    Junk = Junk
SPECIFICATION ColdSpec
INVARIANTS
    DestroyReleases
