CONSTANTS
    Direct = 1
    Fan = 2
    Levels = 1
    BS = 1
    NBlocks = 4
    Values = {u}
    Positions = {1, 2}
    Lengths = {1}
    Sizes = {2}
    Junk = Junk
SPECIFICATION ColdSpec
INVARIANTS
    FreedIsCleared
