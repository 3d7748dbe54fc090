CONSTANTS
    Direct = 2
    Fan = 2
    Levels = 2
    BS = 1
    NBlocks = 4
    Values = {u}
    Positions = {0, 8}
    Lengths = {1}
    Sizes = {9}
    Junk = Junk
SPECIFICATION Spec
INVARIANTS
    LevelFound
