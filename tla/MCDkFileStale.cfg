CONSTANTS
    Direct = 1
    Fan = 2
    Levels = 1
    BS = 1
    NBlocks = 4
    Values = {u}
    Positions = {0, 1, 2}
    Lengths = {1}
    Sizes = {0}
    Junk = Junk
SPECIFICATION Spec
INVARIANTS
    FreeIntact
CHECK_DEADLOCK FALSE
