CONSTANTS
    Direct = 2
    Fan = 2
    Levels = 1
    BS = 1
    NBlocks = 4
    Values = {u}
    Positions = {0, 1, 2}
    Lengths = {1}
    Sizes = {0, 1}
    Junk = Junk
SPECIFICATION Spec
INVARIANTS
    WrittenIsStored
CHECK_DEADLOCK FALSE
