CONSTANTS
    Direct = 1
    Fan = 2
    Levels = 2
    BS = 2
    NBlocks = 5
    Values = {u}
    Positions = {1, 6}
    Lengths = {2}
    Sizes = {0, 7}
    Junk = Junk
SPECIFICATION ColdSpec
INVARIANTS
    TypeOK
    TreeSound
    BlocksCounted
PROPERTIES
    ImplementsPlainFile
