CONSTANTS
    a = a
    b = b
    Ino = {root, i1, i2}
    Root = root
    Blocks = 3
    Names = {a, b}
    Nil = Nil
    MaxHandles = 1
    DataSyncs = {TRUE}
    NameOrder <- TwoNames
    Room = 4
VIEW Seen
SPECIFICATION ReadDirSpec
INVARIANTS
    ListingComplete
PROPERTIES
    FailsOnlyIfReclaimed
CHECK_DEADLOCK FALSE
