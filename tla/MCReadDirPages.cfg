CONSTANTS
    a = a
    b = b
    Ino = {root, i1, i2}
    Root = root
    Blocks = 3
    Names = {a}
    Nil = Nil
    MaxHandles = 1
    DataSyncs = {TRUE}
    NameOrder <- OneName
    Room = 1
VIEW Seen
SPECIFICATION LibrarySpec
INVARIANTS
    ListingComplete
