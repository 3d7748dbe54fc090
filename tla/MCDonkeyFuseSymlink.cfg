CONSTANTS
    Ino = {root, i1, i2}
    Root = root
    Blocks = 2
    Names = {a, b}
    Nil = Nil
    MaxHandles = 1
    DataSyncs = {TRUE}
VIEW Observed
SPECIFICATION NamesSpec
PROPERTIES
    SymlinkHasTarget
