CONSTANTS
    Ino = {root, i1, i2}
    Root = root
    Blocks = 1
    Names = {a}
    Nil = Nil
    MaxHandles = 1
    DataSyncs = {TRUE}
VIEW Observed
SPECIFICATION NamesSpec
INVARIANTS
    SizeZeroIsJustCreated
