CONSTANTS
    Ino = {root, i1, i2}
    Root = root
    Blocks = 2
    Names = {a}
    Nil = Nil
    MaxHandles = 2
    DataSyncs = {TRUE}
VIEW Observed
SPECIFICATION FilesSpec
INVARIANTS
    BlocksAccounted
PROPERTIES
    ImplementsFileSystem
