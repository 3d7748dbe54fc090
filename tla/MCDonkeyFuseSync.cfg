CONSTANTS
    Ino = {root, i1, i2}
    Root = root
    Blocks = 3
    Names = {a}
    Nil = Nil
    MaxHandles = 1
    DataSyncs = {TRUE, FALSE}
VIEW Observed
SPECIFICATION NamesSpec
INVARIANTS
    NeverPanics
