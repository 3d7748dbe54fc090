CONSTANTS
    Ino = {i1, i2}
    NBlocks = 1
    Room = 9
    Keys = {k1, k2}
    Values = {1}
    Buffers = {0, 1, 2}
    ParentOpen = {FALSE}
    MaxLinks = 2
    MaxHandles = 1
    MaxClosing = 2
    MaxWrites = 7
    Nil = Nil
SYMMETRY Symmetry
VIEW Observed
SPECIFICATION Spec
PROPERTIES
    LostOnlyWithMessage
CHECK_DEADLOCK FALSE
