CONSTANTS
    Count = 3
    Faults <- PushFaults
    Data = Data
VIEW WithoutChains
SPECIFICATION Spec
INVARIANTS
    HeadIsFreeList
