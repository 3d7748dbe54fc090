CONSTANTS
    Count = 4
    Faults <- AllocFaults
    Data = Data
SPECIFICATION FairSpec
INVARIANTS
    TypeOK
    ListsWellFormed
    SpaceAccounted
    NoDoubleUse
    HeadHasRoom
    CounterCoversOwned
PROPERTIES
    CallsReturn
    ImplementsAllocator
