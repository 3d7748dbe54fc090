CONSTANTS
    Word = 1073741824
    Lens <- SomeLens
    Ratios <- SomeRatios
SPECIFICATION FormatSpec
INVARIANTS
    TypeOK
    FailsOnlyIfTooSmall
    FormattedIsSound
    ReadableIsSound
