SPECIFICATION AgainSpec
CONSTANTS
    Word = 1073741824
    Lens <- FewLens
    Ratios <- FewRatios
INVARIANT MountedHasList
