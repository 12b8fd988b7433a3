SPECIFICATION FairSpec
CONSTANTS
    i1 = i1
    i2 = i2
    Images <- MCImages
    Debounce = 2
INVARIANTS
    Consistent
    StartsWhole
    KernelGoesLast
PROPERTIES
    DispatchEnds
