SPECIFICATION SmallSpec
CONSTANTS
    f1 = f1
    f2 = f2
    Fits <- MCFits
    FitLebs <- MCFitLebs
    Uploads <- MCUploads
    TotalLebs = 8
    StagedHeadroom = 2
    Reserve = 1
    BebLevel = 3
    MaxFaults = 1
INVARIANTS
    TypeOK
    StagesCanProceed
    SettingsKept
PROPERTIES
    TransactionHonest
    ImplementsBootSlot
