SPECIFICATION BootingSpec
CONSTANTS
    f1 = f1
    f2 = f2
    Fits <- MCFits
    FitLebs <- MCFitLebs
    Uploads <- MCImageUploads
    TotalLebs = 8
    StagedHeadroom = 2
    Reserve = 1
    BebLevel = 0
    MaxFaults = 1
INVARIANTS
    FallbackPreserved
