SPECIFICATION FairSpec
CONSTANTS
    f1 = f1
    f2 = f2
    Fits <- MCFits
    Uploads <- MCUploads
    MaxFaults = 2
    MaxAttempts = 2
INVARIANTS
    TypeOK
    Bl2CommittedLast
    BoardDataKept
    NotStartedMeansUntouched
PROPERTIES
    Terminates
