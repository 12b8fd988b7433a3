SPECIFICATION SessionSpec
CONSTANTS
    f1 = f1
    f2 = f2
    Fits <- MCFits
    Uploads <- MCUploads
    MaxFaults = 1
    MaxAttempts = 2
INVARIANTS
    MigrationPreserves
