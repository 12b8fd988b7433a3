SPECIFICATION Spec
CONSTANTS
    TotalLebs = 7
    FipLebs = 1
    Needs = {1, 2}
    StagedHeadroom = 2
    Reserve = 1
    RootfsMax = 1
    Losses = {3}
INVARIANTS
    TypeOK
    AdmittedFits
PROPERTIES
    FipRoomKept
