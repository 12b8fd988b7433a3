SPECIFICATION FairSpec
CONSTANTS
    c1 = c1
    Conns <- MCConns
    GraceTicks = 1
    ForceTicks = 2
INVARIANTS
    Consistent
    UpdateExcludesMigration
PROPERTIES
    NotResumed
    RebootHappens
    OperationsEnd
