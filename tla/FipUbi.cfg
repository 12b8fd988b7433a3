SPECIFICATION UbiSpec
CONSTANTS
    u1 = u1
    u2 = u2
    n1 = n1
    v1 = v1
    x1 = x1
    UrsusFips <- MCUrsus
    NokiaFips <- MCNokia
    VanillaFips <- MCVanilla
    ForeignFips <- MCForeign
    Oversize <- MCOversize
    Uploads <- MCUploads
    Capacities = {1, 2, 4}
    MaxFaults = 2
INVARIANTS
    TypeOK
    CompletionProven
    RollbackRestores
    RepairLosesNothing
    NamesStayDistinct
PROPERTIES
    BootKept
    ImplementsBootSlot
