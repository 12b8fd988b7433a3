SPECIFICATION LiveSpec
CONSTANTS
    u1 = u1
    u2 = u2
    n1 = n1
    v1 = v1
    x1 = x1
    UrsusFips <- MCUrsus
    NokiaFips <- MCNokia
    VanillaFips <- MCVanilla
    ForeignFips <- MCForeign
    Oversize <- MCOversize
    Uploads <- MCStockUploads
    Capacities = {3}
    MaxFaults = 2
INVARIANTS
    StockBlockRespected
    NotStartedMeansUntouched
PROPERTIES
    Terminates
