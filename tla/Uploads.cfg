SPECIFICATION Spec
CONSTANTS
    g1 = g1
    g2 = g2
    g3 = g3
    c1 = c1
    c2 = c2
    Gens <- MCGens
    Size <- MCSize
    MaxSize = 2
    Good <- MCGood
    Conns <- MCConns
    Kinds = {"FIRMWARE", "INITRAMFS", "UBI_PRELOADER", "URSUS_FIP", "VANILLA_FIP"}
SYMMETRY ConnSymmetry
INVARIANTS
    ValidatedIsStaged
    WindowHasOneOwner
    ReceivedWasSent
    ValidMeansComplete
