SPECIFICATION FairSpec
CONSTANTS
    p1 = p1
    p2 = p2
    k1 = k1
    k2 = k2
    Places <- MCPlaces
    Cmds <- MCCmds
    Lens = {1, 3}
    SndBuf = 2
    None = None
INVARIANTS
    Consistent
    TornOnlyIfSplit
PROPERTIES
    AnswersReachOwner
    ConnectionsServed
