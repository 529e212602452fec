CONSTANTS
    Width = 3
    MACs = {m1, m2}
    Names = {n1}
    Blank = Blank
    Networks <- MCNetworks
    Files <- MCFiles
    NoEntry = NoEntry
    Nowhere = Nowhere
SPECIFICATION Spec
CHECK_DEADLOCK FALSE
INVARIANT IInv
INVARIANT WakeReachesAll
PROPERTY StartupChangesNothing
