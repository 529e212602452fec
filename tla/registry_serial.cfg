CONSTANTS
    Macs = {m1, m2}
    Names = {n1}
    NoHost = NoHost
    MaxTime = 2
    Handlers = {h1, h2}
    Free = Free
    MayOverlap = FALSE
SPECIFICATION Spec
SYMMETRY SlotsAndMacs
INVARIANT IInv
PROPERTY DisabledSurvivesHeartbeat
PROPERTY DeletedStaysDeleted
PROPERTY LastSeenNeverGoesBack
PROPERTY ImplementsTable
