CONSTANTS
    Count = 2
    Intervals = {1, 3, 8}
    Unusable = Unusable
    MaxBackoff = 5
    Half = 16
SPECIFICATION FairSpec
CHECK_DEADLOCK FALSE
INVARIANT IInv
PROPERTY PausesGrow
PROPERTY Recovers
PROPERTY FollowsServer
PROPERTY StopsWhenCancelled
