CONSTANTS
    Tokens = {k1, k2}
    Unset = Unset
    Accesses = {a1, a2}
    Requests = {r1}
    Ticker = Ticker
    Runner = Runner
    Stopper = Stopper
    OnContext = OnContext
    MaxChanges = 3
    MayOverlap = FALSE
SPECIFICATION FairSpec
CHECK_DEADLOCK FALSE
INVARIANT IInv
INVARIANT FollowsWhenQuiet
INVARIANT ServerSurvives
INVARIANT NothingLeftPolling
INVARIANT NoLoopSpins
INVARIANT StopReachesRun
PROPERTY ImplementsSlot
PROPERTY CatchesUp
PROPERTY StopInTime
