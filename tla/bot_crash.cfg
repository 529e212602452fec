CONSTANTS
    Tokens = {k1}
    Unset = Unset
    Accesses = {a1}
    Requests = {r1}
    Ticker = Ticker
    Runner = Runner
    Stopper = Stopper
    OnContext = OnContext
    MaxChanges = 2
    MayOverlap = TRUE
SPECIFICATION Spec
CHECK_DEADLOCK FALSE
INVARIANT ServerSurvives
