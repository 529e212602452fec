CONSTANTS
    Macs = {m1}
    Names = {n1}
    NoHost = NoHost
    MaxTime = 2
    Handlers = {h1, h2}
    Free = Free
    MayOverlap = TRUE
SPECIFICATION FairSpec
PROPERTY OnlyTheOvertakenDepart
PROPERTY RequestsFinish
