CONSTANTS
    Macs = {m1}
    Names = {}
    NoHost = NoHost
    MaxTime = 1
    Handlers = {h1, h2}
    Free = Free
    MayOverlap = TRUE
SPECIFICATION Spec
PROPERTY DisabledSurvivesHeartbeat
