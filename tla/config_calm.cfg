CONSTANTS
    NoHosts = t0
    Tables = {t0, t1}
    Passwords = {p1, p2}
    Tokens = {k1, k2}
    Unset = Unset
    Requests = {r1}
    Registry = Registry
    Reloader = Reloader
    Missing = Missing
    Garbled = Garbled
    Absent = Absent
    MayOverlap = FALSE
SPECIFICATION Spec
INVARIANT FileWhole
INVARIANT CalmInv
PROPERTY AnsweredMeansPersisted
PROPERTY RegistryPreservesSettings
PROPERTY ImplementsDurable
