CONSTANTS
    NoHosts = t0
    Tables = {t0, t1}
    Passwords = {p1}
    Tokens = {}
    Unset = Unset
    Requests = {r1}
    Registry = Registry
    Reloader = Reloader
    Missing = Missing
    Garbled = Garbled
    Absent = Absent
    MayOverlap = TRUE
SPECIFICATION Spec
CHECK_DEADLOCK FALSE
INVARIANT FileWhole
