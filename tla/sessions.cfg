CONSTANTS
    Browsers = {b1, b2}
    Ticker = Ticker
    Secrets = {s1, s2, e}
    SavedSecrets = {s1}
    Passwords = {w1, we}
    EnvSecret = e
    EnvPassword = we
    None = None
    MaxCalls = 1
SPECIFICATION FairSpec
INVARIANT IInv
INVARIANT PromiseKept
PROPERTY SessionsSurvive
PROPERTY NewSessionsWork
PROPERTY SetupReplacesNothing
PROPERTY SetupCloses
