SPECIFICATION FairSpec
CONSTANTS
    Handlers = {h1, h2}
    MaxCodes = 2
    MaxRefresh = 1
    MaxExpired = 1
    MaxUpsets = 1
INVARIANTS
    ActiveIsLive
    LoopHasSavedToken
PROPERTIES
    PastLoginsStayPast
    LoginCompletes
