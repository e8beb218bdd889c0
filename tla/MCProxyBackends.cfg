SPECIFICATION Spec
SYMMETRY Symmetry
CONSTANTS
    Handlers = {h1, h2}
    Ids = {"p"}
    Types = {"ilink_proxy", "openai_compatible"}
    Accounts = {a1, a2}
    MaxRequests = 3
    MaxMessages = 2
INVARIANTS
    TypeOK
    ServedBotsKnowAnAccount
    RepliesNeverThroughEarlierAccount
