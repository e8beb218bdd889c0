SPECIFICATION Spec
CONSTANTS
    Handlers = {h1}
    Ids = {"p"}
    Types = {"ilink_proxy", "openai_compatible"}
    Accounts = {"a", "b"}
    MaxRequests = 1
    MaxMessages = 2
INVARIANTS
    RepliesThroughSource
