SPECIFICATION Spec
SYMMETRY Symmetry
CONSTANTS
    Users = {"u"}
    Backends = {"b"}
    Texts <- MCTexts
    Rules <- MCRules
    DefaultBackend = "none"
    Handlers = {h1, h2}
    MaxMessages = 2
    MaxRequests = 2
    MaxUpsets = 1
INVARIANTS
    TypeOK
    WaitGroupBalanced
    DrainKeepsItsPromise
    NobodyIgnored
    LoopNeverStuck
    ChoiceMatchesTable
PROPERTIES
    OneEndPerMessage
