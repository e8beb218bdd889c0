CONSTANTS
    Handlers = {h1, h2}
    RuleBodies <- MCRuleBodies
    Messages <- MCMessages
    Backends = {"b4"}
    DefaultBackend = "none"
    MaxRules = 3
    MaxRequests = 4
SPECIFICATION Spec
SYMMETRY Symmetry
INVARIANTS
    TypeOK
    SortedWithinClass
    MemoryMatchesDatabase
    RoutesByTable
