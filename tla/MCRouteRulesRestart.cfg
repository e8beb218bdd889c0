CONSTANTS
    Handlers = {h1}
    RuleBodies <- MCRuleBodies
    Messages <- MCMessages
    Backends = {"b4"}
    DefaultBackend = "none"
    MaxRules = 2
    MaxRequests = 2
SPECIFICATION Spec
INVARIANT PriorityRulesComeFirst
