SPECIFICATION FairRegistrySpec
CONSTANTS
    Handlers = {h1, h2}
    Ids = {"p"}
    Types = {"ilink_proxy", "openai_compatible", "unknown"}
    MaxRequests = 3
INVARIANTS
    RegistryTypeOK
    FactoryMatchesTables
    BotsMatchRows
    MissingHasACause
PROPERTIES
    EveryRequestEnds
