SPECIFICATION RegistrySpec
CONSTANTS
    Handlers = {h1}
    Ids = {"p"}
    Types = {"ilink_proxy", "openai_compatible", "unknown"}
    MaxRequests = 1
INVARIANTS
    ProxiesCanEnqueue
