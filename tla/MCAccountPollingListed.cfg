SPECIFICATION Spec
CONSTANTS
    Accounts = {a1}
    Slots = {s1, s2}
    Handlers = {h1}
    None = None
    MaxMessages = 1
    ChanCap = 1
    MaxFaults = 0
INVARIANTS
    ListedIsPolled
