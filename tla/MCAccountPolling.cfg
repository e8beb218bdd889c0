SPECIFICATION Spec
CONSTANTS
    Accounts = {a1}
    Slots = {s1, s2}
    Handlers = {h1, h2}
    None = None
    MaxMessages = 2
    ChanCap = 1
    MaxFaults = 1
SYMMETRY Symmetry
INVARIANTS
    TypeOK
    CursorCovered
    OneLivePoller
    RecordsSynced
    ReplayHasACause
PROPERTIES
    CursorRegressHasACause
    ImplementsDelivery
