SPECIFICATION Spec
CONSTANTS
    Opener = {o1}
    Macer = {m1, m2}
    Conn = {1, 2, 3, 4}
    None = None
    MaxConcurrency = 2
    MaxTrouble = 2
INVARIANTS
    SlotsAccounted
    CapsPinned
PROPERTIES
    EveryCallEnds
