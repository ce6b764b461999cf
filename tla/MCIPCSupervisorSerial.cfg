SPECIFICATION Spec
CONSTANTS
    Opener = {o1, o2}
    Macer = {m1}
    Conn = {1, 2, 3, 4}
    None = None
    MaxConcurrency = 1
    MaxTrouble = 3
SYMMETRY Symmetry
INVARIANTS
    RestartSurvived
    NothingLeftOpen
