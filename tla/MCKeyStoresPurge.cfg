SPECIFICATION Spec
CONSTANTS
    k1 = k1
    k2 = k2
    f1 = f1
    f2 = f2
    v1 = v1
    v2 = v2
    s1 = s1
    Secret = {k1, k2}
    Env = {f1}
    Var = {v1, v2}
    Slot = {s1}
    SlotOf <- OneSlot
    Canonical <- FirstCanonical
    None = None
    Own = Own
    TwoNames = TRUE
    EditsRace = FALSE
    Mortal <- AllSteps
    MaxSplits = 2
    MaxEdits = 4
    MaxFaults = 0
SYMMETRY SymmetricKeys
PROPERTY
    PurgeIsSurgical
CHECK_DEADLOCK FALSE
