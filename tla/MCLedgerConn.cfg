SPECIFICATION ConnSpec
CONSTANTS
    Alias = {a1}
    Handle = {h1, h2}
    DirectRow = {d1}
    Estimate = {2}
    Usage = {1}
    CapValue = {4}
    OverrideValue = {}
    NULL = NULL
    GLOBAL_CEILING_TOKENS = 3
    SQLITE_INT64_MAX = 9
    Task = {t1, t2}
    None = None
    MaxFaults = 1
    MaxCancels = 1
    MaxCrashes = 1
SYMMETRY Symmetry
INVARIANTS
    ConnTypeOK
    NoTransactionLeftOpen
PROPERTIES
    OperationsAtomic
