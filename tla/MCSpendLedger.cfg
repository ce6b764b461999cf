SPECIFICATION LedgerSpec
CONSTANTS
    Alias = {a1, a2}
    Handle = {h1, h2}
    DirectRow = {d1}
    Estimate = {1, 4}
    Usage = {0, 5}
    CapValue = {5}
    OverrideValue = {2, 4, 6}
    NULL = NULL
    GLOBAL_CEILING_TOKENS = 3
    SQLITE_INT64_MAX = 5
    Tracked = a1
    Amount = {0, 1, 2, 3, 4, 5, 6, 7, 8, 9, 10, 11, 12, 13, 14, 15, 16, 17, 18, 19, 20}
SYMMETRY Symmetry
INVARIANTS
    ResolvedOnce
PROPERTIES
    ImplementsCap
