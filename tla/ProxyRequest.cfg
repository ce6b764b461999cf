SPECIFICATION Spec
CONSTANTS
    Alias = {a1}
    Handle = {r1, r2}
    DirectRow = {d1}
    Estimate = {2, 4}
    Usage = {6}
    CapValue = {5}
    OverrideValue = {4}
    NULL = NULL
    GLOBAL_CEILING_TOKENS = 3
    SQLITE_INT64_MAX = 9
    MaxFaults = 1
    MaxCrashes = 1
    MayOutlive = TRUE
INVARIANTS
    ServedNotRefunded
    BilledHonestly
PROPERTIES
    LegalClient
    BilledAsAnswered
    HoldsResolve
