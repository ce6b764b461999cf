SPECIFICATION PartsSpec
CONSTANTS
    Request = {r1, r2}
    Estimate = {1, 3}
    Actual = {0, 2}
    BudgetValue = {3, 4}
    NULL = NULL
    MayEscape = TRUE
    Caller = {q1, q2, q3, q4}
    Client = {c}
    NoLock = NoLock
    Second = 1
    CleanupInterval = 3
    Rps = 2
    InRow = TRUE
    MaxTime = 4
    Token = {a1, a2}
    MaxReboots = 1
    MaxTrips = 1
    Call = {o1, o2, o3}
    Hello = Hello
    Caps = {o1, o2}
    Unknown = Unknown
    Silence = Silence
    MaxCancels = 2
    Session = {up, managed, wrap}
    Wraps = {wrap}
    Managed = {managed}
    NoSession = NoSession
    MaxSignals = 1
    MaxStarts = 2
    MaxAccidents = 1
    Streams <- SomeStreams
INVARIANTS
    PartsTypeOK
    ReservationsReal
    RateExact
    EndsClean
    UsageAsReported
PROPERTIES
    TripwireKept
    ChannelKept
    OrphanWiped
CHECK_DEADLOCK FALSE
