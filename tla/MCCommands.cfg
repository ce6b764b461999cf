SPECIFICATION CommandsSpec
CONSTANTS
    k1 = k1
    k2 = k2
    f1 = f1
    f2 = f2
    v1 = v1
    v2 = v2
    s1 = s1
    p1 = p1
    Secret = {k1, k2}
    Env = {f1, f2}
    Var = {v1, v2}
    Slot = {s1}
    SlotOf <- OneSlot
    Canonical <- FirstCanonical
    None = None
    Own = Own
    TwoNames = FALSE
    EditsRace = FALSE
    Mortal <- AllSteps
    MaxSplits = 2
    MaxEdits = 2
    MaxFaults = 1
    Key = {y1, y2}
    MaxPresses = 3
    MaxFailures = 1
    Probed = {b1, b2}
    OtherAlias = {b3}
    TableSize = 2
    MaxTicks = 3
    MaxBounces = 1
    Writer = {w1, w2}
    Edits = {e1, e2}
    Torn = Torn
    NoInode = NoInode
    LateEdits = FALSE
    MaxInode = 4
    MaxLosses = 1
    Command = {c1, c2}
    Host = {h1, h2}
    NoFile = NoFile
    NoFlock = NoFlock
    MaxFile = 3
    MaxKills = 2
    Cli = {g1, g2}
    NoKey = NoKey
    NoCli = NoCli
    Blank = Blank
    Overlaps = FALSE
    MaxKeys = 3
    MaxTrouble = 3
    OcKey = {a1, a2}
    Provider = {p1}
    ProviderOf <- SharedProvider
    Stranger = Stranger
    Ref = Ref
    RollbackRaces = FALSE
    OtherKey = OtherKey
    Nothing = Nothing
    Layouts = {"absent", "missing", "present", "corrupt", "denied", "foreign", "link"}
    OcMortal = {"captured", "write", "rollback", "undo", "neutralize", "scrub", "unlocked", "restore", "unroll", "caches"}
    MaxRevisions = 1
    MaxOcFaults = 1
    Char = {"a", "b", "c"}
    Prefix = {"sk-", "pk-"}
    Charsets <- TwoAlphabets
    ApiKey <- TwoKeys
    Line = {l1, l2}
    Missing = Missing
    MaxDamage = 2
    KeyVar = {"K1", "K2"}
    UrlNameOf <- Slots2
    SharedUrlName = "B1"
    OtherName = {"X"}
    FirstFiles <- PlainFiles
    Starter = {i1, i2}
    MaxRuns = 2
    MaxSeconds = 2
SYMMETRY Symmetric
INVARIANTS
    CommandsTypeOK
    
    RouteRemembersOwner
    AllOrNothing
    ExitCodeHonest
    VerdictsTrue
    EnvKept
    OneCommand
    OneKeyKept
    OriginalKept
    OpensToItsKey
    KeysStayPrivate
    ReadsComeBack
    StartsSafely
PROPERTIES
    RetiredIsUnused
    OpenClawFollows
    NeverAnotherKey
CHECK_DEADLOCK FALSE
