SPECIFICATION Spec
CONSTANTS
    c1 = c1
    c2 = c2
    c3 = c3
    t1 = t1
    t2 = t2
    a0 = a0
    a1 = a1
    b0 = b0
    a = a
    b = b
    e1 = e1
    e2 = e2
    Absent = Absent
    Entry = {e1, e2}
    MaxReplaces = 2
    MaxFailures = 2
    NoSample = NoSample
    Call = {c1, c2, c3}
    MaxLost = 2
    Tick = {t1, t2}
    MaxBytes = 3
    MaxResets = 1
    Target = {a0, a1, b0}
    Peer = {a, b}
    KeyOf <- MCKeyOf
    MaxConcurrent = 2
    Keep = 1
    MaxClock = 3
    daemon = daemon
    import = import
    Process = {daemon, import}
    Daemon = daemon
    LastVersion = 3
    UniqueIndex = 2
    MaxTroubles = 2
    PriorityMin = 2
    PriorityMax = 4
    ForbiddenTables = {"main"}
INVARIANTS
    TypeOK
    PollsWhileApplied
    RatesAddUp
    SamplesAgeOut
    NeverPartial
    SuccessIsInstalled
    SchemaIsRecorded
    OpenIsMigrated
PROPERTIES
    NeverBackToPending
    ShowsTheOutcome
    SamplesDoNotGoBack
    EveryRoundEnds
    DaemonOpens
CHECK_DEADLOCK FALSE
