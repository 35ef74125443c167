\* Each part on its own: two workers with one run, which asks the sources and then the
\* provider; two workers on a task; three posts; two reporters; two backup commands; two
\* reviewers with three pairs.
SPECIFICATION PartsSpec
CONSTANTS
    w1 = w1
    w2 = w2
    Worker = {w1, w2}
    NoWorker = NoWorker
    Revision = {rev1}
    NoRevision = NoRevision
    Mode = {"HUNT"}
    Key = {"root"}
    Root = "root"
    Kind = {"AUTH_REQUIRED", "BUDGET_EXHAUSTED", "DEADLINE_EXCEEDED", "INTEGRITY",
            "INVALID_OUTPUT", "RATE_LIMITED", "TIMEOUT", "TRANSIENT_NETWORK", "PERMANENT"}
    MaxRuns = 1
    LeaseTime = 1
    RunTime = 3
    RetryDelay = 1
    MaxAttempts = 2
    MaxCrashes = 1
    Stages = 2
    External = {1}
    Closing = {1}
    ProviderLease = 1
    MaxParallel = 1
    MaxCalls = 2
    Claimant = {w1, w2}
    SignalPost = {1, 2, 3}
    Text = {"a", "b", "c"}
    UrlOf <- MCUrlOf
    Near <- MCNear
    Lexical <- MCLexical
    BatchSize = 3
    MaxBatches = 2
    Reporter = {r1, r2}
    Chronology <- MCChronology
    DayOf <- MCDayOf
    Rendering <- MCRendering
    MaxReports = 4
    MaxPowerLosses = 1
    Command = {c1, c2}
    Archive = {1, 2, 3}
    Tiers <- MCTiers
    LastMoment = 2
    Problem = {1, 2, 3}
    Candidate = {{1, 2}, {2, 3}, {1, 3}}
    Reviewer = {p1, p2}
INVARIANTS
    HandlerTypeOK
    CallLedger
    CallsInOrder
    StagesHaveSources
    LoginIsNeeded
    OneCollector
    OrderedNeverStuck
    EvidenceStands
    GroupsHold
    PointedReportStored
    LatestServed
    BackupsStand
    OneRestore
    DecisionsStand
PROPERTIES
    RecordsFrozen
CHECK_DEADLOCK FALSE
