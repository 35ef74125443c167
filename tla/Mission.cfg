\* Two posts and three sources over two runs; two opportunities over three runs; two
\* operators with two missions.
SPECIFICATION MissionSpec
CONSTANTS
    Posts <- MCPosts
    Homes <- MCHomes
    QueryOrder <- MCQueryOrder
    Queries <- MCQueries
    Plans <- MCPlans
    Bands <- MCBands
    Lookback = 6
    Overlap = 2
    Delay = 2
    Day = 2
    Signals = 4
    SourceCap = 3
    Requests = 2
    Rounds = 2
    Runs = 2
    Horizon = 2
    o1 = o1
    o2 = o2
    Opportunity = {o1, o2}
    Request = {q1}
    MaxRuns = 3
    Cooldown = 1
    MissionId = {1, 2}
    Operator = {p1, p2}
    LastRevision = 2
SYMMETRY Alike
INVARIANTS
    TypeOK
    SnapshotsAgree
    DecisionsDiffer
    ProductsStand
    CollectionTypeOK
    LateArrivalsCovered
    RoundsFit
    RevisionsChain
    CommandsMove
PROPERTY
    ImplementsAssessments
CHECK_DEADLOCK FALSE
