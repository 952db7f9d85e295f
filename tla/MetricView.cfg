SPECIFICATION Spec
CONSTANTS
    TargetBuckets = 2
    FacetMax = 2
    Colors = 2
    Hash <- MCHash
    Points <- MCPoints
    Others = {"n"}
    History <- MCHistory
    Windows <- MCWindows
    Addressed <- MCLive
    Hooks = {"aggregate", "distribution"}
    MetricCap = 2
    MaxDataPoints = 1
    MaxCommits = 2
    MaxEvents = 2
    MaxFailures = 1
INVARIANTS BatchingIsInvisible PointsComplete SummaryMatchesChart SeriesCatchUp
CHECK_DEADLOCK FALSE
