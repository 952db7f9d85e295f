CONSTANTS
    x = x
    y = y
    s1 = s1
    s2 = s2
    h1 = h1
    NoLayout = NoLayout
    TraceBatches <- MCTraceBatches
    LogBatches <- MCLogBatches
    MetricBatches <- MCMetricBatches
    MaxSpansPerTrace = 3
    CacheCap = 1
    Retention = 1
    Day = 2
    Micro = 2
    Horizon = 100
    FileBacked = TRUE
    MaxTrims = 2
    Faults = {"write", "sweep", "clear", "crash"}
    MaxTime = 3
    MaxOps = 6
SPECIFICATION Spec
CHECK_DEADLOCK FALSE
INVARIANTS
    DerivedTablesMatch
    NoDuplicateSpans
    TombstoneExcludes
    DimensionsSound
PROPERTY
    TrimDeletes
