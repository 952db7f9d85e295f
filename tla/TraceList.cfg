SPECIFICATION FairSpec
CONSTANTS
    Ids = {1, 2, 3}
    Stored = {1, 2}
    Opened = {1}
    Scopes = {0, 2}
    Default = 2
    Cap = 2
    PageSize = 1
    MaxSpans = 2
    MaxEvents = 3
INVARIANTS NoHole RowsTrue
PROPERTIES DetailKept SelectedIsShown
CHECK_DEADLOCK FALSE
