CONSTANTS
    Traces = {"t1"}
    Terms = {"t1", "svc"}
    Junk = "junk"
    Undefined = Undefined
    Texts = {"x"}
    Ranges = {0, 3, 4}
    Default = 3
    Now = 20
    LogTime = 19
    MaxEvents = 4
SPECIFICATION BrowseSpec
PROPERTIES TabRestores EditHitsItsTerm WidthSurvives
CHECK_DEADLOCK FALSE
