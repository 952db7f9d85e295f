CONSTANTS
    Fields = {"severity_number"}
    NumericFields = {"severity_number"}
    Attributes = {"attributes.k"}
    Feed <- MCFeed
    Stored = 3
    Windows <- MCWindows
    Default <- MCLive
    Clocks = {5}
    Typed <- MCTyped
    Cap = 5
    PageSize = 2
    RenderMax = 1
    MaxFilters = 1
    MaxEvents = 2
SPECIFICATION Spec
INVARIANTS EverythingReachable
PROPERTIES SlideIsContiguous RowsStayPut QueryRoundTrips
CHECK_DEADLOCK FALSE
