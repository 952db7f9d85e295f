CONSTANTS
    Spans = {1, 2, 3, 4}
    Traces <- MCTraces
    Early = {1, 2}
    Names = {"n"}
    Width = 4
    Stops = {0, 250, 999, 1000}
    MaxEvents = 3
SPECIFICATION Spec
INVARIANTS RowsAreTheTree ZoomShowsTheSpans
PROPERTIES SelectionRevealed
CHECK_DEADLOCK FALSE
