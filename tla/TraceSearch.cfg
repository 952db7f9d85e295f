SPECIFICATION FairSpec
CONSTANTS
    Ids = {t1, t2}
    Searches = {a, b}
    First = a
    BatchMax = 1
    MaxDelay = 2
    MaxUpdates = 2
    MaxSearches = 2
    MaxFaults = 2
INVARIANTS VouchedTrue NothingForgotten
PROPERTIES QuestionsEnd
CHECK_DEADLOCK FALSE
