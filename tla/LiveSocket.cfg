SPECIFICATION FairSpec
CONSTANTS
    Queries = {q1}
    Incoming = {q1}
    Feed = feed
    Sockets = {1, 2}
    MaxDelay = 2
    MaxTimers = 2
    MaxChanges = 2
    MaxFaults = 2
INVARIANTS OneSocket StaleIsNoticed
PROPERTIES EventuallyFresh EventuallyConnected
CHECK_DEADLOCK FALSE
