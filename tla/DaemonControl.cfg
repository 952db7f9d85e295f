CONSTANTS
    Clients = {c1, c2}
    Daemons = {d1, d2}
    None = None
    MaxCommands = 3
SPECIFICATION FairSpec
CHECK_DEADLOCK FALSE
INVARIANTS
    RunningIsVisible
PROPERTY
    CommandsEnd
