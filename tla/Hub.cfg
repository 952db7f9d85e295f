CONSTANTS
    Clients = {a, b}
    None = None
    BroadcastQueueSize = 1
    SendBufferSize = 1
    MaxMessages = 2
SPECIFICATION HubFairSpec
CHECK_DEADLOCK FALSE
INVARIANTS
    OpenWhileRegistered
    StreamComplete
PROPERTIES
    ConnectionsEnd
