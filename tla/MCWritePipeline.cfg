CONSTANTS
    p1 = p1
    k1 = k1
    sweeper = sweeper
    c1 = c1
    c2 = c2
    Producers <- MCProducers
    Controllers <- MCControllers
    SweepLoop <- MCSweepLoop
    Closers <- MCClosers
    Signals <- MCSignals
    Controls = {"sync", "clear"}
    Listener = "batch"
    WriteQueueSize = 1
    CommitQueueSize = 1
    MetricBatchSize = 2
    MaxCalls = 3
SPECIFICATION FairSpec
INVARIANTS
    NoSendOnClosed
    SyncIsBarrier
    CloseDrains
PROPERTIES
    CallsReturn
    ImplementsCommitStream
