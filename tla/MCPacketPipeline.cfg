CONSTANTS
    s1 = s1
    s2 = s2
    Streams <- MCStreams
    Packets <- MCPacketSet
    UpdateInterval = 1
    MaximumLatency = 2
    MaximumFutureTime = 0
    MaxClock = 3
    MaximumQueueSize = 2
    MaxArrivals = 4

SPECIFICATION PublishedFairSpec

INVARIANTS
    TypeOK
    EveryPacketCountedOnce
    WindowsHoldTheValidPackets
    QueueIsTheNewest
    CumulativeCountersAgree
    GaugesAverageTheirPackets

PROPERTIES
    QueuedPacketsMoveOn
    StopEndsTheThread
    TakenInOrderDroppedWhenFull
    ImplementsLedger

\* After a stop the metrics thread ends and nothing more need happen.
CHECK_DEADLOCK FALSE
