CONSTANTS
    s1 = s1
    s2 = s2
    Streams <- MCStreams
    Packets <- MCPacketSet
    UpdateInterval = 1
    MaximumLatency = 2
    MaximumFutureTime = 0
    MaxClock = 4
    MaximumQueueSize = 2
    MaxArrivals = 2
    PrintSummaryInterval = 1
    Configurations <- MCConfigurations

SPECIFICATION ObserversSpec

INVARIANTS
    ExportedPartsWithinTotal
    ExportedGaugesComplete
    NoPacketReportedTwice

\* Without an exporter the bounded clock and arrivals run out.
CHECK_DEADLOCK FALSE
