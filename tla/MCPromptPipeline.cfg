CONSTANTS
    s1 = s1
    s2 = s2
    Streams <- MCStreams
    Packets <- MCPacketSet
    UpdateInterval = 2
    MaximumLatency = 3
    MaximumFutureTime = 0
    MaxClock = 8
    MaximumQueueSize = 2
    MaxArrivals = 3

SPECIFICATION PromptSpec

INVARIANT
    WindowsCloseInTime

\* The bounded clock and arrivals run out.
CHECK_DEADLOCK FALSE
