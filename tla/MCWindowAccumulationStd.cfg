CONSTANTS
    SampleValues <- MCSampleValues
    Latencies <- MCLatencies
    PacketSizes <- MCPacketSizes
    UpdateInterval = 1
    IntWidth = 8
    MaxSamples = 3
    MaxTime = 2

SPECIFICATION Spec

INVARIANT
    StdIsAStandardDeviation

\* The bounded clock and samples run out.
CHECK_DEADLOCK FALSE
