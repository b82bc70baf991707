CONSTANTS
    SampleValues <- MCSampleValues
    Latencies <- MCLatencies
    PacketSizes <- MCPacketSizes
    UpdateInterval = 1
    IntWidth = 5
    MaxSamples = 3
    MaxTime = 2

SPECIFICATION Spec

INVARIANTS
    AveragesAreExact
    StdIsScaledDeviation

\* The bounded clock and samples run out.
CHECK_DEADLOCK FALSE
