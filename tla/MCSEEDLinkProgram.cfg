CONSTANTS
    ServerMayFail = TRUE
    ThreadMayBeRefused = TRUE
    InitializationFiles <- MCInitializationFiles
    SizeModulus = 65536
    Fields <- MCFields
    Size <- MCSize
    Upper <- MCUpper
    Matches <- MCMatches
    Streams <- MCStreams

SPECIFICATION ProgramSpec

INVARIANTS
    ThreadsEndBeforeTheirMembers
    WaitsOnValidFutures
    DestructorDoesNotThrow
    OptionsMeetAssumptions
    ExporterReadsLiveMetrics
    AskedStreamsAreSubscribed
    OnlyAskedStations

PROPERTIES
    ImplementsLife
    SignalEndsTheProgram
    FailureEndsTheProgram

\* The program exits.
CHECK_DEADLOCK FALSE
