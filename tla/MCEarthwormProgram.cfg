CONSTANTS
    FlushOnStart = TRUE
    ReaderIsPrompt = TRUE
    ThreadMayBeRefused = TRUE
    InitializationFiles <- MCInitializationFiles
    SizeModulus = 65536

SPECIFICATION ProgramSpec

INVARIANTS
    ReadsAttachedRegion
    DetachesAttachedRegion
    ThreadsEndBeforeTheirMembers
    WaitsOnValidFutures
    DestructorDoesNotThrow
    OptionsMeetAssumptions

PROPERTIES
    ImplementsLife
    SignalEndsTheProgram
    KillFlagEndsTheProgram

\* The program exits.
CHECK_DEADLOCK FALSE
