CONSTANTS
    FlushOnStart = TRUE
    ReaderIsPrompt = TRUE
    ThreadMayBeRefused = TRUE
    InitializationFiles <- MCInitializationFiles
    SizeModulus = 65536

SPECIFICATION ProgramSpec

INVARIANT
    DocumentedFileExports

\* The program exits.
CHECK_DEADLOCK FALSE
