CONSTANTS
    ServerMayFail = FALSE
    ThreadMayBeRefused = FALSE

SPECIFICATION Spec

INVARIANT
    StopIsNotAFailure

\* The program exits.
CHECK_DEADLOCK FALSE
