CONSTANTS
    Codes <- MCCodes
    BlankCodes <- MCBlankCodes
    Converted <- MCConverted
    Payloads <- MCPayloads
    Messages <- MCMessages
    Rates <- MCRates
    StartTimes <- MCStartTimes
    Signals <- MCSignals
    MaxPayloads = 2

SPECIFICATION Spec

INVARIANTS
    WholeBufferOrNothing
    OnlySkippedBuffersLeak
    EndTimeIsCurrent
    PacketsAreFaithful
    SoundMessagesAreOffered

\* No buffer is collected beyond the bound.
CHECK_DEADLOCK FALSE
