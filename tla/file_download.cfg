SPECIFICATION Spec
CONSTANTS
    Size = 3
    MaxLen = 7
    Environments <- All
INVARIANTS
    TypeOK
    TrustedIsComplete
    TimerNeedsReply
PROPERTIES
    CompleteIsTrusted
    DownloadEnds
    FetchSpec
