SPECIFICATION LibrarySpec
CONSTANTS
    d1 = d1
    d2 = d2
    c1 = c1
    c2 = c2
    Daemons <- TwoDaemons
    Clients <- TwoClients
    None = None
    Offered <- Asked
    Flags <- NoFlags
    WinFlags <- AllControls
    MaxPolls = 2
INVARIANTS
    Types
    RunningIsReachable
    StartSeesDaemon
    TrueMeansStopped
    NobodyIsLeftWaiting
    StoppedMeansNoUpdate
PROPERTIES
    RequestsEnd
