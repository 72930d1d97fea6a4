SPECIFICATION Spec
CONSTANTS
    Size = 2
    MaxLen = 3
    Channels = {}
    Names = {1, 3}
    Timetables = {"timetable"}
    MaxVersion = 3
    MaxFailures = 2
    Listed <- Returning
    Unsized <- ReturningUnsized
    Faults <- Crashes
INVARIANTS
    AdvertsIntact
    TimetablesWhole
PROPERTIES
    PermanentAdvertStays
