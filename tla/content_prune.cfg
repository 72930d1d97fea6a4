SPECIFICATION Spec
CONSTANTS
    Size = 1
    MaxLen = 2
    Channels = {1, 2}
    Names = {1, 2, 3}
    Timetables = {}
    MaxVersion = 2
    MaxFailures = 2
    Listed <- SameNames
    Unsized = {}
    Faults <- Renames
PROPERTIES
    PermanentTrackStays
