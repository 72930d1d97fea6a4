SPECIFICATION Spec
CONSTANTS
    Width = 3
    KeyParts <- Key
    Full <- FullText
    Bare <- BareText
    Refusal <- RefusalText
    Garbage <- GarbageText
    Randoms <- SomeRandoms
    MaxDay = 2
    Kept = 1
    DefaultDays = 1
    Settings = {0, 1}
INVARIANTS
    TypeOK
    CacheReadIsSaved
    OneThingDue
PROPERTIES
    OutageUsesCache
    CycleGoesOn
    NewestKept
