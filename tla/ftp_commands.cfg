SPECIFICATION Spec
CONSTANTS
  Commands <- Every
  MaxCommands = 4
  Lines = {"unixFile", "unixLink", "dosFile", "missing", "other"}
  MaxLines = 2
  IPv6 = TRUE
INVARIANTS TypeOK CommandOutlivesSlots ReplyIsForCommand OverrunNeedsDataError ListingComplete
PROPERTIES QueueSpec CommandsEnd
CHECK_DEADLOCK FALSE
