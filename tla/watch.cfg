SPECIFICATION FairSpec
CONSTANTS
    None = None
    MaxPolls = 3
    MaxEvents = 6
    MaxLosses = 2
INVARIANTS
    TypeOK
    PrintedInOrderOnce
PROPERTIES
    StreamedUntilLost
    WatcherStops
CHECK_DEADLOCK FALSE
