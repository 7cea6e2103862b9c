CONSTANTS
    MaxSize = 2
    MaxAge = 1
    Zones <- Behind
    DayLen = 2
    MaxTime = 3
    MaxLines = 3
    MaxFaults = 1
    MaxCrashes = 1
SPECIFICATION FairSpec
INVARIANTS
    FlushedKept
    AcceptedKept
PROPERTIES
    RecentKept
    LinesFlushed
CHECK_DEADLOCK FALSE
