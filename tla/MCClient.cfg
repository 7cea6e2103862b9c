CONSTANTS
    Heartbeats = {TRUE, FALSE}
    MaxStarts = 2
    MaxStops = 1
SPECIFICATION FairClientSpec
INVARIANT PanicOnlyMisuse
PROPERTY StopEnds
CHECK_DEADLOCK FALSE
