SPECIFICATION FairSpec
CONSTANTS
    N = 4
    Package = {1, 2, 4}
    Legacy = {3}
    Consoles = {TRUE, FALSE}
    SameSize = TRUE
    Faults = {}
    MaxFaults = 0
    MaxCrashes = 3
CHECK_DEADLOCK FALSE
INVARIANTS CfwCrashInv OriginalsKept SentinelsTrue RestoredMeansPrevious
PROPERTIES PendingSettled
