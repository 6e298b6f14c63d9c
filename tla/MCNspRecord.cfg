CONSTANTS
    Titles <- MCTitles
    BaseTitle = "base"
    Package <- MCPackage
    MaxRecords = 2
    MaxFaults = 0
    MaxCrashes = 1
SPECIFICATION Spec
INVARIANTS PushedIsInstalled
