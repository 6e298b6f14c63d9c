CONSTANTS
    Titles <- MCTitles
    BaseTitle = "base"
    Package <- MCPackage
    MaxRecords = 2
    MaxFaults = 2
    MaxCrashes = 2
SPECIFICATION Spec
INVARIANTS InstalledKept MetaMeansContents RollbackClean
