SPECIFICATION Spec
CONSTANTS
    Kinds = {"app", "cheats", "custom", "ports"}
    Entries <- MCEntries
    Inis = {"ini"}
    Ignored = {"mark"}
    Own = {"self"}
    Hekate = {"hekate"}
INVARIANTS
    HomeBlockedWhileWorking
    DoneMeansInstalled
    ReadyMeansStaged
    FreshExtraction
PROPERTIES
    WorkEnds
    CancelReturns
