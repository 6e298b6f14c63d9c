SPECIFICATION Spec
CONSTANTS
    N = 3
    Package = {1, 3}
    Legacy = {2}
    Consoles = {FALSE}
    SameSize = FALSE
    Faults = {"short"}
    MaxFaults = 1
    MaxCrashes = 0
PROPERTY LostJournalKeepsBackup
