SPECIFICATION Spec
CONSTANTS
    Values = {v1, v2, v3}
    Faults = {"write", "partial"}
    MaxFaults = 3
INVARIANTS JournalInv NoStaleRecord ReplaceKeepsJournal
