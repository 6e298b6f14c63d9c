SPECIFICATION FairSpec
CONSTANTS
    Consoles = {TRUE, FALSE}
    Faults = {}
    MaxFaults = 0
    MaxCrashes = 5
\* A payload.bin torn by a power cut starts nothing: the console really stops.
CHECK_DEADLOCK FALSE
INVARIANTS CrashInv Recoverable BootInv BootPayloadKept
PROPERTIES BackupKept PendingSettled ImplementsTransaction
