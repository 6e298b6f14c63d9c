SPECIFICATION Spec
CONSTANTS
    Consoles = {TRUE}
    Faults = {"write", "read", "partial", "reboot"}
    MaxFaults = 2
    MaxCrashes = 2
INVARIANTS InstallInv SuccessMeansInstalled
\* payload.bin torn by an error or a power cut starts nothing.
CHECK_DEADLOCK FALSE
