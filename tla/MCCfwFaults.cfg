SPECIFICATION Spec
CONSTANTS
    N = 3
    Package = {1, 3}
    Legacy = {2}
    Consoles = {TRUE, FALSE}
    SameSize = FALSE
    Faults = {"write", "read", "short", "reboot"}
    MaxFaults = 2
    MaxCrashes = 1
CHECK_DEADLOCK FALSE
INVARIANTS SuccessMeansInstalled SuccessMeansBootable CfwBootInv
