SPECIFICATION Spec
CONSTANTS
    Consoles = {TRUE}
    Faults = {"reboot"}
    MaxFaults = 1
    MaxCrashes = 0
INVARIANTS BootPayloadKept
CHECK_DEADLOCK FALSE
