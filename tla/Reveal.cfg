SPECIFICATION Spec
CONSTANTS
    Absent = Absent
    Ports <- TwoPorts
    Outputs <- Files
    Settings <- SomeSettings
    MaxRuns = 2
INVARIANTS
    OriginalKept
    Untouched
    EditedOnce
    Rewired
    PortsWellFormed
CHECK_DEADLOCK FALSE
