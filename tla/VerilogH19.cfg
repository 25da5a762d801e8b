SPECIFICATION Spec
CONSTANTS
    Absent = Absent
    Ports <- TwoPorts
    Outputs <- Files
    Settings <- SomeSettings
    MaxRuns = 2
INVARIANT OriginalRemoved
CHECK_DEADLOCK FALSE
