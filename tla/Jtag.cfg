\* Every call, exchanges that fail or bring less than was asked for.
SPECIFICATION Spec
CONSTANTS
    Chain <- Eight
    Floating = 1
    Calls <- AllCalls
    Faults = {"Lost", "Short"}
    EmptyPulses = {0, 8}
    UnsignedMod = 65536
    MaxIDs = 8
    MaxCalls = 3
INVARIANTS TypeOK Lands ShiftsAll ReadsBack CountsDevices FindsIDs BangsLikePulses PlayFindsID
CHECK_DEADLOCK FALSE
