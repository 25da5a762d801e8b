\* Two channels, one of them without adapter; handles come and go; writes are cut
\* inside their payloads.
SPECIFICATION FairSessionSpec
CONSTANTS
    Tdo <- OneTdo
    ShortReads = FALSE
    NumChannels = 2
    Adapters = {1}
    Commands <- SessionCommands
    Requests <- SessionRequests
    Cuts = {"body", "end"}
    Stray = {0}
    CountMod = 65536
    Faults = {"WrongMode"}
    MaxCmds = 4
    MaxXfer = 8
    DirMask <- Mask
    MaxSessions = 2
INVARIANTS ModeHeld NeverHalts
PROPERTIES Served Opens
CHECK_DEADLOCK FALSE
