\* The largest byte count, with counts of two bits.
SPECIFICATION Spec
CONSTANTS
    Tdo <- OneTdo
    ShortReads = FALSE
    NumChannels = 1
    Adapters = {1}
    Commands <- Overflowing
    Requests <- Requests1
    Cuts = {"body", "end"}
    Stray = {0}
    CountMod = 4
    Faults = {}
    MaxCmds = 2
    MaxXfer = 8
PROPERTY StreamSpec
CHECK_DEADLOCK FALSE
