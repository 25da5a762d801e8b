\* A transfer may end between the header and the payload of a write.
SPECIFICATION Spec
CONSTANTS
    Tdo <- OneTdo
    ShortReads = FALSE
    NumChannels = 1
    Adapters = {1}
    Commands <- Split
    Requests <- Requests1
    Cuts = {"gap", "body", "end"}
    Stray = {0}
    CountMod = 65536
    Faults = {}
    MaxCmds = 2
    MaxXfer = 8
PROPERTY StreamSpec
CHECK_DEADLOCK FALSE
