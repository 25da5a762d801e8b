\* A transfer may end inside the payload of a read-write command.
SPECIFICATION Spec
CONSTANTS
    Tdo <- OneTdo
    ShortReads = FALSE
    NumChannels = 1
    Adapters = {1}
    Commands <- SplitRead
    Requests <- Requests1
    Cuts = {"rwbody", "end"}
    Stray = {0}
    CountMod = 65536
    Faults = {}
    MaxCmds = 2
    MaxXfer = 8
PROPERTY StreamSpec
CHECK_DEADLOCK FALSE
