\* Every command; two channels, one of them without adapter; writes are cut inside their
\* payloads, the adapter reads short or fails.
SPECIFICATION Spec
CONSTANTS
    Tdo <- Tdos
    ShortReads = TRUE
    NumChannels = 2
    Adapters = {1}
    Commands <- Everything
    Requests <- Requests2
    Cuts = {"body", "end"}
    Stray = {0}
    CountMod = 65536
    Faults = {"AdapterError"}
    MaxCmds = 2
    MaxXfer = 8
PROPERTY StreamSpec
CHECK_DEADLOCK FALSE
