\* Transfers may end anywhere, bytes behind a transfer are arbitrary,
\* requests and modes are whatever a host may send.
SPECIFICATION Spec
CONSTANTS
    Tdo <- OneTdo
    ShortReads = FALSE
    NumChannels = 2
    Adapters = {1}
    Commands <- Everything
    Requests <- AllRequests
    Cuts = {"head", "body", "rwbody", "end"}
    Stray <- StrayBytes
    CountMod = 65536
    Faults = {"WrongMode", "AdapterError", "EmptyTransfer", "Abandon"}
    MaxCmds = 2
    MaxXfer = 8
INVARIANTS TypeOK FragmentOpen FragmentFirst LoopbackWithoutAdapter TruncationFatal
PROPERTY FragmentHonoured
CHECK_DEADLOCK FALSE
