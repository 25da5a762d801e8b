\* The bit that comes with TMS.
SPECIFICATION Spec
CONSTANTS
    Chain <- One
    Floating = 0
    Tdo = {}
    ShortReads = FALSE
    Calls <- ScriptCalls
    WriteFails = FALSE
    MaxCalls = 2
INVARIANT ReadsBack
CHECK_DEADLOCK FALSE
