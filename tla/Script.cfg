\* Shifts of one to three bytes with every kind of last byte, one of them with bits too many;
\* writes may fail anywhere.
SPECIFICATION FairSpec
CONSTANTS
    Chain <- One
    Floating = 1
    Tdo = {}
    ShortReads = FALSE
    Calls <- ScriptCalls
    WriteFails = TRUE
    MaxCalls = 3
INVARIANTS TypeOK InStep Lands ShiftsAll ReadsAllButLast
PROPERTY CallsEnd
CHECK_DEADLOCK FALSE
