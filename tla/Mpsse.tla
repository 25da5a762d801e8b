------------------------------- MODULE Mpsse -------------------------------
(***************************************************************************)
(* The FTDI MPSSE command set as VirtualFTDIDevice::handleXferEPX knows it:*)
(* operation codes, their classes, the layout of a command (opcode, header,*)
(* payload) and the adapter calls a command turns into.  No state.         *)
(***************************************************************************)
EXTENDS Integers, Sequences

CONSTANTS
    Tdo,         \* byte values the JTAG adapter may shift out of TDO
    ShortReads   \* may the adapter return fewer bytes than asked for?

Byte == 0 .. 255
Word == 0 .. 256 * 256 - 1

ASSUME TdoAssumption == Tdo \subseteq Byte
ASSUME ShortReadsAssumption == ShortReads \in BOOLEAN

\* The operation codes with an effect of their own.
Ignored      == \h00
Sync         == {\haa, \hab}          \* answered with "bad command"
LoopbackOn   == \h84
LoopbackOff  == \h85
PortLow      == \h80
PortHigh     == \h82
ClockDivisor == \h86
Flush        == \h87
ClockModes   == {\h8a, \h8b, \h8d, \h97}
BitOps       == {\h2e, \h1b, \h4b, \h3b, \h6b}
ByteOps      == {\h19, \h39, \h2c}
Shifts       == BitOps \cup ByteOps

Opcodes == Sync \cup ClockModes \cup Shifts
             \cup {Ignored, LoopbackOn, LoopbackOff, PortLow, PortHigh, ClockDivisor, Flush}

\* The mask tests  ftcmd & 0x20,  ftcmd & 0x50 (0x10 for bytes),  ftcmd & 0x40.
Reads(op)  == op \in {\h2e, \h3b, \h6b, \h39, \h2c}
Writes(op) == op \in {\h1b, \h4b, \h3b, \h6b, \h19, \h39}
IsTms(op)  == op \in {\h4b, \h6b}

\* Operations that mustbeMPSSE() guards.
NeedsMpsse(op) == op \in Shifts \cup {Flush}

\* Operations after which the host waits for a packet even if it carries no data.
WantsStatus(op) == op \in Sync \cup ClockModes \cup {LoopbackOn, LoopbackOff, ClockDivisor,
                                                     \h39, \h2c}

\* The level TDI is held at while a TMS byte d is shifted (FTInterface::ShiftOp).
ShiftOp(op, d) == IF ~IsTms(op) THEN "TDI" ELSE IF d >= \h80 THEN "TMS_HI" ELSE "TMS_LO"

\* A call of the adapter: FTInterface::mpsse(), or FTInterface::setPortLevels().
ShiftCall(tx, bits, shift, rx) == [call |-> shift, tx |-> tx, bits |-> bits, rx |-> rx]
PortCall(level) == [call |-> "port", tx |-> <<level>>, bits |-> 0, rx |-> <<>>]

Zeros(n) == [i \in 1 .. n |-> 0]

\* What the adapter may answer when n bytes of TDO are asked for.
Answers(n) == IF ShortReads THEN UNION {[1 .. k -> Tdo] : k \in 0 .. n} ELSE [1 .. n -> Tdo]

\* A bit shift reserves one reply byte and ignores how many the adapter filled in.
BitReply(rx) == IF rx = <<>> THEN <<0>> ELSE <<Head(rx)>>

\* The sequence left after its first n elements.
Drop(s, n) == SubSeq(s, n + 1, Len(s))

\* Layout of the command at the head of s; a byte count is one less than the size.
HeaderLen(op) ==
    IF op \in ByteOps \cup {PortLow, PortHigh, ClockDivisor} THEN 3
    ELSE IF op \in BitOps THEN 2 ELSE 1

ShiftSize(s) == IF Head(s) \in ByteOps THEN 256 * s[3] + s[2] + 1 ELSE 1

CommandLen(s) == HeaderLen(Head(s)) + (IF Writes(Head(s)) THEN ShiftSize(s) ELSE 0)

Complete(s) == /\ s # <<>>
               /\ Len(s) >= HeaderLen(Head(s))
               /\ Len(s) >= CommandLen(s)

Payload(s) == SubSeq(s, HeaderLen(Head(s)) + 1, CommandLen(s))
=============================================================================
