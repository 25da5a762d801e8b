------------------------------- MODULE MpJtag -------------------------------
(***************************************************************************)
(* mpjtg.py on top of the host library: scripts that shift through a JTAG  *)
(* port by MPSSE commands.  A call of MPJTAG writes commands and waits for *)
(* answers (mustRead); the device takes the bytes as they come (whole      *)
(* commands, in order: MpsseStream) and makes its adapter shift; the       *)
(* answers wait in the driver until they are read.                         *)
(***************************************************************************)
EXTENDS FTMessages, Mpsse

CONSTANTS
    Calls,       \* calls a script makes
    WriteFails,  \* may a write throw FTError?
    MaxCalls     \* bound: calls made

\* Calls _shift takes: at least one byte, the last of them with one to eight bits.
MpCall ==
    [op : {"toRTI"}]
      \cup [op : {"shiftIR", "shiftDR"}, b : Seq(Byte) \ {<<>>}, lst : 1 .. 8]

ASSUME CallsAssumption == Calls \subseteq MpCall
ASSUME WriteFailsAssumption == WriteFails \in BOOLEAN
ASSUME MaxCallsAssumption == MaxCalls \in Nat

VARIABLES
    call,        \* the call being made, or made last
    steps,       \* what it has yet to do
    reads,       \* what it has read so far
    status,      \* "idle": not called yet, "busy", "ok", "error": it raised an exception
    result,      \* what the call returned
    calls,       \* calls made so far
    toDevice,    \* bytes written and not yet executed
    toHost,      \* bytes answered and not yet read
    port,        \* the TAP and what is behind it
    start, trace \* the TAP's state when the call was made, what was shifted since

vars == <<call, steps, reads, status, result, calls, toDevice, toHost, port, start, trace>>

(***************************************************************************)
(* The calls, as sequences of writes and reads.                            *)
(***************************************************************************)
WriteStep(bytes) == [do |-> "write", bytes |-> bytes, n |-> 0]
ReadStep(n) == [do |-> "read", bytes |-> <<>>, n |-> n]
RaiseStep == [do |-> "raise", bytes |-> <<>>, n |-> 0]

LastByte(b) == b[Len(b)]
ButLast(b) == SubSeq(b, 1, Len(b) - 1)

OneMore(b) == Len(b) - 1

\* The byte count of all bytes but the last, less one.
LengthField(b) == Len(b) - 2

OneLess(b) == Len(b) - 2

\* A byte comes back for each.
ReadCount(b) == Len(b) - 1

WholeBytes(b) ==
    IF Len(b) = 1 THEN <<>>
    ELSE LET n == LengthField(b)
         IN <<WriteStep(<<\h39, n % 256, (n \div 256) % 256>> \o ButLast(b)),
              ReadStep(ReadCount(b))>>

OneBitField(lst) == lst - 3

AllBits(lst) == lst - 1

\* All bits of the last byte but the last, less one.
BitsField(lst) == lst - 2

PartByte(b, lst) ==
    IF lst = 1 THEN <<>>
    ELSE <<WriteStep(<<\h3b, BitsField(lst), LastByte(b)>>), ReadStep(1)>>

\* lastobyte: the bits from the last one on, that one in bit 7.  Python's integers do not
\* drop what is above, and bytes() then raises ValueError.
LastOut(b, lst) == (LastByte(b) \div 2 ^ (lst - 1)) * 128

LastBit(b, lst) ==
    IF LastOut(b, lst) > 255 THEN <<RaiseStep>>
    ELSE <<WriteStep(<<\h6b, 2, LastOut(b, lst) + \h03>>),
           ReadStep(1)>>

ShiftSteps(path, b, lst) ==
    <<WriteStep(path)>> \o WholeBytes(b) \o PartByte(b, lst) \o LastBit(b, lst)

ShortIdlePath == <<\h4b, 5, \h3f>>

IdlePath == <<\h4b, 6, \h3f>>
IRPath == <<\h4b, 3, \h03>>
DRPath == <<\h4b, 2, \h01>>

Steps(c) ==
    CASE c.op = "toRTI" -> <<WriteStep(IdlePath)>>
      [] c.op = "shiftIR" -> ShiftSteps(IRPath, c.b, c.lst)
      [] c.op = "shiftDR" -> ShiftSteps(DRPath, c.b, c.lst)

UnshiftedPart(byte) == byte

\* lastibyte: room for the bit that is still to come.
PartIn(byte) == byte \div 2

\* What _shift makes of what it read: all bytes, and the last one from its two parts.
Assembled(c, got) ==
    LET whole == IF Len(c.b) > 1 THEN got[1] ELSE <<>>
        part  == IF c.lst > 1 THEN PartIn(got[Len(got) - 1][1]) ELSE 0
        last  == 128 * BitOf(LastByte(got)[1], 7)
    IN whole \o <<(part + last) \div 2 ^ (8 - c.lst)>>

(***************************************************************************)
(* The script.                                                             *)
(***************************************************************************)
Call(c) ==
    /\ status # "busy" /\ calls < MaxCalls
    /\ call' = c /\ calls' = calls + 1
    /\ steps' = Steps(c) /\ status' = "busy"
    /\ reads' = <<>> /\ result' = <<>>
    /\ UNCHANGED <<toDevice, toHost, port, start, trace>>

Proceed(got) ==
    /\ steps' = Tail(steps)
    /\ status' = IF Len(steps) = 1 THEN "ok" ELSE "busy"
    /\ result' = IF Len(steps) = 1 /\ call.op # "toRTI" THEN Assembled(call, got) ELSE result

NextStep(do) == status = "busy" /\ Head(steps).do = do

\* MPSSE::write: all of it or an exception.
Write ==
    /\ NextStep("write")
    /\ toDevice' = toDevice \o Head(steps).bytes
    /\ Proceed(reads)
    /\ UNCHANGED <<call, calls, reads, toHost, port, start, trace>>

\* mustRead: FT_Read waits until there is as much (no timeout is set).
Read ==
    /\ NextStep("read")
    /\ LET n == Head(steps).n IN
         /\ Len(toHost) >= n
         /\ reads' = Append(reads, SubSeq(toHost, 1, n))
         /\ toHost' = Drop(toHost, n)
    /\ Proceed(reads')
    /\ UNCHANGED <<call, calls, toDevice, port, start, trace>>

Raise ==
    /\ NextStep("raise") \/ (WriteFails /\ NextStep("write"))
    /\ status' = "error" /\ steps' = <<>>
    /\ UNCHANGED <<call, calls, reads, result, toDevice, toHost, port, start, trace>>

(***************************************************************************)
(* The device: handleXferEPX and FWAdapter.                                *)
(***************************************************************************)
TmsOf(shift) == CASE shift = "TDI" -> -1 [] shift = "TMS_LO" -> 0 [] shift = "TMS_HI" -> 1

AdapterMessage(s) ==
    LET op == Head(s)
        tx == Payload(s)
        n  == IF Reads(op) THEN ShiftSize(s) ELSE 0
    IN IF op \in ByteOps THEN Message(tx, 7, -1, n)
       ELSE Message(tx, s[2], TmsOf(ShiftOp(op, IF Writes(op) THEN tx[1] ELSE 0)), n)

\* The command at the head of the stream.  The trace begins with the first bit shifted
\* for the call.
Execute ==
    /\ Complete(toDevice) /\ Head(toDevice) \in Shifts
    /\ \E m \in {AdapterMessage(toDevice)} : \E e \in Performed(port, m) :
       LET op == Head(toDevice)
           fresh == op = \h4b
       IN /\ port' = e.port
          /\ toHost' = IF ~Reads(op) THEN toHost
                       ELSE toHost \o (IF op \in BitOps THEN BitReply(e.reply) ELSE e.reply)
          /\ start' = IF fresh THEN e.port.tap ELSE start
          /\ trace' = IF fresh THEN <<>> ELSE trace \o e.trace
    /\ toDevice' = Drop(toDevice, CommandLen(toDevice))
    /\ UNCHANGED <<call, calls, steps, reads, status, result>>

\* PyMPSSE was opened, the port set, H19S has called toRTI.
Init ==
    /\ call = [op |-> "none"] /\ steps = <<>> /\ reads = <<>>
    /\ status = "idle" /\ result = <<>> /\ calls = 0
    /\ toDevice = IdlePath /\ toHost = <<>>
    /\ port = PowerUp /\ start = "TestLogicReset" /\ trace = <<>>

Script == Write \/ Read \/ Raise

Next == (\E c \in Calls : Call(c)) \/ Script \/ Execute

Spec == Init /\ [][Next]_vars

\* The script runs and the device serves its channel.
FairSpec == Spec /\ WF_vars(Script) /\ WF_vars(Execute)

-----------------------------------------------------------------------------
Step == [do : {"write", "read", "raise"}, bytes : Seq(Byte), n : Nat]

\* Every byte written is a byte, every step a step, the chain keeps a register selected.
TypeOK ==
    /\ steps \in Seq(Step) /\ reads \in Seq(Seq(Byte))
    /\ status \in {"idle", "busy", "ok", "error"} /\ calls \in 0 .. MaxCalls
    /\ toDevice \in Seq(Byte) /\ toHost \in Seq(Byte) /\ result \in Seq(Byte)
    /\ port \in Port
    /\ start \in TapStates /\ trace \in Seq([tdi : Bit, tdo : Bit])
    /\ status = "busy" <=> steps # <<>>

IsShift == call.op \in {"shiftIR", "shiftDR"}

Bits(c) == 8 * (Len(c.b) - 1) + c.lst

\* A shift that returned, out of run-test-idle as it should be called.
ProperShift == status = "ok" /\ IsShift /\ start \in Shifting

\* The answers stay in step with the questions: between calls no byte is left to be read
\* and none will come, so that no call can take another one's answer.
InStep == status # "busy" => toHost = <<>> /\ (toDevice # <<>> => Head(toDevice) = \h4b)

\* toRTI leads to run-test-idle from anywhere, also when an exception - of a write, or of
\* bytes() for bits above lst - had left the TAP in the middle of a shift; a shift that
\* returns leads there too.
Lands ==
    toDevice = <<>> /\ (ProperShift \/ (status = "ok" /\ call.op = "toRTI"))
        => port.tap = "RunTestIdle"

\* _shift puts every bit of b into the register, once and in order.
ShiftsAll ==
    ProperShift => [i \in DOMAIN trace |-> trace[i].tdi] = BitsOf(call.b, Bits(call))

\* All bits _shift returns but the last one are those that came out of the register.
ReadsAllButLast ==
    ProperShift => \A i \in 1 .. Bits(call) - 1 : BitsOf(result, Bits(call))[i] = trace[i].tdo

\* The last one too: lst bits of the last byte returned, as the comment on lst has it.
ReadsBack ==
    ProperShift => BitsOf(result, Bits(call))[Bits(call)] = trace[Bits(call)].tdo

\* Every call ends: no answer is waited for that the device does not give.
CallsEnd == status = "busy" ~> status # "busy"
=============================================================================
