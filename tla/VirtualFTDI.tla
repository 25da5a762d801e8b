---------------------------- MODULE VirtualFTDI ----------------------------
(***************************************************************************)
(* VirtualFTDIDevice: the emulated FTDI chip.  One thread (run) takes USB  *)
(* transfers one at a time; handleXferEPX interprets the MPSSE commands in *)
(* a transfer one after the other, keeping the payload of a byte command   *)
(* that the transfer cuts short in the channel until the rest arrives.     *)
(* handleXferEP0 serves the vendor requests.  Every throw ends the process *)
(* (main catches it and calls _exit).                                      *)
(*                                                                         *)
(* The host is the environment: it writes whole commands, its USB stack    *)
(* cuts the bytes into transfers, and it reads the replies.                *)
(***************************************************************************)
EXTENDS Mpsse

CONSTANTS
    NumChannels, \* size of _channels
    Adapters,    \* channels given an FTInterface by addChannel
    Commands,    \* encoded commands the host may write
    Requests,    \* vendor requests the host may send on endpoint 0
    Cuts,        \* places where a transfer may end, see CutAfter
    Stray,       \* bytes that may lie behind the end of a transfer's buffer
    CountMod,    \* a byte count is computed in this modulus (uint16_t)
    Faults,      \* what else may happen, a subset of FaultKinds
    MaxCmds,     \* bound: commands the host issues
    MaxXfer      \* bound: bytes per transfer

Channels == 1 .. NumChannels
FaultKinds == {"WrongMode", "AdapterError", "EmptyTransfer", "Abandon"}
CutKinds == {"head", "gap", "body", "rwbody", "end"}
MpsseMode == \h02

\* A USB setup packet (bmRequestType in its three fields).
Request == [type : {"standard", "class", "vendor"}, dir : {"in", "out"},
            recipient : {"device", "interface", "endpoint"}, request : Byte,
            index : Word, value : Word, length : Word]

ASSUME NumChannelsAssumption == NumChannels \in Byte \ {0}
ASSUME AdaptersAssumption == Adapters \subseteq Channels
ASSUME CommandsAssumption == Commands \subseteq Seq(Byte)
ASSUME RequestsAssumption == Requests \subseteq Request
ASSUME StrayAssumption == Stray \subseteq Byte /\ Stray # {}
ASSUME CountModAssumption == CountMod \in Nat \ {0}
ASSUME FaultsAssumption == Faults \subseteq FaultKinds /\ Cuts \subseteq CutKinds
ASSUME BoundsAssumption == MaxCmds \in Nat /\ MaxXfer \in Nat

VARIABLES
    frag, total, hasRep,  \* fragmentedTx, fragmentedTxTotal, fragmentedTxHasRep
    loopback, gMode,      \* the other state of a Channel
    pc,                   \* where the device thread is: see PcKinds
    cur,                  \* channel of the transfer being handled
    data,                 \* bytes of that transfer from cmdsz on
    rep, sendStatus,      \* handleXferEPX's locals (rep without the 2 skipped bytes)
    wire,                 \* per channel, bytes written by the host and not yet transferred
    inData,               \* per channel, buffers given to write(epIn) and not yet read
    exec,                 \* per channel, the calls made of its adapter
    issued,               \* commands issued so far
    lastCut               \* where the transfer being handled, or the last one, ended;
                          \* "abandoned" once the host has given up a command

PcKinds == {"idle", "resume", "loop", "halted"}

chanVars == <<frag, total, hasRep, loopback, gMode>>
xferVars == <<pc, cur, data, rep, sendStatus, lastCut>>
hostVars == <<wire, inData, issued>>
vars == <<chanVars, xferVars, hostVars, exec>>

(***************************************************************************)
(* The host.                                                               *)
(***************************************************************************)

\* The class of the place behind the i-th byte of command c: inside the header,
\* between header and payload, inside the payload, at the end.
CutAfter(c, i) ==
    IF i = Len(c) THEN "end"
    ELSE IF Head(c) \notin ByteOps \/ i < 3 THEN "head"
    ELSE IF i = 3 THEN "gap"
    ELSE IF Reads(Head(c)) THEN "rwbody" ELSE "body"

Encoded(c) == [i \in 1 .. Len(c) |-> [byte |-> c[i], cut |-> CutAfter(c, i)]]
Bytes(w) == [i \in 1 .. Len(w) |-> w[i].byte]

\* A host that keeps the protocol writes in MPSSE mode only.
Issue(ch, c) ==
    /\ issued < MaxCmds
    /\ gMode[ch] = MpsseMode \/ "WrongMode" \in Faults
    /\ wire' = [wire EXCEPT ![ch] = @ \o Encoded(c)]
    /\ issued' = issued + 1
    /\ UNCHANGED <<chanVars, xferVars, inData, exec>>

HostRead(ch) ==
    /\ inData[ch] # <<>>
    /\ inData' = [inData EXCEPT ![ch] = Tail(@)]
    /\ UNCHANGED <<chanVars, xferVars, wire, issued, exec>>

\* The host gives up on a channel: what it has not sent it never will, and it resets
\* the port (request 0x00).  handleXferEP0 takes the request and changes nothing.  From
\* here on the device's idea of where commands begin is its own.
ResetPort(ch) ==
    /\ "Abandon" \in Faults
    /\ pc = "idle"
    /\ wire[ch] # <<>>
    /\ wire' = [wire EXCEPT ![ch] = <<>>]
    /\ lastCut' = "abandoned"
    /\ UNCHANGED <<chanVars, pc, cur, data, rep, sendStatus, inData, issued, exec>>

(***************************************************************************)
(* run(), and the start of handleXferEPX: a transfer arrives.              *)
(***************************************************************************)
Deliver(ch) ==
    /\ pc = "idle"
    /\ \E n \in 1 .. Len(wire[ch]) :
         /\ n <= MaxXfer
         /\ wire[ch][n].cut \in Cuts
         /\ data' = Bytes(SubSeq(wire[ch], 1, n))
         /\ wire' = [wire EXCEPT ![ch] = Drop(@, n)]
         /\ lastCut' = IF lastCut = "abandoned" THEN lastCut ELSE wire[ch][n].cut
    /\ cur' = ch
    /\ pc' = IF frag[ch] # <<>> THEN "resume" ELSE "loop"
    /\ UNCHANGED <<chanVars, rep, sendStatus, inData, issued, exec>>

EmptyTransfer ==
    /\ "EmptyTransfer" \in Faults
    /\ pc = "idle"
    /\ pc' = "halted"
    /\ UNCHANGED <<chanVars, cur, data, rep, sendStatus, lastCut, hostVars, exec>>

(***************************************************************************)
(* handleXferEP0.                                                          *)
(***************************************************************************)
OutRequests == {\h00, \h02, \h06, \h07, \h09, \h0b}   \* \h00 resets or purges
InRequests  == {\h05, \h0a, \h90}
SetBitMode  == \h0b
ReplyLen(q) == IF q = \h0a THEN 1 ELSE 2

Accepted(r) ==
    /\ r.type = "vendor" /\ r.recipient = "device"
    /\ \/ r.dir = "out" /\ r.request \in OutRequests
       \/ r.dir = "in" /\ r.request \in InRequests /\ r.length = ReplyLen(r.request)

NextPort(r) == (r.index % 256) + 1

\* uint8_t i = (wIndex & 0xff) - 1, an index into _channels if it is in range.
Port(r) == (((r.index % 256) + 255) % 256) + 1

\* A host that keeps the protocol changes a channel's mode only when it has nothing
\* outstanding there, and never leaves MPSSE with commands to come.
Courteous(r) ==
    \/ "WrongMode" \in Faults
    \/ /\ Accepted(r)
       /\ r.request = SetBitMode /\ Port(r) \in Channels => wire[Port(r)] = <<>>

WholeValue(r) == r.value

\* wValue >> 8
ModeOf(r) == r.value \div 256

HandleEP0(r) ==
    /\ pc = "idle"
    /\ Courteous(r)
    /\ IF Accepted(r)
       THEN /\ gMode' = IF r.dir = "out" /\ r.request = SetBitMode /\ Port(r) \in Channels
                        THEN [gMode EXCEPT ![Port(r)] = ModeOf(r)] ELSE gMode
            /\ UNCHANGED pc
       ELSE /\ pc' = "halted"
            /\ UNCHANGED gMode
    /\ UNCHANGED <<frag, total, hasRep, loopback, cur, data, rep, sendStatus, lastCut,
                   hostVars, exec>>

(***************************************************************************)
(* handleXferEPX: the commands in a transfer.                              *)
(***************************************************************************)
AtCommand(ops) == pc = "loop" /\ data # <<>> /\ Head(data) \in ops
InMpsseMode == gMode[cur] = MpsseMode

\* xfer.data[cmdsz + k - 1]; nothing checks that the transfer is that long.
NextByte(k) == IF k <= Len(data) THEN {data[k]} ELSE Stray

UncheckedConsume(n) == data' = Drop(data, n) /\ pc' = "loop"

\* Advance cmdsz by n; past the end is "Cmd buffer overflow".
Consume(n) == /\ data' = Drop(data, n)
              /\ pc' = IF n > Len(data) THEN "halted" ELSE "loop"

LossyLoopbackReply(tx, n) == Zeros(n)

\* In loopback a shift answers with what it was given, zeros if that is nothing.
LoopbackReply(tx, n) == IF tx = <<>> THEN Zeros(n) ELSE SubSeq(tx, 1, n)

\* What a shift of tx that wants n reply bytes may come to: the reply and the calls.
Outcomes(tx, bits, shift, n) ==
    IF loopback[cur]
    THEN {[rx |-> LoopbackReply(tx, n), calls |-> exec[cur]]}
    ELSE {[rx |-> rx, calls |-> Append(exec[cur], ShiftCall(tx, bits, shift, rx))] :
          rx \in Answers(n)}

UnguardedGot(n, rx) == IF n = 0 THEN <<0>> ELSE rx

\* rep.resize(pos + got), only if a reply was asked for: the adapter reports one dummy
\* byte for a write-only transfer.
Got(n, rx) == IF n = 0 THEN <<>> ELSE rx

\* uint16_t xsiz
ByteCount(lo, hi) == (256 * hi + lo + 1) % CountMod

GreedyMissing == total[cur]

\* Bytes the channel's unfinished command still needs.
Missing == total[cur] - Len(frag[cur])

OverwriteFragment(ch, bytes) == [frag EXCEPT ![ch] = bytes]

\* fragmentedTx.push_back() for each of the bytes
ExtendFragment(ch, bytes) == [frag EXCEPT ![ch] = @ \o bytes]

ResumePartial ==
    /\ pc = "resume" /\ InMpsseMode
    /\ Len(data) < Missing
    /\ frag' = ExtendFragment(cur, data)
    /\ Consume(Len(data))
    /\ UNCHANGED <<total, hasRep, loopback, gMode, cur, rep, sendStatus, lastCut,
                   hostVars, exec>>

KeptFragment(ch) == frag

\* fragmentedTx.clear()
ClearFragment(ch) == [frag EXCEPT ![ch] = <<>>]

ResumeComplete ==
    /\ pc = "resume" /\ InMpsseMode
    /\ Len(data) >= Missing
    /\ LET tx   == frag[cur] \o SubSeq(data, 1, Missing)
           rsiz == IF hasRep[cur] THEN total[cur] ELSE 0
       IN \E o \in Outcomes(tx, 7, "TDI", rsiz) :
            /\ rep' = rep \o Got(rsiz, o.rx)
            /\ exec' = [exec EXCEPT ![cur] = o.calls]
    /\ frag' = ClearFragment(cur)
    /\ Consume(Missing)
    /\ UNCHANGED <<total, hasRep, loopback, gMode, cur, sendStatus, lastCut, hostVars>>

ShortConfigLen(op) == IF op \in {PortHigh, ClockDivisor} THEN 3 ELSE IF op = PortLow THEN 2 ELSE 1

\* The bytes of a command that shifts nothing.
ConfigLen(op) == IF op \in {PortLow, PortHigh, ClockDivisor} THEN 3 ELSE 1

\* 0x00, clock settings and the high port byte do nothing.
SkipCommand ==
    /\ AtCommand({Ignored, ClockDivisor, PortHigh, Flush} \cup ClockModes)
    /\ Head(data) = Flush => InMpsseMode
    /\ Consume(ConfigLen(Head(data)))
    /\ sendStatus' = (sendStatus \/ WantsStatus(Head(data)))
    /\ UNCHANGED <<chanVars, cur, rep, lastCut, hostVars, exec>>

SyncCommand ==
    /\ AtCommand(Sync)
    /\ rep' = rep \o <<\hfa, Head(data)>>
    /\ sendStatus' = TRUE
    /\ Consume(1)
    /\ UNCHANGED <<chanVars, cur, lastCut, hostVars, exec>>

AlwaysOff(ch) == FALSE

\* Only a channel with an adapter can leave the loopback.
LoopbackAfterOff(ch) == loopback[ch] /\ ch \notin Adapters

LoopbackCommand ==
    /\ AtCommand({LoopbackOn, LoopbackOff})
    /\ loopback' = [loopback EXCEPT ![cur] = Head(data) = LoopbackOn \/ LoopbackAfterOff(cur)]
    /\ sendStatus' = TRUE
    /\ Consume(1)
    /\ UNCHANGED <<frag, total, hasRep, gMode, cur, rep, lastCut, hostVars, exec>>

\* Set the low port byte, in loopback too; the direction byte is not looked at.
SetPort ==
    /\ AtCommand({PortLow})
    /\ \E level \in NextByte(2) :
         exec' = IF cur \in Adapters
                 THEN [exec EXCEPT ![cur] = Append(@, PortCall(level))] ELSE exec
    /\ Consume(ConfigLen(PortLow))
    /\ UNCHANGED <<chanVars, cur, rep, sendStatus, lastCut, hostVars>>

ShiftBits ==
    /\ AtCommand(BitOps) /\ InMpsseMode
    /\ \E bits \in NextByte(2), d \in NextByte(3) :
         LET op   == Head(data)
             tx   == IF Writes(op) THEN <<d>> ELSE <<>>
             rsiz == IF Reads(op) THEN 1 ELSE 0
         IN /\ \E o \in Outcomes(tx, bits, ShiftOp(op, d), rsiz) :
                 /\ rep' = IF Reads(op) THEN rep \o BitReply(o.rx) ELSE rep
                 /\ exec' = [exec EXCEPT ![cur] = o.calls]
            /\ Consume(2 + Len(tx))
    /\ UNCHANGED <<chanVars, cur, sendStatus, lastCut, hostVars>>

\* A byte command that is all there.
ShiftBytes ==
    /\ AtCommand(ByteOps) /\ InMpsseMode
    /\ \E lo \in NextByte(2), hi \in NextByte(3) :
         LET op   == Head(data)
             tsiz == IF Writes(op) THEN ByteCount(lo, hi) ELSE 0
             rsiz == IF Reads(op) THEN ByteCount(lo, hi) ELSE 0
         IN /\ Writes(op) => 3 + tsiz <= Len(data)
            /\ \E o \in Outcomes(SubSeq(data, 4, 3 + tsiz), 7, "TDI", rsiz) :
                 /\ rep' = rep \o Got(rsiz, o.rx)
                 /\ exec' = [exec EXCEPT ![cur] = o.calls]
            /\ Consume(3 + tsiz)
    /\ sendStatus' = (sendStatus \/ WantsStatus(Head(data)))
    /\ UNCHANGED <<chanVars, cur, lastCut, hostVars>>

\* A byte command whose payload the transfer cuts short: keep what there is.  The
\* reply has been made room for already.
BreakBytes ==
    /\ AtCommand({\h19, \h39}) /\ InMpsseMode
    /\ \E lo \in NextByte(2), hi \in NextByte(3) :
         LET size == ByteCount(lo, hi) IN
         /\ 3 + size > Len(data)
         /\ frag' = ExtendFragment(cur, Drop(data, 3))
         /\ total' = [total EXCEPT ![cur] = size]
         /\ hasRep' = [hasRep EXCEPT ![cur] = Reads(Head(data)) /\ size > 0]
         /\ rep' = IF Reads(Head(data)) THEN rep \o Zeros(size) ELSE rep
    /\ sendStatus' = (sendStatus \/ WantsStatus(Head(data)))
    /\ Consume(IF Len(data) < 3 THEN 3 ELSE Len(data))
    /\ UNCHANGED <<loopback, gMode, cur, lastCut, hostVars, exec>>

\* The transfer is used up: send what there is to send, go back to read().
Finish ==
    /\ pc = "loop" /\ data = <<>>
    /\ inData' = IF rep # <<>> \/ sendStatus
                 THEN [inData EXCEPT ![cur] = Append(@, rep)] ELSE inData
    /\ rep' = <<>> /\ sendStatus' = FALSE
    /\ pc' = "idle"
    /\ UNCHANGED <<chanVars, cur, data, lastCut, wire, issued, exec>>

(***************************************************************************)
(* The exceptions, each of them the end of the process.                    *)
(***************************************************************************)
\* mustbeMPSSE()
WrongMode ==
    \/ pc = "resume" /\ ~InMpsseMode
    \/ AtCommand(Shifts \cup {Flush}) /\ ~InMpsseMode

Unsupported == pc = "loop" /\ data # <<>> /\ Head(data) \notin Opcodes

\* FTStream::ft or setPortLevels throws because the board does not answer.
AdapterError ==
    /\ "AdapterError" \in Faults
    /\ cur \in Adapters
    /\ \/ AtCommand({PortLow})
       \/ /\ ~loopback[cur] /\ InMpsseMode
          /\ AtCommand(Shifts) \/ (pc = "resume" /\ Len(data) >= Missing)

Throw ==
    /\ WrongMode \/ Unsupported \/ AdapterError
    /\ pc' = "halted"
    /\ UNCHANGED <<chanVars, cur, data, rep, sendStatus, lastCut, hostVars, exec>>

-----------------------------------------------------------------------------
Init ==
    /\ frag = [ch \in Channels |-> <<>>]
    /\ total = [ch \in Channels |-> 0]
    /\ hasRep = [ch \in Channels |-> FALSE]
    /\ loopback = [ch \in Channels |-> ch \notin Adapters]
    /\ gMode = [ch \in Channels |-> 0]
    /\ pc = "idle" /\ cur = 1 /\ data = <<>>
    /\ rep = <<>> /\ sendStatus = FALSE /\ lastCut = "end"
    /\ wire = [ch \in Channels |-> <<>>]
    /\ inData = [ch \in Channels |-> <<>>]
    /\ exec = [ch \in Channels |-> <<>>]
    /\ issued = 0

Host == \E ch \in Channels : HostRead(ch) \/ ResetPort(ch) \/ \E c \in Commands : Issue(ch, c)

Handler ==
    \/ ResumePartial \/ ResumeComplete
    \/ SkipCommand \/ SyncCommand \/ LoopbackCommand \/ SetPort
    \/ ShiftBits \/ ShiftBytes \/ BreakBytes
    \/ Finish \/ Throw

Next ==
    \/ Host
    \/ \E ch \in Channels : Deliver(ch)
    \/ EmptyTransfer
    \/ \E r \in Requests : HandleEP0(r)
    \/ Handler

Spec == Init /\ [][Next]_vars

\* The device thread runs whenever it can, the USB stack keeps moving each channel's
\* bytes.  Nothing is assumed of the host: it may stop reading or writing.
FairSpec == /\ Spec
            /\ WF_vars(Handler)
            /\ \A ch \in Channels : WF_vars(Deliver(ch))

(***************************************************************************)
(* Properties.                                                             *)
(***************************************************************************)
Call == [call : {"port", "TDI", "TMS_LO", "TMS_HI"},
         tx : Seq(Byte), bits : Byte, rx : Seq(Byte)]

WireByte == [byte : Byte, cut : CutKinds]

ChannelType ==
    /\ frag \in [Channels -> Seq(Byte)]
    /\ total \in [Channels -> 0 .. CountMod - 1]
    /\ hasRep \in [Channels -> BOOLEAN]
    /\ loopback \in [Channels -> BOOLEAN]
    /\ gMode \in [Channels -> Byte]

TransferType ==
    /\ pc \in PcKinds
    /\ cur \in Channels
    /\ data \in Seq(Byte)
    /\ rep \in Seq(Byte)
    /\ sendStatus \in BOOLEAN
    /\ lastCut \in CutKinds \cup {"abandoned"}

OutsideType ==
    /\ wire \in [Channels -> Seq(WireByte)]
    /\ inData \in [Channels -> Seq(Seq(Byte))]
    /\ issued \in 0 .. MaxCmds
    /\ exec \in [Channels -> Seq(Call)]

\* Every variable has its type: the Channel structure, handleXferEPX's locals and what
\* is outside of the device.
TypeOK == ChannelType /\ TransferType /\ OutsideType

\* A kept fragment always lacks something: "missing" never wraps around, however the
\* bytes arrive and whatever went wrong before.
FragmentOpen == \A ch \in Channels : frag[ch] # <<>> => Len(frag[ch]) < total[ch]

\* A kept fragment comes first: what a transfer brings is added to it before anything
\* is taken for a command, and no command is looked at while one is kept.
FragmentFirst ==
    /\ pc = "resume" => frag[cur] # <<>> /\ data # <<>>
    /\ pc = "loop" /\ data # <<>> => frag[cur] = <<>>

\* handleXferEPX calls through channel->ft without a test once loopback is off: a
\* channel that addChannel gave no adapter never leaves the loopback.
LoopbackWithoutAdapter == \A ch \in Channels \ Adapters : loopback[ch]

\* The inductive invariant.
Inv == TypeOK /\ FragmentOpen /\ FragmentFirst /\ LoopbackWithoutAdapter

StartsWith(s, t) == Len(s) >= Len(t) /\ SubSeq(s, 1, Len(t)) = t

\* One step: the fragment stays, grows, or goes into one shift of the announced size.
FragmentStep(ch) ==
    \/ frag'[ch] = frag[ch]
    \/ StartsWith(frag'[ch], frag[ch]) /\ Len(frag'[ch]) < total'[ch]
    \/ /\ frag'[ch] = <<>>
       /\ ~loopback[ch] =>
            LET n == Len(exec'[ch]) IN
            /\ n = Len(exec[ch]) + 1
            /\ Len(exec'[ch][n].tx) = total[ch]
            /\ StartsWith(exec'[ch][n].tx, frag[ch])

\* Bytes kept in fragmentedTx leave it only by one shift that carries all of them,
\* in front, in a payload of the announced size.
FragmentHonoured == [][\A ch \in Channels : FragmentStep(ch)]_vars

\* A transfer that ends inside a command's header is never taken for a complete one:
\* the bounds check after the command ends the process, whatever bytes were read
\* behind the buffer.
TruncationFatal == pc = "idle" => lastCut # "head"

\* A host that keeps the protocol, and a USB stack that cuts only inside the payload of
\* write commands, never make the handler throw.
NeverHalts == pc # "halted"

\* Whatever the host has written is taken up: eventually nothing is left on the wire, no
\* command is half received and the device waits for the next transfer.
Served == \A ch \in Channels :
    wire[ch] # <<>> ~> (wire[ch] = <<>> /\ frag[ch] = <<>> /\ pc = "idle")
=============================================================================
