------------------------------ MODULE FTStream ------------------------------
(***************************************************************************)
(* FTStream (FTEmul.cpp): JTAG operations over messages to the firmware,   *)
(* and bit-banging (FW::bb).  A call sends one message or several; between *)
(* two of them the exchange may fail, which throws, or bring a short       *)
(* answer, which no caller looks at.  The messages of a call do not depend *)
(* on the answers, except those of getIDs behind countChainLength.         *)
(***************************************************************************)
EXTENDS FTMessages

CONSTANTS
    Calls,       \* calls the clients make
    Faults,      \* what else may happen, a subset of {"Lost", "Short"}
    EmptyPulses, \* pulses the firmware may make of a message both read- and write-only
    UnsignedMod, \* modulus of unsigned
    MaxIDs,      \* more identifiers than these are more than there is memory for
    MaxCalls     \* bound: calls made

\* Calls as the class declares them; the number of bits of the last byte is between one
\* and eight (pyFTEmul.pyx raises an exception for another), less one.
FTCall ==
    [op : {"toStateReset", "toStateRunTestIdle", "countChainLength"}]
      \cup [op : {"toStateShiftIR", "toStateShiftDR"}, reset : BOOLEAN]
      \cup [op : {"getIDs"}, n : Nat]
      \cup [op : {"shiftToRunTestIdle"}, tx : Seq(0 .. 255), bits : 0 .. 7, n : Nat]
      \cup [op : {"ft"}, tx : Seq(0 .. 255), bits : Nat, tms : Int, n : Nat]
      \cup [op : {"setPortLevels"}, dat : 0 .. 255]
      \cup [op : {"bb", "play"}, tx : Seq(0 .. 255), n : Nat]

ASSUME CallsAssumption == Calls \subseteq FTCall
\* bb has one size for both buffers; n = 0 stands for no second one.
ASSUME BangAssumption == \A c \in Calls : c.op \in {"bb", "play"} => c.n \in {0, Len(c.tx)}
ASSUME EmptyPulsesAssumption == EmptyPulses \subseteq Nat
ASSUME UnsignedModAssumption == UnsignedMod \in Nat \ {0}
ASSUME MaxCallsAssumption == MaxCalls \in Nat

VARIABLES
    port,        \* the TAP and what is behind it
    call,        \* the call being made, or made last
    pending,     \* its messages not yet exchanged
    answers,     \* the answers so far
    status,      \* "idle": not called yet, "busy", "ok", "error": it threw
    result,      \* what the call returned
    calls,       \* calls made so far
    start, trace, \* the port when the call was made, what was shifted since
    whole        \* has every answer of the call been as long as the firmware made it?

vars == <<port, call, pending, answers, status, result, calls, start, trace, whole>>

(***************************************************************************)
(* The messages of each operation.                                         *)
(***************************************************************************)
LongIdlePath == <<\h07, \hff>>

\* Wherever the TAP is: reset, then run-test-idle.
IdlePath == <<\h07, \h7f>>

ToReset == <<X(<<\h07, \hff>>, TRUE)>>
ToRunTestIdle == <<X(IdlePath, TRUE)>>
ToShiftIR(reset) == (IF reset THEN ToRunTestIdle ELSE <<>>) \o <<X(<<\h03, \h03>>, TRUE)>>
ToShiftDR(reset) == (IF reset THEN ToRunTestIdle ELSE <<>>) \o <<X(<<\h02, \h01>>, TRUE)>>

LowFiller == <<\h04, \h07>>

\* Exit1-IR with a last one, on to Shift-DR.
Filler == <<\h84, \h07>>

\* All devices to BYPASS, then eight zeros and eight ones through the bypass registers.
CountChain ==
    ToShiftIR(TRUE)
      \o <<X(<<\h07, \hff, \hff, \hff, \hff>>, FALSE), X(Filler, TRUE),
           X(<<\h07, \h00, \hff>>, FALSE)>>

GetIDsAsIs(n) == ToShiftDR(FALSE) \o <<X(<<\h07>> \o [i \in 1 .. 4 * n |-> 0], FALSE)>>

\* A reset loads the IDCODEs.
GetIDs(n) == ToShiftDR(TRUE) \o <<X(<<\h07>> \o [i \in 1 .. 4 * n |-> 0], FALSE)>>

FirstTdi(tx, bits) == IF tx = <<>> THEN 0 ELSE BitOf(tx[Len(tx)], 0)

\* The last bit to shift goes out with the first TMS bit.
LastTdi(tx, bits) == IF tx = <<>> THEN 0 ELSE BitOf(tx[Len(tx)], bits)

Shorter(tx) == IF tx = <<>> THEN <<>> ELSE SubSeq(tx, 1, Len(tx) - 1)

\* Shift all bits but the last, then the last one with TMS 1, 1, 0.
ShiftToRunTestIdle(tx, bits, n) ==
    IF tx = <<>> /\ n = 0 THEN <<>>
    ELSE <<IF bits = 0
           THEN Message(Shorter(tx), 7, -1, IF n = 0 THEN 0 ELSE n - 1)
           ELSE Message(tx, bits - 1, -1, n),
           Message(<<\h03>>, 2, LastTdi(tx, bits), 1)>>

\* play.cpp: reset, run-test-idle, to Shift-DR, 31 zeros, a last one with TMS, to idle.
PlaySequence == <<1, 1, 1, 1, 1, 1, 0, 1, 0, 0>> \o [i \in 1 .. 31 |-> 0] \o <<1, 1, 0>>

Plan(c) ==
    CASE c.op = "toStateReset" -> ToReset
      [] c.op = "toStateRunTestIdle" -> ToRunTestIdle
      [] c.op = "toStateShiftIR" -> ToShiftIR(c.reset)
      [] c.op = "toStateShiftDR" -> ToShiftDR(c.reset)
      [] c.op = "countChainLength" -> CountChain
      [] c.op = "getIDs" /\ c.n = 0 -> CountChain
      [] c.op = "getIDs" /\ c.n > 0 -> GetIDs(c.n)
      [] c.op = "shiftToRunTestIdle" -> ShiftToRunTestIdle(c.tx, c.bits, c.n)
      [] c.op = "ft" -> <<Message(c.tx, c.bits, c.tms, c.n)>>
      [] c.op = "setPortLevels" -> <<PinsMessage(c.dat)>>
      [] c.op \in {"bb", "play"} -> <<BangMessage(c.tx, c.n)>>

\* ft and shiftToRunTestIdle refuse a reply of another size than the request.
Mismatched(c) ==
    c.op \in {"ft", "shiftToRunTestIdle"} /\ c.tx # <<>> /\ c.n > 0 /\ c.n # Len(c.tx)

(***************************************************************************)
(* Results.                                                                *)
(***************************************************************************)
LastOf(s) == s[Len(s)]

\* Zeros at the low end of each byte: how many zeros come out before the ones.
LowZeros(byte) ==
    CHOOSE k \in 0 .. 8 : (k = 8 \/ BitOf(byte, k) = 1) /\ \A i \in 0 .. k - 1 : BitOf(byte, i) = 0

ChainLength(rep) ==
    LET zeros[i \in 0 .. Len(rep)] == IF i = 0 THEN 0 ELSE zeros[i - 1] + LowZeros(rep[i])
    IN (zeros[Len(rep)] - 8) % UnsignedMod

\* Four bytes each, what is left over is dropped.
IDs(rep) == [i \in 1 .. Len(rep) \div 4 |-> SubSeq(rep, 4 * i - 3, 4 * i)]

UnalignedLastTdo(rx) == BitOf(rx, 7)

\* TDO of the last data bit: the first of the three bits shifted with TMS.
LastTdo(rx) == BitOf(rx, 5)

\* rbuf of n bytes, zeros at first, after the answers of both messages.
Shifted(n, first, last) ==
    LET filled == [i \in 1 .. n |-> IF i <= Len(first) THEN first[i] ELSE 0]
    IN IF n = 0 THEN <<>>
       ELSE [filled EXCEPT ![n] = 128 * LastTdo(last) + @ \div 2]

\* rbuf of bb: of each two bytes the one with the clock high, what was sent if none came.
BangedBack(tx, rep) ==
    [i \in DOMAIN tx |-> IF 2 * i <= Len(rep) THEN rep[2 * i] ELSE Clocked(tx[i])[2]]

EarlyID(rx) == [i \in 1 .. 32 |-> BitOf(rx[9 + i], 2)]

\* play.cpp: bit 2 of the bytes from tst[10] on.
PlayedID(rx) == [i \in 1 .. 32 |-> BitOf(rx[10 + i], 2)]

Returned(c, all) ==
    CASE c.op = "countChainLength" -> ChainLength(LastOf(all))
      [] c.op \in {"getIDs", "readIDs"} -> IDs(LastOf(all))
      [] c.op = "shiftToRunTestIdle" ->
           IF all = <<>> THEN <<>>
           ELSE Shifted(c.n, IF c.n > 1 \/ c.bits > 0 THEN all[1] ELSE <<>>,
                        IF all[2] = <<>> THEN 0 ELSE all[2][1])
      [] c.op = "bb" -> IF c.n = 0 THEN <<>> ELSE BangedBack(c.tx, all[1])
      [] c.op = "play" -> PlayedID(BangedBack(c.tx, all[1]))
      [] c.op = "ft" -> IF c.n = 0 THEN <<>> ELSE all[1]
      [] OTHER -> <<>>

(***************************************************************************)
(* The steps.                                                              *)
(***************************************************************************)
Call(c) ==
    /\ status # "busy" /\ calls < MaxCalls
    /\ call' = c /\ calls' = calls + 1
    /\ answers' = <<>> /\ result' = <<>>
    /\ start' = port /\ trace' = <<>> /\ whole' = TRUE
    /\ pending' = IF Mismatched(c) THEN <<>> ELSE Plan(c)
    /\ status' = IF Mismatched(c) THEN "error" ELSE IF Plan(c) = <<>> THEN "ok" ELSE "busy"
    /\ UNCHANGED port

\* Somebody writes the scratch register, which selects what drives the port.
SelectPins(scratch) ==
    /\ status # "busy" /\ calls < MaxCalls
    /\ port' = Select(port, scratch)
    /\ calls' = calls + 1
    /\ call' = [op |-> "none"] /\ status' = "idle"
    /\ answers' = <<>> /\ result' = <<>> /\ trace' = <<>> /\ start' = port' /\ whole' = TRUE
    /\ UNCHANGED pending

\* What may become of the message at the head.
Effects(m) ==
    IF m.cmd = CmdJtag + CmdTdiRO + CmdTdiWO
    THEN UNION {Performed(port, [m EXCEPT !.cmd = CmdJtag, !.len = (n - 1) % 8,
                                          !.tx = [i \in 1 .. (n + 7) \div 8 |-> 0]]) :
                  n \in EmptyPulses}
    ELSE Performed(port, m)

\* What the reader gets of it: all, and of a short answer nothing or all but one byte
\* (the one answer that decides how a call goes on, countChainLength's, has two bytes).
Answered(reply) ==
    {reply} \cup
    IF "Short" \in Faults /\ reply # <<>> THEN {<<>>, SubSeq(reply, 1, Len(reply) - 1)} ELSE {}

\* A message is exchanged.  What the call returns is known with the last one; getIDs
\* goes on when it knows how many there are.
Exchange ==
    /\ status = "busy"
    /\ \E e \in Effects(Head(pending)) : \E reply \in Answered(e.reply) :
         LET all == Append(answers, reply) IN
         /\ port' = e.port /\ trace' = trace \o e.trace
         /\ answers' = all /\ whole' = (whole /\ reply = e.reply)
         /\ IF Len(pending) > 1
            THEN /\ pending' = Tail(pending)
                 /\ UNCHANGED <<call, status, result>>
            ELSE IF call.op = "getIDs" /\ call.n = 0
            THEN LET n == ChainLength(reply) IN
                 /\ call' = [op |-> "readIDs", n |-> n]
                 /\ pending' = IF n > MaxIDs THEN <<>> ELSE GetIDs(n)
                 /\ status' = IF n > MaxIDs THEN "error" ELSE "busy"
                 /\ UNCHANGED result
            ELSE /\ pending' = <<>> /\ status' = "ok"
                 /\ result' = Returned(call, all)
                 /\ UNCHANGED call
    /\ UNCHANGED <<calls, start>>

\* The exchange fails, before or after the firmware shifted: the call throws.
Fail ==
    /\ status = "busy" /\ "Lost" \in Faults
    /\ \/ UNCHANGED <<port, trace>>
       \/ \E e \in Effects(Head(pending)) : port' = e.port /\ trace' = trace \o e.trace
    /\ status' = "error" /\ pending' = <<>>
    /\ UNCHANGED <<call, answers, result, calls, start, whole>>

Init ==
    /\ port \in {[PowerUp EXCEPT !.source = s] : s \in Sources}
    /\ start = port /\ trace = <<>> /\ whole = TRUE
    /\ call = [op |-> "none"] /\ pending = <<>> /\ answers = <<>>
    /\ status = "idle" /\ result = <<>> /\ calls = 0

Next ==
    \/ \E c \in Calls : Call(c)
    \/ Exchange \/ Fail
    \/ \E scratch \in 0 .. 3 : SelectPins(scratch)

Spec == Init /\ [][Next]_vars

-----------------------------------------------------------------------------
Msg == [cmd : {CmdJtag, CmdJtag + CmdTms, CmdJtag + CmdBB, CmdJtag + CmdTdiWO,
               CmdJtag + CmdTdiRO, CmdJtag + CmdTdiRO + CmdTdiWO, CmdBBSpi},
        len : 0 .. 7 \cup 128 .. 135, tx : Seq(0 .. 255), want : Nat]

\* Messages are of the kinds the firmware has names for, a shift of one bit's first
\* message apart; answers are bytes; the chain keeps a register selected.
TypeOK ==
    /\ port \in Port /\ start \in Port
    /\ port.tap \in Shifting => port.reg # <<>>
    /\ pending \in Seq(Msg)
    /\ answers \in Seq(Seq(0 .. 255))
    /\ status \in {"idle", "busy", "ok", "error"}
    /\ status = "busy" <=> pending # <<>>
    /\ trace \in Seq([tdi : Bit, tdo : Bit])
    /\ calls \in 0 .. MaxCalls /\ whole \in BOOLEAN

\* Did the call return, with the JTAG command on the port's pins?
Returns == status = "ok" /\ start.source = "jtag"

\* Bits a shift of c is about.
Bits(c) == 8 * ((IF c.tx = <<>> THEN c.n ELSE Len(c.tx)) - 1) + c.bits + 1

\* A shift as its clients mean it: out of a shift state, of more than one bit (the first
\* message of a one-bit shift is no command the firmware has a name for).
ProperShift ==
    /\ Returns /\ call.op = "shiftToRunTestIdle"
    /\ start.tap \in Shifting
    /\ call.tx # <<>> \/ call.n > 0
    /\ Bits(call) > 1

\* A call that returns has left the TAP where its name says, whatever calls and failures
\* came before it: the resetting ones from anywhere, the others from where they may be
\* used.
Lands ==
    LET reached(states) == Returns => port.tap \in states
        between == {"RunTestIdle", "UpdateDR", "UpdateIR"}
    IN /\ call.op = "toStateReset" => reached({"TestLogicReset"})
       /\ call.op = "toStateRunTestIdle" => reached({"RunTestIdle"})
       /\ call.op = "toStateShiftIR" =>
            (call.reset \/ start.tap \in between => reached({"ShiftIR"}))
       /\ call.op = "toStateShiftDR" =>
            (call.reset \/ start.tap \in between => reached({"ShiftDR"}))
       /\ call.op \in {"countChainLength", "getIDs", "readIDs"} => reached({"ShiftDR"})
       /\ ProperShift => port.tap = "RunTestIdle"

\* shiftToRunTestIdle puts every bit of tbuf into the register, once and in order, the
\* last one too although it goes out with TMS.
ShiftsAll ==
    ProperShift =>
        [i \in DOMAIN trace |-> trace[i].tdi] =
            IF call.tx = <<>> THEN [i \in 1 .. Bits(call) |-> 0]
            ELSE BitsOf(call.tx, Bits(call))

\* What shiftToRunTestIdle returns is what came out of the register, the bit that came
\* with TMS in its place behind the others (if the answers were not short, which it does
\* not notice).
ReadsBack ==
    ProperShift /\ call.n > 0 /\ whole =>
        result = BytesOf([i \in DOMAIN trace |-> trace[i].tdo])

Succeeded(ops) == Returns /\ whole /\ call.op \in ops

\* countChainLength counts the devices, whatever they were used for before.
CountsDevices == Succeeded({"countChainLength"}) => result = Len(Chain)

\* getIDs returns the identifiers of the devices, whether told how many there are or not.
FindsIDs ==
    Succeeded({"getIDs", "readIDs"}) => result = [d \in 1 .. call.n |-> BytesOf(Chain[d].id)]

\* Bit-banging makes one pulse of each byte, with its TMS and TDI, whatever the clock bit
\* of the byte or of the port was, and brings TDO back in bit 2.
BangsLikePulses ==
    status = "ok" /\ call.op \in {"bb", "play"} /\ start.source = "bb" =>
        LET run == Stepped(start, [i \in DOMAIN call.tx |->
                                     [tms |-> BitOf(call.tx[i], 0), tdi |-> BitOf(call.tx[i], 1)]])
        IN /\ port.tap = run.port.tap /\ port.reg = run.port.reg /\ port.instr = run.port.instr
           /\ trace = run.trace
           /\ call.op = "bb" /\ call.n > 0 /\ whole =>
                [i \in DOMAIN result |-> BitOf(result[i], 2)] = run.tdo

\* play finds the identifier of the first device, wherever the TAP was.
PlayFindsID ==
    status = "ok" /\ call.op = "play" /\ start.source = "bb" /\ whole => result = Chain[1].id
=============================================================================
