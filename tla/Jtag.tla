-------------------------------- MODULE Jtag --------------------------------
(***************************************************************************)
(* The other end of the JTAG messages, as the code relies on it: the       *)
(* firmware that turns a message into pulses on TCK, the multiplexer of    *)
(* the design (P_MUX in design_top.vhd) that puts them on the port's pins, *)
(* and the scan chain behind the port (IEEE 1149.1).                       *)
(***************************************************************************)
EXTENDS Integers, SequencesExt

CONSTANTS
    Chain,       \* devices from TDO to TDI: [ir : length of IR, id : bits of IDCODE]
    Floating     \* what TDO reads as outside of the shift states

Bit == {0, 1}

ASSUME ChainAssumption == Chain \in Seq([ir : Nat \ {0}, id : Seq(Bit)]) /\ Chain # <<>>
ASSUME FloatingAssumption == Floating \in Bit

Devices == 1 .. Len(Chain)
Instructions == {"IDCODE", "BYPASS", "OTHER"}

\* The TAP's next states for TMS low and TMS high.
TapPaths == [
    TestLogicReset |-> <<"RunTestIdle", "TestLogicReset">>,
    RunTestIdle    |-> <<"RunTestIdle", "SelectDR">>,
    SelectDR       |-> <<"CaptureDR", "SelectIR">>,
    CaptureDR      |-> <<"ShiftDR", "Exit1DR">>,
    ShiftDR        |-> <<"ShiftDR", "Exit1DR">>,
    Exit1DR        |-> <<"PauseDR", "UpdateDR">>,
    PauseDR        |-> <<"PauseDR", "Exit2DR">>,
    Exit2DR        |-> <<"ShiftDR", "UpdateDR">>,
    UpdateDR       |-> <<"RunTestIdle", "SelectDR">>,
    SelectIR       |-> <<"CaptureIR", "TestLogicReset">>,
    CaptureIR      |-> <<"ShiftIR", "Exit1IR">>,
    ShiftIR        |-> <<"ShiftIR", "Exit1IR">>,
    Exit1IR        |-> <<"PauseIR", "UpdateIR">>,
    PauseIR        |-> <<"PauseIR", "Exit2IR">>,
    Exit2IR        |-> <<"ShiftIR", "UpdateIR">>,
    UpdateIR       |-> <<"RunTestIdle", "SelectDR">>]

TapStates == DOMAIN TapPaths
Shifting == {"ShiftDR", "ShiftIR"}

(***************************************************************************)
(* The chain.  reg is the selected register of all devices in a row, its   *)
(* first bit the next on TDO.                                              *)
(***************************************************************************)
DataOf(d, instr) ==
    IF instr = "OTHER" THEN <<1, 0>>
    ELSE IF instr = "IDCODE" /\ Chain[d].id # <<>> THEN Chain[d].id ELSE <<0>>

CapturedDR(instrs) == FlattenSeq([d \in Devices |-> DataOf(d, instrs[d])])
CapturedIR == FlattenSeq([d \in Devices |->
                            [i \in 1 .. Chain[d].ir |-> IF i = 1 THEN 1 ELSE 0]])

Decoded(reg) ==
    LET before[d \in Devices] == IF d = 1 THEN 0 ELSE before[d - 1] + Chain[d - 1].ir
        part(d) == {reg[before[d] + i] : i \in 1 .. Chain[d].ir}
    IN [d \in Devices |-> IF part(d) = {1} THEN "BYPASS" ELSE "OTHER"]

TdoOf(p) == IF p.tap \in Shifting THEN Head(p.reg) ELSE Floating

\* One rising edge of TCK.  External assumption: Test-Logic-Reset selects IDCODE in
\* every device (FTEmul.cpp:188), as IEEE 1149.1 has it.  JTAGH19SOFT is no such device:
\* it keeps its instruction (doc/README.md:64).
Clock(p, tms, tdi) ==
    LET next == TapPaths[p.tap][tms + 1] IN
    [p EXCEPT
       !.tap   = next,
       !.reg   = IF p.tap = "CaptureDR" THEN CapturedDR(p.instr)
                 ELSE IF p.tap = "CaptureIR" THEN CapturedIR
                 ELSE IF p.tap \in Shifting THEN Append(Tail(@), tdi) ELSE @,
       !.instr = IF next = "TestLogicReset" THEN [d \in Devices |-> "IDCODE"]
                 ELSE IF next = "UpdateIR" THEN Decoded(p.reg) ELSE @]

\* A clock also brings out a bit of TDO; trace is what happened in the shift states.
ShiftedBit(p, tdi) == IF p.tap \in Shifting THEN <<[tdi |-> tdi, tdo |-> TdoOf(p)]>> ELSE <<>>

Pulse(run, bit) ==
    [port  |-> Clock(run.port, bit.tms, bit.tdi),
     tdo   |-> Append(run.tdo, TdoOf(run.port)),
     trace |-> run.trace \o ShiftedBit(run.port, bit.tdi)]

\* Pulse after pulse.  Each after[i] is a set of one run, so that TLC works it out once.
Stepped(p, bits) ==
    LET after[i \in 0 .. Len(bits)] ==
            IF i = 0 THEN {[port |-> p, tdo |-> <<>>, trace |-> <<>>]}
            ELSE {Pulse(run, bits[i]) : run \in after[i - 1]}
    IN CHOOSE run \in after[Len(bits)] : TRUE

\* With TMS low the TAP stays where it is after two pulses at the latest.  From then on
\* in a shift state what is in the register comes out, then what goes in; elsewhere
\* nothing happens.
Settled(p, bits) ==
    LET n == Len(bits)
        all == p.reg \o [i \in 1 .. n |-> bits[i].tdi]
    IN IF p.tap \in Shifting
       THEN [port |-> [p EXCEPT !.reg = SubSeq(all, n + 1, Len(all))],
             tdo  |-> SubSeq(all, 1, n),
             trace |-> [i \in 1 .. n |-> [tdi |-> bits[i].tdi, tdo |-> all[i]]]]
       ELSE [port |-> p, tdo |-> [i \in 1 .. n |-> Floating], trace |-> <<>>]

Joined(a, b) == [port |-> b.port, tdo |-> a.tdo \o b.tdo, trace |-> a.trace \o b.trace]

Pulses(p, bits) ==
    IF Len(bits) > 2 /\ \A i \in DOMAIN bits : bits[i].tms = 0
    THEN LET moved == Stepped(p, SubSeq(bits, 1, 2))
         IN Joined(moved, Settled(moved.port, SubSeq(bits, 3, Len(bits))))
    ELSE Stepped(p, bits)

(***************************************************************************)
(* Messages of the firmware.  Bytes go out from bit 0; what TDO brings     *)
(* enters at bit 7, so that the last byte of an answer has its bits at the *)
(* top.                                                                    *)
(***************************************************************************)
BitOf(byte, i) == (byte \div 2 ^ i) % 2

BitsOf(bytes, n) == [i \in 1 .. n |-> BitOf(bytes[((i - 1) \div 8) + 1], (i - 1) % 8)]

BytesOf(bits) ==
    LET n == (Len(bits) + 7) \div 8
        filled(j) == IF j < n THEN 8 ELSE Len(bits) - 8 * (n - 1)
        entered(j) ==
            LET byte[i \in 0 .. filled(j)] ==
                    IF i = 0 THEN 0 ELSE byte[i - 1] \div 2 + 128 * bits[8 * (j - 1) + i]
            IN byte[filled(j)]
    IN [j \in 1 .. n |-> entered(j)]

CmdJtag  == \h03
CmdTms   == \h10
CmdBB    == \h20
CmdTdiWO == \h30
CmdTdiRO == \h40
TmsTdiHi == \h80
CmdBBSpi == \h14

\* How many pulses a message makes, and which.  Of a message that is both write-only
\* and read-only nothing is known: EmptyPulses in FTStream.
PulsesOf(m) ==
    LET n == IF m.cmd = CmdJtag + CmdTdiRO THEN 8 * m.want
             ELSE IF m.tx = <<>> THEN 0 ELSE 8 * (Len(m.tx) - 1) + (m.len % 8) + 1
        bits == IF m.cmd = CmdJtag + CmdTdiRO THEN [i \in 1 .. n |-> 0] ELSE BitsOf(m.tx, n)
    IN [i \in 1 .. n |->
          IF m.cmd = CmdJtag + CmdTms
          THEN [tms |-> bits[i], tdi |-> IF m.len >= TmsTdiHi THEN 1 ELSE 0]
          ELSE [tms |-> 0, tdi |-> bits[i]]]

(***************************************************************************)
(* The multiplexer.  TCK, TMS and TDI come from the JTAG command, from the *)
(* bit-bang command or from the GPIO header, where nobody moves them; TDO  *)
(* goes to all.                                                            *)
(***************************************************************************)
Lines == [tck : Bit, tms : Bit, tdi : Bit]
Low == [tck |-> 0, tms |-> 0, tdi |-> 0]
Sources == {"jtag", "bb", "gpio"}

\* scratch(5 downto 4)
SourceOf(scratch) == CASE scratch = 1 -> "jtag" [] scratch = 2 -> "bb" [] OTHER -> "gpio"

Driven(p) == p.lines[p.source]

\* The lines or their source change: TCK may rise.
Rises(p, q) == Driven(p).tck = 0 /\ Driven(q).tck = 1
Drive(p, q) == IF Rises(p, q) THEN Clock(q, Driven(q).tms, Driven(q).tdi) ELSE q

Select(p, scratch) == Drive(p, [p EXCEPT !.source = SourceOf(scratch)])

\* The pins of the JTAG command set one by one: TCK 0, TDI 1, TMS 3.
SetPins(p, dat) ==
    Drive(p, [p EXCEPT !.lines["jtag"] =
                [tck |-> BitOf(dat, 0), tms |-> BitOf(dat, 3), tdi |-> BitOf(dat, 1)]])

\* bbo: TMS 0, TDI 1, TCK 3.
BangPins(p, bbo) ==
    [p EXCEPT !.lines["bb"] =
       [tck |-> BitOf(bbo, 3), tms |-> BitOf(bbo, 0), tdi |-> BitOf(bbo, 1)]]

\* bbi, with TDO in bit 2
BangIn(p, bbo) == bbo - 4 * BitOf(bbo, 2) + 4 * TdoOf(p)

(***************************************************************************)
(* What the firmware may do with a message: the port after it, the answer, *)
(* the trace.  The answer has no more bytes than are wanted.               *)
(***************************************************************************)
\* Each byte goes out on bbo, then bbi comes in.
Banged(p, bytes) ==
    LET step(run, b) ==
            LET q == BangPins(run.port, b) IN
            [port  |-> Drive(run.port, q), tdo |-> Append(run.tdo, BangIn(run.port, b)),
             trace |-> run.trace \o IF Rises(run.port, q)
                                    THEN ShiftedBit(run.port, BitOf(b, 1)) ELSE <<>>]
        after[i \in 0 .. Len(bytes)] ==
            IF i = 0 THEN {[port |-> p, tdo |-> <<>>, trace |-> <<>>]}
            ELSE {step(run, bytes[i]) : run \in after[i - 1]}
    IN CHOOSE run \in after[Len(bytes)] : TRUE

\* A shift starts and ends with TCK low; if the pins are not its own the chain rests.
ShiftOut(p, bits) ==
    LET ready == [p EXCEPT !.lines["jtag"] = Low] IN
    IF p.source = "jtag" THEN Pulses(ready, bits)
    ELSE [port |-> ready, tdo |-> [i \in DOMAIN bits |-> TdoOf(p)], trace |-> <<>>]

Performed(p, m) ==
    IF m.cmd = CmdJtag + CmdBB
    THEN {[port |-> SetPins(p, m.tx[1]), reply |-> <<0>>, trace |-> <<>>]}
    ELSE LET bytes(tdo) == IF m.cmd = CmdBBSpi THEN tdo
                           ELSE IF m.cmd = CmdJtag + CmdTdiWO THEN <<0>> ELSE BytesOf(tdo)
             kept(s) == SubSeq(s, 1, IF m.want < Len(s) THEN m.want ELSE Len(s))
         IN {[port |-> run.port, reply |-> kept(bytes(run.tdo)), trace |-> run.trace] :
               run \in {IF m.cmd = CmdBBSpi THEN Banged(p, m.tx) ELSE ShiftOut(p, PulsesOf(m))}}

Port == [tap : TapStates, reg : Seq(Bit), instr : [Devices -> Instructions],
         source : Sources, lines : [Sources -> Lines]]

PowerUp == [tap |-> "TestLogicReset", reg |-> CapturedIR, source |-> "jtag",
            lines |-> [s \in Sources |-> Low], instr |-> [d \in Devices |-> "IDCODE"]]
=============================================================================
