----------------------------- MODULE JtagProofs -----------------------------
(***************************************************************************)
(* Lemmas about Jtag, for every chain: where pulses lead the TAP, that the *)
(* port stays a port, what a message makes of it.                          *)
(***************************************************************************)
EXTENDS Jtag, FlattenProofs

-----------------------------------------------------------------------------
(* Bits of bytes. *)

\* The powers of two that bits of a byte stand for.
LEMMA Powers ==
    /\ 2 ^ 0 = 1 /\ 2 ^ 1 = 2 /\ 2 ^ 2 = 4 /\ 2 ^ 3 = 8
    /\ 2 ^ 4 = 16 /\ 2 ^ 5 = 32 /\ 2 ^ 6 = 64 /\ 2 ^ 7 = 128
BY SMT

\* A bit of a byte is the parity of a quotient.
LEMMA BitIsParity ==
    ASSUME NEW b \in Nat, NEW i \in 0 .. 7
    PROVE  \E q \in Nat : BitOf(b, i) = q % 2
<1>1. CASE i = 0
  BY <1>1, Powers DEF BitOf
<1>2. CASE i = 1
  BY <1>2, Powers DEF BitOf
<1>3. CASE i = 2
  BY <1>3, Powers DEF BitOf
<1>4. CASE i = 3
  BY <1>4, Powers DEF BitOf
<1>5. CASE i = 4
  BY <1>5, Powers DEF BitOf
<1>6. CASE i = 5
  BY <1>6, Powers DEF BitOf
<1>7. CASE i = 6
  BY <1>7, Powers DEF BitOf
<1>8. CASE i = 7
  BY <1>8, Powers DEF BitOf
<1> QED
  BY <1>1, <1>2, <1>3, <1>4, <1>5, <1>6, <1>7, <1>8

\* A bit of a byte is a bit.
LEMMA BitOfType ==
    ASSUME NEW b \in Nat, NEW i \in 0 .. 7
    PROVE  BitOf(b, i) \in Bit
<1>1. PICK q \in Nat : BitOf(b, i) = q % 2
  BY BitIsParity
<1> QED
  BY <1>1 DEF Bit

-----------------------------------------------------------------------------
(* The TAP. *)

\* Both ways out of a state of the TAP lead to one.
LEMMA TapMoves ==
    ASSUME NEW t \in TapStates, NEW tms \in Bit
    PROVE  TapPaths[t][tms + 1] \in TapStates
<1>1. tms = 0 \/ tms = 1
  BY DEF Bit
<1>2. TapPaths[t][1] \in TapStates /\ TapPaths[t][2] \in TapStates
  BY DEF TapStates, TapPaths
<1> QED
  BY <1>1, <1>2

-----------------------------------------------------------------------------
(* The chain. *)

\* A register of several parts is empty only if the first part is.
LEMMA FlattenNonEmpty ==
    ASSUME NEW S, NEW q \in Seq(Seq(S)), q # <<>>, q[1] # <<>>
    PROVE  FlattenSeq(q) \in Seq(S) /\ FlattenSeq(q) # <<>>
<1>1. FlattenSeq(q) = Head(q) \o FlattenSeq(Tail(q))
  BY FlattenTail
<1>2. Tail(q) \in Seq(Seq(S)) /\ Head(q) = q[1] /\ q[1] \in Seq(S)
  OBVIOUS
<1> DEFINE a == q[1]
<1> DEFINE b == FlattenSeq(Tail(q))
<1>3. a \in Seq(S) /\ b \in Seq(S) /\ a # <<>> /\ FlattenSeq(q) = a \o b
  BY <1>1, <1>2, FlattenType
<1> HIDE DEF a, b
<1>4. a \o b \in Seq(S) /\ a \o b # <<>>
  BY <1>3
<1> QED
  BY <1>3, <1>4

\* There is a first device, and the chain is finite.
LEMMA ChainLength1 == Len(Chain) \in Nat \ {0} /\ Devices = 1 .. Len(Chain)
BY ChainAssumption DEF Devices

\* Devices have an instruction register and maybe an identifier.
LEMMA DeviceType ==
    ASSUME NEW d \in Devices
    PROVE  Chain[d].ir \in Nat \ {0} /\ Chain[d].id \in Seq(Bit)
<1> DEFINE Device == [ir : Nat \ {0}, id : Seq(Bit)]
<1>1. Chain \in Seq(Device)
  BY ChainAssumption
<1>2. d \in 1 .. Len(Chain)
  BY DEF Devices
<1> HIDE DEF Device
<1>3. Chain[d] \in Device
  BY <1>1, <1>2, ElementOfSeq
<1> QED
  BY <1>3 DEF Device

\* What is captured is a register with at least one bit.
LEMMA CapturedDRType ==
    ASSUME NEW instrs
    PROVE  CapturedDR(instrs) \in Seq(Bit) /\ CapturedDR(instrs) # <<>>
<1> DEFINE q == [d \in Devices |-> DataOf(d, instrs[d])]
<1>1. ASSUME NEW d \in Devices PROVE DataOf(d, instrs[d]) \in Seq(Bit) /\ DataOf(d, instrs[d]) # <<>>
  <2>1. Chain[d].id \in Seq(Bit)
    BY DeviceType
  <2>2. <<1, 0>> \in Seq(Bit) /\ <<1, 0>> # <<>> /\ <<0>> \in Seq(Bit) /\ <<0>> # <<>>
    BY DEF Bit
  <2> QED
    BY <2>1, <2>2 DEF DataOf
<1>2. q \in Seq(Seq(Bit)) /\ Len(q) = Len(Chain) /\ q[1] # <<>>
  <2>1. 1 \in Devices
    BY ChainLength1
  <2> HIDE DEF Devices
  <2>2. \A d \in Devices : q[d] \in Seq(Bit) /\ q[d] # <<>>
    BY <1>1
  <2> QED
    BY <2>1, <2>2, ChainLength1
<1>3. q # <<>>
  BY <1>2, ChainLength1
<1> HIDE DEF q
<1>4. FlattenSeq(q) \in Seq(Bit) /\ FlattenSeq(q) # <<>>
  BY <1>2, <1>3, FlattenNonEmpty
<1> QED
  BY <1>4 DEF CapturedDR, q

\* So is what the instruction registers capture.
LEMMA CapturedIRType == CapturedIR \in Seq(Bit) /\ CapturedIR # <<>>
<1> DEFINE bits(d) == [i \in 1 .. Chain[d].ir |-> IF i = 1 THEN 1 ELSE 0]
<1> DEFINE q == [d \in Devices |-> bits(d)]
<1>1. ASSUME NEW d \in Devices PROVE bits(d) \in Seq(Bit) /\ bits(d) # <<>>
  <2>1. PICK n \in Nat \ {0} : n = Chain[d].ir
    BY DeviceType
  <2>2. [i \in 1 .. n |-> IF i = 1 THEN 1 ELSE 0] \in Seq(Bit)
    BY DEF Bit
  <2>3. Len([i \in 1 .. n |-> IF i = 1 THEN 1 ELSE 0]) = n
    OBVIOUS
  <2> QED
    BY <2>1, <2>2, <2>3
<1>2. q \in Seq(Seq(Bit)) /\ Len(q) = Len(Chain) /\ q[1] # <<>>
  <2>1. 1 \in Devices
    BY ChainLength1
  <2> HIDE DEF Devices, bits
  <2>2. \A d \in Devices : q[d] \in Seq(Bit) /\ q[d] # <<>>
    BY <1>1
  <2> QED
    BY <2>1, <2>2, ChainLength1
<1>3. q # <<>>
  BY <1>2, ChainLength1
<1> HIDE DEF q
<1>4. FlattenSeq(q) \in Seq(Bit) /\ FlattenSeq(q) # <<>>
  BY <1>2, <1>3, FlattenNonEmpty
<1> QED
  BY <1>4 DEF CapturedIR, q

\* A device's instruction is one of those there are.
LEMMA DecodedType ==
    ASSUME NEW reg
    PROVE  Decoded(reg) \in [Devices -> Instructions]
BY Zenon DEF Decoded, Instructions

-----------------------------------------------------------------------------
(* The port. *)

\* A port whose chain has a register selected, what a shift brings, what goes into one.
LivePort == {p \in Port : p.reg # <<>>}
ShiftBit == [tdi : Bit, tdo : Bit]
PulseBit == [tms : Bit, tdi : Bit]

\* The port begins as one.
LEMMA PowerUpType == ASSUME NEW s \in Sources PROVE [PowerUp EXCEPT !.source = s] \in LivePort
<1>1. Low \in Lines
  BY DEF Low, Lines, Bit
<1>2. "TestLogicReset" \in TapStates
  BY DEF TapStates, TapPaths
<1>3. "jtag" \in Sources /\ "IDCODE" \in Instructions
  BY DEF Sources, Instructions
<1> QED
  BY <1>1, <1>2, <1>3, CapturedIRType DEF PowerUp, LivePort, Port

\* TDO is a bit.
LEMMA TdoType == ASSUME NEW p \in LivePort PROVE TdoOf(p) \in Bit
<1>1. p.reg \in Seq(Bit) /\ p.reg # <<>>
  BY DEF LivePort, Port
<1>2. Head(p.reg) \in Bit
  BY <1>1
<1> QED
  BY <1>2, FloatingAssumption DEF TdoOf

\* A pulse leaves a port, moves the TAP as its paths say and nothing on the pins.
LEMMA ClockType ==
    ASSUME NEW p \in LivePort, NEW tms \in Bit, NEW tdi \in Bit
    PROVE  /\ Clock(p, tms, tdi) \in LivePort
           /\ Clock(p, tms, tdi).tap = TapPaths[p.tap][tms + 1]
           /\ Clock(p, tms, tdi).source = p.source
           /\ Clock(p, tms, tdi).lines = p.lines
<1> DEFINE next == TapPaths[p.tap][tms + 1]
<1>1. p \in Port /\ p.tap \in TapStates /\ p.reg \in Seq(Bit) /\ p.reg # <<>>
      /\ p.instr \in [Devices -> Instructions]
  BY DEF LivePort, Port
<1>2. next \in TapStates
  BY <1>1, TapMoves
<1> HIDE DEF next
<1> DEFINE reg == IF p.tap = "CaptureDR" THEN CapturedDR(p.instr)
                  ELSE IF p.tap = "CaptureIR" THEN CapturedIR
                  ELSE IF p.tap \in Shifting THEN Append(Tail(p.reg), tdi) ELSE p.reg
<1> DEFINE instr == IF next = "TestLogicReset" THEN [d \in Devices |-> "IDCODE"]
                    ELSE IF next = "UpdateIR" THEN Decoded(p.reg) ELSE p.instr
<1>3. reg \in Seq(Bit) /\ reg # <<>>
  <2>1. Tail(p.reg) \in Seq(Bit)
    BY <1>1
  <2>2. Append(Tail(p.reg), tdi) \in Seq(Bit) /\ Append(Tail(p.reg), tdi) # <<>>
    BY <2>1, AppendProperties
  <2> QED
    BY <1>1, <2>2, CapturedDRType, CapturedIRType
<1>4. instr \in [Devices -> Instructions]
  <2>1. [d \in Devices |-> "IDCODE"] \in [Devices -> Instructions]
    BY DEF Instructions
  <2> QED
    BY <1>1, <2>1, DecodedType
<1>5. Clock(p, tms, tdi) = [p EXCEPT !.tap = next, !.reg = reg, !.instr = instr]
  BY DEF Clock, next
<1> HIDE DEF reg, instr
<1>6. [p EXCEPT !.tap = next, !.reg = reg, !.instr = instr] \in Port
  BY <1>1, <1>2, <1>3, <1>4 DEF Port
<1>7. /\ [p EXCEPT !.tap = next, !.reg = reg, !.instr = instr].tap = next
      /\ [p EXCEPT !.tap = next, !.reg = reg, !.instr = instr].reg = reg
      /\ [p EXCEPT !.tap = next, !.reg = reg, !.instr = instr].source = p.source
      /\ [p EXCEPT !.tap = next, !.reg = reg, !.instr = instr].lines = p.lines
  BY <1>1 DEF Port
<1> QED
  BY <1>3, <1>5, <1>6, <1>7 DEF LivePort, next

-----------------------------------------------------------------------------
(* Pulses. *)

RunType == [port : LivePort, tdo : Seq(Bit), trace : Seq(ShiftBit)]
FirstRun(p) == [port |-> p, tdo |-> <<>>, trace |-> <<>>]

\* A pulse goes from one run to the next.
LEMMA PulseType ==
    ASSUME NEW run \in RunType, NEW bit \in PulseBit
    PROVE  /\ Pulse(run, bit) \in RunType
           /\ Pulse(run, bit).port = Clock(run.port, bit.tms, bit.tdi)
           /\ Pulse(run, bit).tdo = Append(run.tdo, TdoOf(run.port))
           /\ Pulse(run, bit).trace = run.trace \o ShiftedBit(run.port, bit.tdi)
<1>1. run.port \in LivePort /\ run.tdo \in Seq(Bit) /\ run.trace \in Seq(ShiftBit)
      /\ bit.tms \in Bit /\ bit.tdi \in Bit
  BY DEF RunType, PulseBit
<1>2. TdoOf(run.port) \in Bit
  BY <1>1, TdoType
<1>3. ShiftedBit(run.port, bit.tdi) \in Seq(ShiftBit)
  <2>1. [tdi |-> bit.tdi, tdo |-> TdoOf(run.port)] \in ShiftBit
    BY <1>1, <1>2 DEF ShiftBit
  <2> DEFINE x == [tdi |-> bit.tdi, tdo |-> TdoOf(run.port)]
  <2> HIDE DEF x
  <2>2. x \in ShiftBit => <<x>> \in Seq(ShiftBit)
    OBVIOUS
  <2>3. <<x>> \in Seq(ShiftBit) /\ <<>> \in Seq(ShiftBit)
    BY <2>1, <2>2 DEF x
  <2> QED BY <2>3 DEF ShiftedBit, x
<1>4. Clock(run.port, bit.tms, bit.tdi) \in LivePort
  BY <1>1, ClockType
<1>5. Append(run.tdo, TdoOf(run.port)) \in Seq(Bit)
  BY <1>1, <1>2, AppendProperties
<1>6. run.trace \o ShiftedBit(run.port, bit.tdi) \in Seq(ShiftBit)
  BY <1>1, <1>3, ConcatProperties
<1> QED
  BY <1>4, <1>5, <1>6 DEF Pulse, RunType

\* runs[i] is the run after i pulses.
Runs(runs, p, bits) ==
    /\ runs[0] = FirstRun(p)
    /\ \A i \in 1 .. Len(bits) : runs[i] = Pulse(runs[i - 1], bits[i])

\* Stepped is where pulse after pulse leads.
LEMMA SteppedIsLast ==
    ASSUME NEW p \in LivePort, NEW bits \in Seq(PulseBit)
    PROVE  \E runs \in [0 .. Len(bits) -> RunType] :
              Runs(runs, p, bits) /\ Stepped(p, bits) = runs[Len(bits)]
<1>1. PICK n \in Nat : n = Len(bits)
  OBVIOUS
<1>2. \A i \in 1 .. n : bits[i] \in PulseBit
  BY <1>1, ElementOfSeq
<1> DEFINE steps == [i \in 1 .. n |-> [run \in RunType |-> Pulse(run, bits[i])]]
<1>3. steps \in [1 .. n -> [RunType -> RunType]]
  <2>1. \A i \in 1 .. n : \A run \in RunType : Pulse(run, bits[i]) \in RunType
    BY <1>2, PulseType
  <2> QED BY <2>1
<1>4. FirstRun(p) \in RunType
  BY DEF FirstRun, RunType
<1>5. PICK runs \in [0 .. n -> RunType] : Builds(runs, FirstRun(p), steps, n)
  <2> HIDE DEF steps
  <2> QED BY <1>3, <1>4, Recursion
<1>6. \A i \in 1 .. n : runs[i] = Pulse(runs[i - 1], bits[i])
  <2> TAKE i \in 1 .. n
  <2>1. i - 1 \in 0 .. n
    OBVIOUS
  <2>2. runs[i - 1] \in RunType
    BY <2>1
  <2>3. runs[i] = steps[i][runs[i - 1]]
    BY <1>5 DEF Builds
  <2> QED BY <2>2, <2>3
<1>7. runs[0] = FirstRun(p)
  BY <1>5 DEF Builds
<1> HIDE DEF steps
<1> DEFINE E(h) == h = [i \in 0 .. n |-> IF i = 0 THEN {FirstRun(p)}
                                         ELSE {Pulse(run, bits[i]) : run \in h[i - 1]}]
<1> DEFINE g == [i \in 0 .. n |-> {runs[i]}]
<1>8. E(g)
  <2>1. ASSUME NEW i \in 0 .. n
        PROVE  {runs[i]} = IF i = 0 THEN {FirstRun(p)}
                           ELSE {Pulse(run, bits[i]) : run \in g[i - 1]}
    <3>1. CASE i = 0
      BY <1>7, <3>1
    <3>2. CASE i # 0
      <4>1. i \in 1 .. n /\ i - 1 \in 0 .. n
        BY <3>2
      <4>2. g[i - 1] = {runs[i - 1]}
        BY <4>1
      <4>3. {Pulse(run, bits[i]) : run \in {runs[i - 1]}} = {Pulse(runs[i - 1], bits[i])}
        OBVIOUS
      <4>4. runs[i] = Pulse(runs[i - 1], bits[i])
        BY <1>6, <4>1
      <4> QED BY <3>2, <4>2, <4>3, <4>4
    <3> QED BY <3>1, <3>2
  <2> QED BY <2>1, Zenon
<1>9. ASSUME NEW h, E(h) PROVE h[n] = {runs[n]}
  <2> DEFINE G == {i \in 0 .. n : h[i] = {runs[i]}}
  <2>0. \A i \in 0 .. n : h[i] = IF i = 0 THEN {FirstRun(p)}
                                 ELSE {Pulse(run, bits[i]) : run \in h[i - 1]}
    BY <1>9, Zenon
  <2>1. 0 \in G
    <3>1. 0 \in 0 .. n
      OBVIOUS
    <3>2. h[0] = {FirstRun(p)}
      BY <2>0, <3>1, Zenon
    <3>3. h[0] = {runs[0]}
      BY <1>7, <3>2, Zenon
    <3> QED BY <3>1, <3>3, Zenon
  <2>2. ASSUME NEW i \in 1 .. n, i - 1 \in G PROVE i \in G
    <3>1. i \in 0 .. n /\ i # 0 /\ h[i - 1] = {runs[i - 1]}
      BY <2>2
    <3>2. h[i] = {Pulse(run, bits[i]) : run \in {runs[i - 1]}}
      BY <2>0, <3>1
    <3>3. {Pulse(run, bits[i]) : run \in {runs[i - 1]}} = {Pulse(runs[i - 1], bits[i])}
      OBVIOUS
    <3> QED BY <1>6, <3>1, <3>2, <3>3
  <2> HIDE DEF G
  <2>3. 0 .. n \subseteq G
    BY <2>1, <2>2, Reaches
  <2>4. n \in 0 .. n
    OBVIOUS
  <2> QED BY <2>3, <2>4 DEF G
<1>10. Stepped(p, bits) = runs[n]
  <2>1. E(CHOOSE h : E(h))
    <3> HIDE DEF E, g
    <3> QED BY <1>8, Zenon
  <2> DEFINE after == CHOOSE h : E(h)
  <2>2. after[n] = {runs[n]}
    <3> HIDE DEF E, after
    <3> QED BY <1>9, <2>1, Zenon DEF after
  <2>3. Stepped(p, bits) = CHOOSE run \in after[n] : TRUE
    BY <1>1, Zenon DEF Stepped, FirstRun
  <2> HIDE DEF after
  <2>4. (CHOOSE run \in {runs[n]} : TRUE) = runs[n]
    OBVIOUS
  <2> QED BY <2>2, <2>3, <2>4
<1> QED
  BY <1>1, <1>5, <1>6, <1>7, <1>10 DEF Runs

\* With TMS low a TAP in a shift state stays there.
LEMMA ShiftingStays == \A t \in Shifting : t \in TapStates /\ TapPaths[t][1] = t
BY DEF Shifting, TapStates, TapPaths

\* What a run out of p may not touch, and the number of bits it brings.
Keeps(run, p, n) ==
    /\ run \in RunType /\ Len(run.tdo) = n
    /\ run.port.source = p.source /\ run.port.lines = p.lines

\* The run has stayed in the shift state and its trace is what went in and what came out.
InShift(run, p, bits, n) ==
    /\ run.port.tap = p.tap
    /\ Len(run.trace) = n
    /\ \A i \in 1 .. n : run.trace[i].tdi = bits[i].tdi /\ run.trace[i].tdo = run.tdo[i]

\* Pulse after pulse leaves the pins alone and brings a bit each.
LEMMA SteppedKeeps ==
    ASSUME NEW p \in LivePort, NEW bits \in Seq(PulseBit)
    PROVE  Keeps(Stepped(p, bits), p, Len(bits))
<1>1. PICK n \in Nat : n = Len(bits)
  OBVIOUS
<1>2. PICK runs \in [0 .. n -> RunType] : Runs(runs, p, bits) /\ Stepped(p, bits) = runs[n]
  BY <1>1, SteppedIsLast
<1>3. \A i \in 1 .. n : bits[i] \in PulseBit
  BY <1>1, ElementOfSeq
<1> DEFINE G == {i \in 0 .. n : Keeps(runs[i], p, i)}
<1>4. 0 \in G
  <2>1. runs[0] = FirstRun(p) /\ FirstRun(p) \in RunType
    BY <1>2 DEF Runs, FirstRun, RunType
  <2>2. Keeps(FirstRun(p), p, 0)
    BY <2>1 DEF Keeps, FirstRun
  <2> QED BY <2>1, <2>2
<1>5. ASSUME NEW i \in 1 .. n, i - 1 \in G PROVE i \in G
  <2>1. i - 1 \in 0 .. n /\ Keeps(runs[i - 1], p, i - 1) /\ i \in 0 .. n
    BY <1>5
  <2> DEFINE run == runs[i - 1]
  <2>2. run \in RunType /\ bits[i] \in PulseBit
    BY <1>2, <1>3, <2>1
  <2>3. runs[i] = Pulse(run, bits[i])
    BY <1>1, <1>2 DEF Runs
  <2>4. run.port \in LivePort /\ run.tdo \in Seq(Bit) /\ bits[i].tms \in Bit /\ bits[i].tdi \in Bit
    BY <2>2 DEF RunType, PulseBit
  <2> HIDE DEF run
  <2>5. /\ Pulse(run, bits[i]) \in RunType
        /\ Pulse(run, bits[i]).port.source = run.port.source
        /\ Pulse(run, bits[i]).port.lines = run.port.lines
    <3>1. /\ Pulse(run, bits[i]) \in RunType
          /\ Pulse(run, bits[i]).port = Clock(run.port, bits[i].tms, bits[i].tdi)
      BY <2>2, PulseType, Zenon
    <3>2. /\ Clock(run.port, bits[i].tms, bits[i].tdi).source = run.port.source
          /\ Clock(run.port, bits[i].tms, bits[i].tdi).lines = run.port.lines
      BY <2>4, ClockType, ZenonT(60)
    <3> QED BY <3>1, <3>2, Zenon
  <2>6. Len(Pulse(run, bits[i]).tdo) = Len(run.tdo) + 1
    <3>1. Pulse(run, bits[i]).tdo = Append(run.tdo, TdoOf(run.port))
      BY <2>2, PulseType, Zenon
    <3>2. TdoOf(run.port) \in Bit
      BY <2>4, TdoType, Zenon
    <3> QED BY <2>4, <3>1, <3>2, AppendProperties
  <2>7. Keeps(run, p, i - 1)
    BY <2>1 DEF run
  <2>8. Keeps(Pulse(run, bits[i]), p, i)
    BY <2>5, <2>6, <2>7 DEF Keeps
  <2> QED BY <2>1, <2>3, <2>8
<1> HIDE DEF G
<1>6. n \in G
  <2>1. 0 .. n \subseteq G
    BY <1>4, <1>5, Reaches
  <2> QED BY <2>1
<1> QED
  BY <1>1, <1>2, <1>6 DEF G

\* With TMS low, out of a shift state, it shifts.
LEMMA SteppedShifts ==
    ASSUME NEW p \in LivePort, NEW bits \in Seq(PulseBit), p.tap \in Shifting,
           \A i \in 1 .. Len(bits) : bits[i].tms = 0
    PROVE  InShift(Stepped(p, bits), p, bits, Len(bits))
<1>1. PICK n \in Nat : n = Len(bits)
  OBVIOUS
<1>2. PICK runs \in [0 .. n -> RunType] : Runs(runs, p, bits) /\ Stepped(p, bits) = runs[n]
  BY <1>1, SteppedIsLast
<1>3. \A i \in 1 .. n : bits[i] \in PulseBit
  BY <1>1, ElementOfSeq
<1> DEFINE G == {i \in 0 .. n : InShift(runs[i], p, bits, i) /\ Len(runs[i].tdo) = i}
<1>4. 0 \in G
  <2>1. runs[0] = FirstRun(p)
    BY <1>2 DEF Runs
  <2>2. InShift(FirstRun(p), p, bits, 0) /\ Len(FirstRun(p).tdo) = 0
    BY DEF InShift, FirstRun
  <2> QED BY <2>1, <2>2
<1>5. ASSUME NEW i \in 1 .. n, i - 1 \in G PROVE i \in G
  <2>1. i - 1 \in 0 .. n /\ InShift(runs[i - 1], p, bits, i - 1) /\ i \in 0 .. n
        /\ Len(runs[i - 1].tdo) = i - 1
    BY <1>5
  <2> DEFINE run == runs[i - 1]
  <2>2. run \in RunType /\ bits[i] \in PulseBit
    BY <1>2, <1>3, <2>1
  <2>3. runs[i] = Pulse(run, bits[i])
    BY <1>1, <1>2 DEF Runs
  <2>4. run.port \in LivePort /\ run.tdo \in Seq(Bit) /\ bits[i].tms = 0 /\ bits[i].tdi \in Bit
        /\ run.trace \in Seq(ShiftBit) /\ 0 \in Bit
    BY <1>1, <2>2 DEF RunType, PulseBit, Bit
  <2> HIDE DEF run
  <2>5. run.port.tap = p.tap /\ Len(run.trace) = i - 1 /\ Len(run.tdo) = i - 1
        /\ \A k \in 1 .. i - 1 : run.trace[k].tdi = bits[k].tdi /\ run.trace[k].tdo = run.tdo[k]
    BY <2>1 DEF run, InShift
  <2> DEFINE more == Pulse(run, bits[i])
  <2>6. more.port.tap = p.tap
    <3>1. more.port = Clock(run.port, 0, bits[i].tdi)
      BY <2>2, <2>4, PulseType
    <3>2. Clock(run.port, 0, bits[i].tdi).tap = TapPaths[run.port.tap][0 + 1]
      BY <2>4, ClockType
    <3> QED BY <2>5, <3>1, <3>2, ShiftingStays
  <2> DEFINE shifted == [tdi |-> bits[i].tdi, tdo |-> TdoOf(run.port)]
  <2>7. more.trace = run.trace \o <<shifted>> /\ more.tdo = Append(run.tdo, TdoOf(run.port))
    BY <2>2, <2>5, PulseType DEF ShiftedBit
  <2>8. shifted \in ShiftBit /\ TdoOf(run.port) \in Bit
    BY <2>4, TdoType DEF ShiftBit
  <2>9. shifted.tdi = bits[i].tdi /\ shifted.tdo = TdoOf(run.port)
    OBVIOUS
  <2> HIDE DEF more, shifted
  <2>10. /\ Len(more.trace) = i /\ more.trace[i] = shifted
         /\ \A k \in 1 .. i - 1 : more.trace[k] = run.trace[k]
    <3> DEFINE t == run.trace
    <3>1. t \in Seq(ShiftBit) /\ Len(t) = i - 1
      BY <2>4, <2>5
    <3> HIDE DEF t
    <3>2. Len(t \o <<shifted>>) = i /\ (t \o <<shifted>>)[i] = shifted
          /\ \A k \in 1 .. i - 1 : (t \o <<shifted>>)[k] = t[k]
      BY <3>1
    <3> QED BY <2>7, <3>2 DEF t
  <2>11. /\ Len(more.tdo) = i /\ more.tdo[i] = TdoOf(run.port)
         /\ \A k \in 1 .. i - 1 : more.tdo[k] = run.tdo[k]
    BY <2>4, <2>5, <2>7, <2>8, AppendProperties
  <2>12. \A k \in 1 .. i : more.trace[k].tdi = bits[k].tdi /\ more.trace[k].tdo = more.tdo[k]
    <3> TAKE k \in 1 .. i
    <3>1. CASE k = i
      BY <2>9, <2>10, <2>11, <3>1
    <3>2. CASE k # i
      <4>1. k \in 1 .. i - 1
        BY <3>2
      <4> QED BY <2>5, <2>10, <2>11, <4>1
    <3> QED BY <3>1, <3>2
  <2>13. InShift(more, p, bits, i)
    BY <2>6, <2>10, <2>12 DEF InShift
  <2> QED BY <2>1, <2>3, <2>11, <2>13 DEF more
<1> HIDE DEF G
<1>6. n \in G
  <2>1. 0 .. n \subseteq G
    BY <1>4, <1>5, Reaches
  <2> QED BY <2>1
<1> QED
  BY <1>1, <1>2, <1>6 DEF G

\* Where the TAP does not move, the shortcut is a run as well.
LEMMA SettledKeeps ==
    ASSUME NEW p \in LivePort, NEW bits \in Seq(PulseBit)
    PROVE  /\ Keeps(Settled(p, bits), p, Len(bits))
           /\ Settled(p, bits).port.tap = p.tap
           /\ p.tap \in Shifting => InShift(Settled(p, bits), p, bits, Len(bits))
<1> DEFINE r == Settled(p, bits)
<1>1. PICK n \in Nat : n = Len(bits)
  OBVIOUS
<1>2. \A i \in 1 .. n : bits[i].tdi \in Bit
  <2>1. \A i \in 1 .. n : bits[i] \in PulseBit
    BY <1>1, ElementOfSeq
  <2> QED BY <2>1 DEF PulseBit
<1>3. p \in Port /\ p.reg \in Seq(Bit) /\ p.reg # <<>>
  BY DEF LivePort, Port
<1>4. CASE p.tap \notin Shifting
  <2>1. r = [port |-> p, tdo |-> [i \in 1 .. n |-> Floating], trace |-> <<>>]
    BY <1>1, <1>4 DEF Settled
  <2>2. [i \in 1 .. n |-> Floating] \in Seq(Bit) /\ Len([i \in 1 .. n |-> Floating]) = n
    BY FloatingAssumption
  <2>3. r \in RunType
    BY <2>1, <2>2 DEF RunType
  <2> HIDE DEF r
  <2>4. Keeps(r, p, n) /\ r.port.tap = p.tap
    BY <2>1, <2>2, <2>3 DEF Keeps
  <2> QED BY <1>1, <1>4, <2>4 DEF r
<1>5. CASE p.tap \in Shifting
  <2> DEFINE tail == [i \in 1 .. n |-> bits[i].tdi]
  <2> DEFINE all == p.reg \o tail
  <2>1. r = [port |-> [p EXCEPT !.reg = SubSeq(all, n + 1, Len(all))],
             tdo  |-> SubSeq(all, 1, n),
             trace |-> [i \in 1 .. n |-> [tdi |-> bits[i].tdi, tdo |-> all[i]]]]
    BY <1>1, <1>5, Zenon DEF Settled
  <2>2. tail \in Seq(Bit) /\ Len(tail) = n
    BY <1>2
  <2> HIDE DEF tail
  <2>3. PICK k \in Nat : k = Len(p.reg) /\ k >= 1
    BY <1>3
  <2>4. all \in Seq(Bit) /\ Len(all) = k + n
    BY <1>3, <2>2, <2>3, ConcatProperties
  <2> HIDE DEF all
  <2> DEFINE reg == SubSeq(all, n + 1, Len(all))
  <2> DEFINE out == SubSeq(all, 1, n)
  <2> DEFINE t == [i \in 1 .. n |-> [tdi |-> bits[i].tdi, tdo |-> all[i]]]
  <2>5. reg \in Seq(Bit) /\ Len(reg) = k
    BY <2>3, <2>4
  <2>6. out \in Seq(Bit) /\ Len(out) = n /\ \A i \in 1 .. n : out[i] = all[i]
    BY <2>3, <2>4
  <2>7. \A i \in 1 .. n : all[i] \in Bit
    BY <2>4, ElementOfSeq
  <2>8. t \in Seq(ShiftBit) /\ Len(t) = n
        /\ \A i \in 1 .. n : t[i].tdi = bits[i].tdi /\ t[i].tdo = all[i]
    <3>1. \A i \in 1 .. n : [tdi |-> bits[i].tdi, tdo |-> all[i]] \in ShiftBit
      BY <1>2, <2>7 DEF ShiftBit
    <3> QED BY <3>1
  <2> HIDE DEF reg, out, t
  <2>9. r = [port |-> [p EXCEPT !.reg = reg], tdo |-> out, trace |-> t]
    BY <2>1, Zenon DEF reg, out, t
  <2>10. reg # <<>>
    BY <2>3, <2>5
  <2>11. [p EXCEPT !.reg = reg] \in LivePort
         /\ [p EXCEPT !.reg = reg].tap = p.tap /\ [p EXCEPT !.reg = reg].source = p.source
         /\ [p EXCEPT !.reg = reg].lines = p.lines
    BY <1>3, <2>5, <2>10 DEF LivePort, Port
  <2> HIDE DEF r
  <2>12. r.port \in LivePort /\ r.port.tap = p.tap /\ r.port.source = p.source
         /\ r.port.lines = p.lines /\ r.tdo = out /\ r.trace = t /\ r \in RunType
    BY <2>6, <2>8, <2>9, <2>11 DEF RunType
  <2>13. Keeps(r, p, n)
    BY <2>6, <2>12 DEF Keeps
  <2>14. InShift(r, p, bits, n)
    BY <2>6, <2>8, <2>12 DEF InShift
  <2> QED BY <1>1, <2>12, <2>13, <2>14 DEF r
<1> QED BY <1>4, <1>5

\* Two sequences in one: the first k elements and the next m.
Split(s, a, b, k, m) ==
    /\ Len(s) = k + m /\ k \in Nat /\ m \in Nat
    /\ \A i \in 1 .. k : s[i] = a[i]
    /\ \A i \in 1 .. m : s[k + i] = b[i]

\* A concatenation is split where the first one ends.
LEMMA SplitConcat ==
    ASSUME NEW S, NEW a \in Seq(S), NEW b \in Seq(S)
    PROVE  Split(a \o b, a, b, Len(a), Len(b))
<1>1. PICK k \in Nat, m \in Nat : k = Len(a) /\ m = Len(b)
  OBVIOUS
<1> QED BY <1>1, ConcatParts DEF Split

\* What two runs in a row bring is what each brings.
LEMMA JoinedType ==
    ASSUME NEW a \in RunType, NEW b \in RunType
    PROVE  /\ Joined(a, b) \in RunType /\ Joined(a, b).port = b.port
           /\ Split(Joined(a, b).tdo, a.tdo, b.tdo, Len(a.tdo), Len(b.tdo))
           /\ Split(Joined(a, b).trace, a.trace, b.trace, Len(a.trace), Len(b.trace))
<1>1. a.tdo \in Seq(Bit) /\ b.tdo \in Seq(Bit) /\ a.trace \in Seq(ShiftBit)
      /\ b.trace \in Seq(ShiftBit) /\ b.port \in LivePort
  BY DEF RunType
<1> DEFINE out == a.tdo \o b.tdo
<1> DEFINE in == a.trace \o b.trace
<1>2. out \in Seq(Bit) /\ in \in Seq(ShiftBit)
  BY <1>1, ConcatProperties
<1>3. Split(out, a.tdo, b.tdo, Len(a.tdo), Len(b.tdo))
      /\ Split(in, a.trace, b.trace, Len(a.trace), Len(b.trace))
  BY <1>1, SplitConcat
<1>4. Joined(a, b) = [port |-> b.port, tdo |-> out, trace |-> in]
  BY DEF Joined
<1> HIDE DEF out, in
<1>5. Joined(a, b).port = b.port /\ Joined(a, b).tdo = out /\ Joined(a, b).trace = in
      /\ Joined(a, b) \in RunType
  BY <1>1, <1>2, <1>4 DEF RunType
<1> QED BY <1>3, <1>5

\* Pulses leave the pins alone and bring a bit each; with TMS low they shift where there
\* is something to shift.
LEMMA PulsesRun ==
    ASSUME NEW p \in LivePort, NEW bits \in Seq(PulseBit)
    PROVE  /\ Keeps(Pulses(p, bits), p, Len(bits))
           /\ p.tap \in Shifting /\ (\A i \in 1 .. Len(bits) : bits[i].tms = 0)
                => InShift(Pulses(p, bits), p, bits, Len(bits))
<1>1. PICK n \in Nat : n = Len(bits)
  OBVIOUS
<1> DEFINE low == \A i \in 1 .. n : bits[i].tms = 0
<1>2. DOMAIN bits = 1 .. n
  BY <1>1
<1>3. CASE ~ (n > 2 /\ low)
  <2>1. Pulses(p, bits) = Stepped(p, bits)
    BY <1>1, <1>2, <1>3 DEF Pulses
  <2> QED BY <2>1, SteppedKeeps, SteppedShifts
<1>4. CASE n > 2 /\ low
  <2> DEFINE a == SubSeq(bits, 1, 2)
  <2> DEFINE b == SubSeq(bits, 3, n)
  <2> DEFINE moved == Stepped(p, a)
  <2> DEFINE rest == Settled(moved.port, b)
  <2>1. Pulses(p, bits) = Joined(moved, rest)
    BY <1>1, <1>2, <1>4, Zenon DEF Pulses
  <2>2. /\ a \in Seq(PulseBit) /\ Len(a) = 2 /\ \A i \in 1 .. 2 : a[i] = bits[i]
        /\ b \in Seq(PulseBit) /\ Len(b) = n - 2 /\ \A i \in 1 .. n - 2 : b[i] = bits[2 + i]
    BY <1>1, <1>4
  <2> HIDE DEF a, b
  <2>3. Keeps(moved, p, 2)
    BY <2>2, SteppedKeeps
  <2>4. moved.port \in LivePort /\ moved.tdo \in Seq(Bit) /\ moved.trace \in Seq(ShiftBit)
    BY <2>3 DEF Keeps, RunType
  <2> HIDE DEF moved
  <2>5. /\ Keeps(rest, moved.port, n - 2) /\ rest.port.tap = moved.port.tap
        /\ moved.port.tap \in Shifting => InShift(rest, moved.port, b, n - 2)
    BY <2>2, <2>4, SettledKeeps
  <2>6. rest.port \in LivePort /\ rest.tdo \in Seq(Bit) /\ rest.trace \in Seq(ShiftBit)
    BY <2>5 DEF Keeps, RunType
  <2> HIDE DEF rest
  <2>7. Len(moved.tdo) = 2 /\ Len(rest.tdo) = n - 2
    BY <2>3, <2>5 DEF Keeps
  <2> DEFINE r == Joined(moved, rest)
  <2>8. /\ r \in RunType /\ r.port = rest.port
        /\ Split(r.tdo, moved.tdo, rest.tdo, 2, n - 2)
        /\ Split(r.trace, moved.trace, rest.trace, Len(moved.trace), Len(rest.trace))
    BY <2>3, <2>5, <2>7, JoinedType, Zenon DEF Keeps
  <2> HIDE DEF r
  <2>9. Len(r.tdo) = n
    BY <1>1, <2>8 DEF Split
  <2>12. Keeps(r, p, n)
    BY <2>3, <2>5, <2>8, <2>9 DEF Keeps
  <2>13. ASSUME p.tap \in Shifting PROVE InShift(r, p, bits, n)
    <3>1. \A i \in 1 .. 2 : a[i].tms = 0
      BY <1>4, <2>2
    <3>2. InShift(moved, p, a, 2)
      BY <2>2, <2>13, <3>1, SteppedShifts DEF moved
    <3>3. moved.port.tap = p.tap /\ Len(moved.trace) = 2
          /\ \A i \in 1 .. 2 : moved.trace[i].tdi = bits[i].tdi /\ moved.trace[i].tdo = moved.tdo[i]
      BY <2>2, <3>2 DEF InShift
    <3>4. /\ rest.port.tap = p.tap /\ Len(rest.trace) = n - 2
          /\ \A i \in 1 .. n - 2 : rest.trace[i].tdi = bits[2 + i].tdi /\ rest.trace[i].tdo = rest.tdo[i]
      BY <2>2, <2>5, <2>13, <3>3 DEF InShift
    <3>5. Split(r.trace, moved.trace, rest.trace, 2, n - 2)
      BY <2>8, <3>3, <3>4, Zenon
    <3>6. \A i \in 1 .. n : r.trace[i].tdi = bits[i].tdi /\ r.trace[i].tdo = r.tdo[i]
      <4> TAKE i \in 1 .. n
      <4>1. CASE i \in 1 .. 2
        BY <2>8, <3>3, <3>5, <4>1 DEF Split
      <4>2. CASE i \notin 1 .. 2
        <5>1. PICK k \in 1 .. n - 2 : i = 2 + k
          <6>1. i - 2 \in 1 .. n - 2 /\ i = 2 + (i - 2)
            BY <4>2
          <6> QED BY <6>1
        <5>2. r.trace[i] = rest.trace[k] /\ r.tdo[i] = rest.tdo[k]
          BY <2>8, <3>5, <5>1 DEF Split
        <5> QED BY <3>4, <5>1, <5>2
      <4> QED BY <4>1, <4>2
    <3>7. Len(r.trace) = n
      BY <1>1, <3>5 DEF Split
    <3> QED BY <2>8, <3>4, <3>6, <3>7 DEF InShift
  <2> QED BY <1>1, <2>1, <2>12, <2>13 DEF r
<1> QED BY <1>3, <1>4

-----------------------------------------------------------------------------
(* Messages. *)

\* A byte that a bit has entered at the top is a byte.
LEMMA EnteredType ==
    ASSUME NEW x \in 0 .. 255, NEW b \in Bit
    PROVE  x \div 2 + 128 * b \in 0 .. 255
<1>1. PICK y \in 0 .. 127 : y = x \div 2
  OBVIOUS
<1>2. CASE b = 0
  BY <1>1, <1>2
<1>3. CASE b = 1
  BY <1>1, <1>3, SMTT(60)
<1> QED BY <1>2, <1>3 DEF Bit

\* A bit that enters a byte at the top moves the others down by one.
LEMMA EnteredBits ==
    ASSUME NEW x \in 0 .. 255, NEW b \in Bit
    PROVE  /\ BitOf(x \div 2 + 128 * b, 7) = b
           /\ \A q \in 0 .. 6 : BitOf(x \div 2 + 128 * b, q) = BitOf(x, q + 1)
<1>1. PICK y \in 0 .. 127, r \in 0 .. 1 : x = 2 * y + r /\ x \div 2 = y
  <2>1. x \div 2 \in 0 .. 127 /\ x % 2 \in 0 .. 1 /\ x = 2 * (x \div 2) + (x % 2)
    OBVIOUS
  <2> QED BY <2>1
<1>2. b = 0 \/ b = 1
  BY DEF Bit
<1>3. BitOf(x \div 2 + 128 * b, 7) = b
  BY <1>1, <1>2, Powers DEF BitOf
<1>4. BitOf(x \div 2 + 128 * b, 0) = BitOf(x, 1)
  BY <1>1, <1>2, Powers DEF BitOf
<1>5. BitOf(x \div 2 + 128 * b, 1) = BitOf(x, 2)
  BY <1>1, <1>2, Powers DEF BitOf
<1>6. BitOf(x \div 2 + 128 * b, 2) = BitOf(x, 3)
  BY <1>1, <1>2, Powers DEF BitOf
<1>7. BitOf(x \div 2 + 128 * b, 3) = BitOf(x, 4)
  BY <1>1, <1>2, Powers DEF BitOf
<1>8. BitOf(x \div 2 + 128 * b, 4) = BitOf(x, 5)
  BY <1>1, <1>2, Powers DEF BitOf
<1>9. BitOf(x \div 2 + 128 * b, 5) = BitOf(x, 6)
  BY <1>1, <1>2, Powers DEF BitOf
<1>10. BitOf(x \div 2 + 128 * b, 6) = BitOf(x, 7)
  BY <1>1, <1>2, Powers DEF BitOf
<1> QED
  BY <1>3, <1>4, <1>5, <1>6, <1>7, <1>8, <1>9, <1>10

\* The k bits of in are the top ones of b, in order, the last of them in bit 7, and the
\* others are low.
Entered(b, in, k) ==
    /\ b \in 0 .. 255
    /\ \A q \in 1 .. k : BitOf(b, 7 - k + q) = in[q]
    /\ \A q \in 0 .. 7 - k : BitOf(b, q) = 0

\* Zero has no bit that is high.
LEMMA ZeroBits == \A q \in 0 .. 7 : BitOf(0, q) = 0
<1>1. BitOf(0, 0) = 0 /\ BitOf(0, 1) = 0 /\ BitOf(0, 2) = 0 /\ BitOf(0, 3) = 0
      /\ BitOf(0, 4) = 0 /\ BitOf(0, 5) = 0 /\ BitOf(0, 6) = 0 /\ BitOf(0, 7) = 0
  BY Powers DEF BitOf
<1> QED BY <1>1

\* Bytes with the same bits are the same.
LEMMA SameByte ==
    ASSUME NEW x \in 0 .. 255, NEW y \in 0 .. 255, \A q \in 0 .. 7 : BitOf(x, q) = BitOf(y, q)
    PROVE  x = y
<1>1. ASSUME NEW b \in 0 .. 255
      PROVE  b = BitOf(b, 0) + 2 * BitOf(b, 1) + 4 * BitOf(b, 2) + 8 * BitOf(b, 3)
                 + 16 * BitOf(b, 4) + 32 * BitOf(b, 5) + 64 * BitOf(b, 6) + 128 * BitOf(b, 7)
  <2>1. ASSUME NEW a \in Nat PROVE \E h \in Nat, r \in 0 .. 1 : a = 2 * h + r
    <3>1. a \div 2 \in Nat /\ a % 2 \in 0 .. 1 /\ a = 2 * (a \div 2) + (a % 2)
      OBVIOUS
    <3> QED BY <3>1
  <2>2. PICK h1 \in Nat, r0 \in 0 .. 1 : b = 2 * h1 + r0
    <3>1. b \in Nat
      OBVIOUS
    <3> QED BY <2>1, <3>1, Zenon
  <2>3. PICK h2 \in Nat, r1 \in 0 .. 1 : h1 = 2 * h2 + r1
    BY <2>1
  <2>4. PICK h3 \in Nat, r2 \in 0 .. 1 : h2 = 2 * h3 + r2
    BY <2>1
  <2>5. PICK h4 \in Nat, r3 \in 0 .. 1 : h3 = 2 * h4 + r3
    BY <2>1
  <2>6. PICK h5 \in Nat, r4 \in 0 .. 1 : h4 = 2 * h5 + r4
    BY <2>1
  <2>7. PICK h6 \in Nat, r5 \in 0 .. 1 : h5 = 2 * h6 + r5
    BY <2>1
  <2>8. PICK r7 \in 0 .. 1, r6 \in 0 .. 1 : h6 = 2 * r7 + r6
    <3>1. PICK h7 \in Nat, r6 \in 0 .. 1 : h6 = 2 * h7 + r6
      BY <2>1
    <3>2. h7 \in 0 .. 1
      BY <2>2, <2>3, <2>4, <2>5, <2>6, <2>7, <3>1
    <3> QED BY <3>1, <3>2
  <2>9. BitOf(b, 0) = r0 /\ BitOf(b, 1) = r1
    <3>1. b \div 1 = b /\ b % 2 = r0 /\ b \div 2 = h1 /\ h1 % 2 = r1
      BY <2>2, <2>3
    <3> QED BY <3>1, Powers DEF BitOf
  <2>10. BitOf(b, 2) = r2 /\ BitOf(b, 3) = r3
    <3>1. b = 8 * h3 + (4 * r2 + 2 * r1 + r0) /\ b = 16 * h4 + (8 * r3 + 4 * r2 + 2 * r1 + r0)
      BY <2>2, <2>3, <2>4, <2>5
    <3>2. b \div 4 = h2 /\ b \div 8 = h3
      BY <2>2, <2>3, <2>4, <3>1
    <3> QED BY <2>4, <2>5, <3>2, Powers, SMTT(30) DEF BitOf
  <2>11. BitOf(b, 4) = r4 /\ BitOf(b, 5) = r5
    <3>1. b = 16 * h4 + (8 * r3 + 4 * r2 + 2 * r1 + r0)
          /\ b = 32 * h5 + (16 * r4 + 8 * r3 + 4 * r2 + 2 * r1 + r0)
      BY <2>2, <2>3, <2>4, <2>5, <2>6
    <3>2. b \div 16 = h4 /\ b \div 32 = h5
      BY <3>1
    <3> QED BY <2>6, <2>7, <3>2, Powers DEF BitOf
  <2>12. BitOf(b, 6) = r6 /\ BitOf(b, 7) = r7
    <3>1. b = 64 * h6 + (32 * r5 + 16 * r4 + 8 * r3 + 4 * r2 + 2 * r1 + r0)
          /\ b = 128 * r7 + (64 * r6 + 32 * r5 + 16 * r4 + 8 * r3 + 4 * r2 + 2 * r1 + r0)
      BY <2>2, <2>3, <2>4, <2>5, <2>6, <2>7, <2>8
    <3>2. b \div 64 = h6 /\ b \div 128 = r7
      BY <3>1
    <3> QED BY <2>8, <3>2, Powers DEF BitOf
  <2>13. b = r0 + 2 * r1 + 4 * r2 + 8 * r3 + 16 * r4 + 32 * r5 + 64 * r6 + 128 * r7
    BY <2>2, <2>3, <2>4, <2>5, <2>6, <2>7, <2>8
  <2> QED BY <2>9, <2>10, <2>11, <2>12, <2>13, Zenon
<1>2. /\ BitOf(x, 0) = BitOf(y, 0) /\ BitOf(x, 1) = BitOf(y, 1) /\ BitOf(x, 2) = BitOf(y, 2)
      /\ BitOf(x, 3) = BitOf(y, 3) /\ BitOf(x, 4) = BitOf(y, 4) /\ BitOf(x, 5) = BitOf(y, 5)
      /\ BitOf(x, 6) = BitOf(y, 6) /\ BitOf(x, 7) = BitOf(y, 7)
  OBVIOUS
<1> QED BY <1>1, <1>2, Zenon

\* There is one byte that bits make.
LEMMA EnteredOnce ==
    ASSUME NEW k \in 0 .. 8, NEW in, NEW x, NEW y, Entered(x, in, k), Entered(y, in, k)
    PROVE  x = y
<1>1. /\ x \in 0 .. 255 /\ y \in 0 .. 255
      /\ \A q \in 1 .. k : BitOf(x, 7 - k + q) = in[q] /\ BitOf(y, 7 - k + q) = in[q]
      /\ \A q \in 0 .. 7 - k : BitOf(x, q) = 0 /\ BitOf(y, q) = 0
  BY Zenon DEF Entered
<1>2. ASSUME NEW q \in 0 .. 7 PROVE BitOf(x, q) = BitOf(y, q)
  <2>1. CASE q <= 7 - k
    BY <1>1, <2>1
  <2>2. CASE ~ (q <= 7 - k)
    <3>1. q - (7 - k) \in 1 .. k /\ 7 - k + (q - (7 - k)) = q
      BY <2>2
    <3>2. BitOf(x, 7 - k + (q - (7 - k))) = BitOf(y, 7 - k + (q - (7 - k)))
      BY <1>1, <3>1, Zenon
    <3> QED BY <3>1, <3>2, Zenon
  <2> QED BY <2>1, <2>2
<1> QED BY <1>1, <1>2, SameByte, Zenon

\* One bit more.
LEMMA EnteredNext ==
    ASSUME NEW k \in 0 .. 7, NEW x, NEW in \in [1 .. k + 1 -> Bit], Entered(x, in, k)
    PROVE  Entered(x \div 2 + 128 * in[k + 1], in, k + 1)
<1> DEFINE b == in[k + 1]
<1> DEFINE y == x \div 2 + 128 * b
<1>1. /\ x \in 0 .. 255 /\ b \in Bit
      /\ \A q \in 1 .. k : BitOf(x, 7 - k + q) = in[q]
      /\ \A q \in 0 .. 7 - k : BitOf(x, q) = 0
  <2>1. b \in Bit
    OBVIOUS
  <2> HIDE DEF b
  <2> QED BY <2>1, Zenon DEF Entered
<1> HIDE DEF b
<1>2. y \in 0 .. 255
  BY <1>1, EnteredType, ZenonT(60)
<1>3. BitOf(y, 7) = b /\ \A q \in 0 .. 6 : BitOf(y, q) = BitOf(x, q + 1)
  BY <1>1, EnteredBits, ZenonT(60)
<1> HIDE DEF y
<1>4. ASSUME NEW q \in 1 .. k + 1 PROVE BitOf(y, 7 - (k + 1) + q) = in[q]
  <2>1. CASE q = k + 1
    <3>1. 7 - (k + 1) + q = 7
      BY <2>1
    <3> QED BY <1>3, <2>1, <3>1 DEF b
  <2>2. CASE q # k + 1
    <3>1. q \in 1 .. k /\ 7 - (k + 1) + q \in 0 .. 6 /\ (7 - (k + 1) + q) + 1 = 7 - k + q
      BY <2>2
    <3>2. BitOf(y, 7 - (k + 1) + q) = BitOf(x, (7 - (k + 1) + q) + 1)
      BY <1>3, <3>1, Zenon
    <3> QED BY <1>1, <3>1, <3>2, Zenon
  <2> QED BY <2>1, <2>2
<1>5. ASSUME NEW q \in 0 .. 7 - (k + 1) PROVE BitOf(y, q) = 0
  <2>1. q \in 0 .. 6 /\ q + 1 \in 0 .. 7 - k
    OBVIOUS
  <2> QED BY <1>1, <1>3, <2>1, Zenon
<1>6. Entered(y, in, k + 1)
  BY <1>2, <1>4, <1>5, Zenon DEF Entered
<1> QED BY <1>6, Zenon DEF y, b

\* Bytes are filled from the top, bit by bit: what comes of it has them in order.
LEMMA FilledType ==
    ASSUME NEW k \in 0 .. 8, NEW in \in [1 .. k -> Bit]
    PROVE  LET byte[i \in 0 .. k] == IF i = 0 THEN 0 ELSE byte[i - 1] \div 2 + 128 * in[i]
           IN Entered(byte[k], in, k)
<1> DEFINE Byte == 0 .. 255
<1> DEFINE steps == [i \in 1 .. k |-> [x \in Byte |-> x \div 2 + 128 * in[i]]]
<1>1. ASSUME NEW x \in Byte, NEW i \in 1 .. k PROVE x \div 2 + 128 * in[i] \in Byte
  <2>1. in[i] \in Bit
    OBVIOUS
  <2> QED BY <2>1, EnteredType, ZenonT(60)
<1>2. steps \in [1 .. k -> [Byte -> Byte]]
  BY <1>1, ZenonT(60)
<1>3. k \in Nat /\ 0 \in Byte
  OBVIOUS
<1>4. PICK f \in [0 .. k -> Byte] : Builds(f, 0, steps, k)
  <2> HIDE DEF Byte, steps
  <2> QED BY <1>2, <1>3, Recursion
<1> DEFINE E(h) == h = [i \in 0 .. k |-> IF i = 0 THEN 0 ELSE h[i - 1] \div 2 + 128 * in[i]]
<1>5. E(f)
  <2>1. ASSUME NEW i \in 0 .. k
        PROVE  f[i] = IF i = 0 THEN 0 ELSE f[i - 1] \div 2 + 128 * in[i]
    <3>1. CASE i = 0
      BY <1>4, <3>1 DEF Builds
    <3>2. CASE i # 0
      <4>1. i \in 1 .. k /\ i - 1 \in 0 .. k
        BY <3>2
      <4>2. f[i] = steps[i][f[i - 1]] /\ f[i - 1] \in Byte
        BY <1>4, <4>1 DEF Builds
      <4> QED BY <3>2, <4>1, <4>2
    <3> QED BY <3>1, <3>2
  <2> QED BY <2>1
<1> DEFINE byte == CHOOSE h : E(h)
<1>6. E(byte)
  <2> HIDE DEF E
  <2> QED BY <1>5, Zenon
<1> HIDE DEF byte
<1>7. \A i \in 0 .. k : byte[i] = IF i = 0 THEN 0 ELSE byte[i - 1] \div 2 + 128 * in[i]
  BY <1>6, Zenon
<1> DEFINE G == {i \in 0 .. k : Entered(byte[i], in, i)}
<1>8. 0 \in G
  <2>1. byte[0] = 0 /\ 0 \in 0 .. k
    BY <1>7
  <2>2. Entered(0, in, 0)
    BY ZeroBits DEF Entered
  <2> QED BY <2>1, <2>2
<1>9. ASSUME NEW i \in 1 .. k, i - 1 \in G PROVE i \in G
  <2>1. i \in 0 .. k /\ i # 0 /\ i - 1 \in 0 .. 7 /\ (i - 1) + 1 = i
    OBVIOUS
  <2>2. byte[i] = byte[i - 1] \div 2 + 128 * in[i]
    BY <1>7, <2>1, Zenon
  <2>3. Entered(byte[i - 1], in, i - 1)
    BY <1>9
  <2> DEFINE first == [q \in 1 .. i |-> in[q]]
  <2>4. first \in [1 .. (i - 1) + 1 -> Bit] /\ first[(i - 1) + 1] = in[i]
        /\ (\A q \in 1 .. i - 1 : first[q] = in[q]) /\ (\A q \in 1 .. i : first[q] = in[q])
    OBVIOUS
  <2> HIDE DEF first
  <2>5. Entered(byte[i - 1], first, i - 1)
    BY <2>3, <2>4 DEF Entered
  <2>6. Entered(byte[i - 1] \div 2 + 128 * first[(i - 1) + 1], first, (i - 1) + 1)
    BY <2>1, <2>4, <2>5, EnteredNext
  <2>7. Entered(byte[i], first, i)
    BY <2>1, <2>2, <2>4, <2>6, Zenon
  <2>8. Entered(byte[i], in, i)
    BY <2>4, <2>7 DEF Entered
  <2> QED BY <2>1, <2>8
<1> HIDE DEF G
<1>10. k \in G
  <2>1. 0 .. k \subseteq G
    BY <1>3, <1>8, <1>9, Reaches
  <2> QED BY <2>1
<1>11. Entered(byte[k], in, k)
  BY <1>10 DEF G
<1> QED BY <1>11, Zenon DEF byte

\* The bits of byte j of a sequence of len bits.
LEMMA ByteBits ==
    ASSUME NEW len \in Nat, NEW j \in 1 .. (len + 7) \div 8
    PROVE  LET n == (len + 7) \div 8
               k == IF j < n THEN 8 ELSE len - 8 * (n - 1)
           IN k \in 0 .. 8 /\ \A i \in 1 .. k : 8 * (j - 1) + i \in 1 .. len
<1> DEFINE n == (len + 7) \div 8
<1> DEFINE k == IF j < n THEN 8 ELSE len - 8 * (n - 1)
<1>1. n \in Nat /\ 8 * n <= len + 7 /\ len + 7 < 8 * n + 8 /\ j \in 1 .. n
  OBVIOUS
<1> HIDE DEF n
<1>2. CASE j < n
  BY <1>1, <1>2
<1>3. CASE ~ (j < n)
  <2>1. j = n
    BY <1>1, <1>3
  <2> QED BY <1>1, <2>1
<1> QED BY <1>2, <1>3 DEF n

\* A list of n is a sequence of length n.
LEMMA ListType ==
    ASSUME NEW S, NEW n \in Nat, NEW f \in [1 .. n -> S]
    PROVE  f \in Seq(S) /\ Len(f) = n
OBVIOUS

\* Bytes that are those bits and nothing else: eight in each but the last, which has the
\* rest at the top and zeros below.
Packed(bytes, bits) ==
    LET n == (Len(bits) + 7) \div 8
        filled(j) == IF j < n THEN 8 ELSE Len(bits) - 8 * (n - 1)
    IN /\ bytes \in Seq(0 .. 255) /\ Len(bytes) = n
       /\ \A j \in 1 .. n :
            Entered(bytes[j], [q \in 1 .. filled(j) |-> bits[8 * (j - 1) + q]], filled(j))

\* These bytes hold those bits, whatever is below the rest in the last.
Hold(bytes, bits) ==
    LET n == (Len(bits) + 7) \div 8
        filled(j) == IF j < n THEN 8 ELSE Len(bits) - 8 * (n - 1)
    IN /\ bytes \in Seq(0 .. 255) /\ Len(bytes) = n
       /\ \A j \in 1 .. n : \A q \in 1 .. filled(j) :
            BitOf(bytes[j], 7 - filled(j) + q) = bits[8 * (j - 1) + q]

\* What TDO brings makes such bytes.
LEMMA BytesPacked ==
    ASSUME NEW bits \in Seq(Bit)
    PROVE  Packed(BytesOf(bits), bits)
<1> DEFINE len == Len(bits)
<1> DEFINE n == (len + 7) \div 8
<1> DEFINE filled(j) == IF j < n THEN 8 ELSE len - 8 * (n - 1)
<1> DEFINE entered(j) ==
             LET byte[i \in 0 .. filled(j)] ==
                     IF i = 0 THEN 0 ELSE byte[i - 1] \div 2 + 128 * bits[8 * (j - 1) + i]
             IN byte[filled(j)]
<1>0. BytesOf(bits) = [j \in 1 .. n |-> entered(j)]
  BY Zenon DEF BytesOf
<1>1. len \in Nat /\ len = Len(bits)
  OBVIOUS
<1> HIDE DEF len
<1>2. n \in Nat /\ n = (len + 7) \div 8
  BY <1>1
<1> HIDE DEF n
<1>3. ASSUME NEW j \in 1 .. n
      PROVE  Entered(entered(j), [q \in 1 .. filled(j) |-> bits[8 * (j - 1) + q]], filled(j))
  <2>1. PICK k \in 0 .. 8 : k = filled(j) /\ \A i \in 1 .. k : 8 * (j - 1) + i \in 1 .. len
    BY <1>1, <1>2, ByteBits
  <2>2. \A i \in 1 .. k : bits[8 * (j - 1) + i] \in Bit
    BY <1>1, <2>1, ElementOfSeq
  <2> DEFINE in == [i \in 1 .. k |-> bits[8 * (j - 1) + i]]
  <2>3. in \in [1 .. k -> Bit]
    BY <2>2
  <2> DEFINE E(h) == h = [i \in 0 .. k |-> IF i = 0 THEN 0 ELSE h[i - 1] \div 2 + 128 * in[i]]
  <2> DEFINE D(h) == h = [i \in 0 .. k |-> IF i = 0 THEN 0
                                           ELSE h[i - 1] \div 2 + 128 * bits[8 * (j - 1) + i]]
  <2>4. ASSUME NEW h PROVE D(h) = E(h)
    <3>1. [i \in 0 .. k |-> IF i = 0 THEN 0 ELSE h[i - 1] \div 2 + 128 * in[i]]
          = [i \in 0 .. k |-> IF i = 0 THEN 0
                              ELSE h[i - 1] \div 2 + 128 * bits[8 * (j - 1) + i]]
      <4>1. ASSUME NEW i \in 0 .. k, i # 0 PROVE in[i] = bits[8 * (j - 1) + i]
        BY <4>1
      <4> HIDE DEF in
      <4> QED BY <4>1, ZenonT(60)
    <3> QED BY <3>1, Zenon
  <2>5. (CHOOSE h : D(h)) = (CHOOSE h : E(h))
    <3> HIDE DEF D, E
    <3> QED BY <2>4
  <2>6. Entered((CHOOSE h : E(h))[k], in, k)
    BY <2>3, FilledType, ZenonT(60)
  <2>7. entered(j) = (CHOOSE h : D(h))[k]
    BY <2>1, Zenon
  <2> DEFINE byte == entered(j)
  <2>8. Entered(byte, in, k)
    <3> HIDE DEF entered, E, D
    <3> QED BY <2>5, <2>6, <2>7, Zenon
  <2> HIDE DEF filled
  <2> QED BY <2>1, <2>8, Zenon DEF byte, in
<1> HIDE DEF entered
<1>4. BytesOf(bits) \in Seq(0 .. 255) /\ Len(BytesOf(bits)) = n
  <2>1. \A j \in 1 .. n : entered(j) \in 0 .. 255
    <3> HIDE DEF filled
    <3> QED BY <1>3, Zenon DEF Entered
  <2> HIDE DEF filled
  <2> DEFINE f == [j \in 1 .. n |-> entered(j)]
  <2>0. n \in Nat
    BY <1>2
  <2>2. f \in [1 .. n -> 0 .. 255]
    BY <2>1, Zenon
  <2> HIDE DEF f
  <2>3. f \in Seq(0 .. 255) /\ Len(f) = n
    BY <2>0, <2>2, ListType, ZenonT(60)
  <2> QED BY <1>0, <2>3, Zenon DEF f
<1>5. ASSUME NEW j \in 1 .. n
      PROVE  Entered(BytesOf(bits)[j], [q \in 1 .. filled(j) |-> bits[8 * (j - 1) + q]], filled(j))
  <2>1. BytesOf(bits)[j] = entered(j)
    BY <1>0
  <2> HIDE DEF filled
  <2> QED BY <1>3, <2>1, Zenon
<1> QED BY <1>1, <1>2, <1>4, <1>5, Zenon DEF Packed

\* So they hold the bits.
LEMMA PackedHolds == ASSUME NEW bytes, NEW bits, Packed(bytes, bits) PROVE Hold(bytes, bits)
<1> DEFINE n == (Len(bits) + 7) \div 8
<1> DEFINE filled(j) == IF j < n THEN 8 ELSE Len(bits) - 8 * (n - 1)
<1>1. /\ bytes \in Seq(0 .. 255) /\ Len(bytes) = n
      /\ \A j \in 1 .. n :
           Entered(bytes[j], [q \in 1 .. filled(j) |-> bits[8 * (j - 1) + q]], filled(j))
  BY Zenon DEF Packed
<1> HIDE DEF n, filled
<1>2. \A j \in 1 .. n : \A q \in 1 .. filled(j) :
        BitOf(bytes[j], 7 - filled(j) + q) = bits[8 * (j - 1) + q]
  BY <1>1, Zenon DEF Entered
<1> QED BY <1>1, <1>2, Zenon DEF Hold, n, filled

\* What TDO brings makes bytes that hold it.
LEMMA BytesHold == ASSUME NEW bits \in Seq(Bit) PROVE Hold(BytesOf(bits), bits)
BY BytesPacked, PackedHolds

\* They are the only ones so packed.
LEMMA PackedOnce ==
    ASSUME NEW bits \in Seq(Bit), NEW s, NEW t, Packed(s, bits), Packed(t, bits)
    PROVE  s = t
<1> DEFINE len == Len(bits)
<1> DEFINE n == (len + 7) \div 8
<1> DEFINE filled(j) == IF j < n THEN 8 ELSE len - 8 * (n - 1)
<1> DEFINE in(j) == [q \in 1 .. filled(j) |-> bits[8 * (j - 1) + q]]
<1>1. /\ s \in Seq(0 .. 255) /\ Len(s) = n /\ t \in Seq(0 .. 255) /\ Len(t) = n
      /\ \A j \in 1 .. n : Entered(s[j], in(j), filled(j)) /\ Entered(t[j], in(j), filled(j))
  BY Zenon DEF Packed
<1> HIDE DEF in
<1>2. len \in Nat
  OBVIOUS
<1> HIDE DEF len
<1>3. \A j \in 1 .. n : filled(j) \in 0 .. 8
  BY <1>2, ByteBits
<1> HIDE DEF n, filled
<1>4. \A j \in 1 .. n : s[j] = t[j]
  BY <1>1, <1>3, EnteredOnce, Zenon
<1> QED BY <1>1, <1>4

\* What TDO brings makes bytes, as many as the bits need.
LEMMA BytesOfType ==
    ASSUME NEW bits \in Seq(Bit)
    PROVE  BytesOf(bits) \in Seq(0 .. 255) /\ Len(BytesOf(bits)) = (Len(bits) + 7) \div 8
BY BytesHold, Zenon DEF Hold

\* What may be exchanged with the firmware.
Exchanged == [cmd : Nat, len : 0 .. 255, tx : Seq(0 .. 255), want : Nat]

\* A byte is a number, and so is what is left of its bits.
LEMMA ByteNumber == ASSUME NEW b \in 0 .. 255 PROVE b \in Nat /\ b % 8 \in 0 .. 7
OBVIOUS

\* The bits of bytes are bits.
LEMMA BitsOfType ==
    ASSUME NEW bytes \in Seq(0 .. 255), NEW n \in Nat, n <= 8 * Len(bytes)
    PROVE  BitsOf(bytes, n) \in [1 .. n -> Bit]
<1>1. PICK k \in Nat : k = Len(bytes) /\ n <= 8 * k
  OBVIOUS
<1>2. ASSUME NEW i \in 1 .. n PROVE BitOf(bytes[((i - 1) \div 8) + 1], (i - 1) % 8) \in Bit
  <2>1. PICK j \in 1 .. k : j = ((i - 1) \div 8) + 1
    BY <1>1
  <2>2. bytes[j] \in Nat
    <3>1. bytes[j] \in 0 .. 255
      BY <1>1, ElementOfSeq
    <3> QED BY <3>1, ByteNumber, Zenon
  <2>3. (i - 1) % 8 \in 0 .. 7
    OBVIOUS
  <2> QED BY <2>1, <2>2, <2>3, BitOfType
<1> QED BY <1>2, Zenon DEF BitsOf

\* A message makes pulses, with TMS low unless it is one for TMS.
LEMMA PulsesType ==
    ASSUME NEW m \in Exchanged
    PROVE  /\ PulsesOf(m) \in Seq(PulseBit)
           /\ m.cmd # CmdJtag + CmdTms =>
                \A i \in 1 .. Len(PulsesOf(m)) : PulsesOf(m)[i].tms = 0
<1> DEFINE ro == m.cmd = CmdJtag + CmdTdiRO
<1> DEFINE n == IF ro THEN 8 * m.want
                ELSE IF m.tx = <<>> THEN 0 ELSE 8 * (Len(m.tx) - 1) + (m.len % 8) + 1
<1> DEFINE bits == IF ro THEN [i \in 1 .. n |-> 0] ELSE BitsOf(m.tx, n)
<1> DEFINE high == IF m.len >= TmsTdiHi THEN 1 ELSE 0
<1> DEFINE pulse(i) == IF m.cmd = CmdJtag + CmdTms THEN [tms |-> bits[i], tdi |-> high]
                       ELSE [tms |-> 0, tdi |-> bits[i]]
<1>1. PulsesOf(m) = [i \in 1 .. n |-> pulse(i)]
  BY Zenon DEF PulsesOf
<1>2. m.len \in 0 .. 255 /\ m.tx \in Seq(0 .. 255) /\ m.want \in Nat
  BY DEF Exchanged
<1>3. n \in Nat /\ (~ ro => n <= 8 * Len(m.tx))
  <2>1. CASE ro
    BY <1>2, <2>1
  <2>2. CASE ~ ro /\ m.tx = <<>>
    BY <1>2, <2>2
  <2>3. CASE ~ ro /\ m.tx # <<>>
    <3>1. PICK k \in Nat \ {0} : k = Len(m.tx)
      BY <1>2, <2>3
    <3>2. m.len % 8 \in 0 .. 7
      BY <1>2, ByteNumber, Zenon
    <3> QED BY <2>3, <3>1, <3>2, SMTT(60)
  <2> QED BY <2>1, <2>2, <2>3
<1> HIDE DEF n
<1>4. bits \in [1 .. n -> Bit]
  <2>1. CASE ro
    BY <2>1 DEF Bit
  <2>2. CASE ~ ro
    BY <1>2, <1>3, <2>2, BitsOfType
  <2> QED BY <2>1, <2>2
<1>5. high \in Bit /\ 0 \in Bit
  BY DEF Bit
<1> HIDE DEF bits, high, ro
<1>6. \A i \in 1 .. n : pulse(i) \in PulseBit /\ (m.cmd # CmdJtag + CmdTms => pulse(i).tms = 0)
  BY <1>4, <1>5 DEF PulseBit
<1> HIDE DEF pulse
<1> QED BY <1>1, <1>3, <1>6

-----------------------------------------------------------------------------
(* The multiplexer. *)

\* The lines or their source change: at most a pulse comes of it.
LEMMA DriveType ==
    ASSUME NEW p, NEW q \in LivePort
    PROVE  Drive(p, q) \in LivePort /\ Drive(p, q).source = q.source
<1>1. CASE Rises(p, q)
  <2>1. q.lines[q.source] \in Lines
    BY DEF LivePort, Port
  <2>2. Driven(q).tms \in Bit /\ Driven(q).tdi \in Bit
    BY <2>1 DEF Driven, Lines
  <2>3. Drive(p, q) = Clock(q, Driven(q).tms, Driven(q).tdi)
    BY <1>1 DEF Drive
  <2> QED BY <2>2, <2>3, ClockType
<1>2. CASE ~ Rises(p, q)
  BY <1>2 DEF Drive
<1> QED BY <1>1, <1>2

\* Other lines make another port.
LEMMA LinesType ==
    ASSUME NEW p \in LivePort, NEW s \in Sources, NEW l \in Lines
    PROVE  LET q == [p EXCEPT !.lines[s] = l]
           IN q \in LivePort /\ q.source = p.source /\ q.tap = p.tap /\ q.reg = p.reg
<1>1. p.lines \in [Sources -> Lines]
  BY DEF LivePort, Port
<1> DEFINE new == [p.lines EXCEPT ![s] = l]
<1>2. new \in [Sources -> Lines]
  BY <1>1
<1>3. [p EXCEPT !.lines[s] = l] = [p EXCEPT !.lines = new]
  BY Zenon
<1> HIDE DEF new
<1> QED BY <1>2, <1>3 DEF LivePort, Port

\* Selecting another source leaves a port.
LEMMA SelectType ==
    ASSUME NEW p \in LivePort, NEW scratch
    PROVE  Select(p, scratch) \in LivePort
<1> DEFINE q == [p EXCEPT !.source = SourceOf(scratch)]
<1>1. SourceOf(scratch) \in Sources
  BY DEF SourceOf, Sources
<1>2. q \in LivePort
  BY <1>1 DEF LivePort, Port
<1> HIDE DEF q
<1>3. Drive(p, q) \in LivePort
  BY <1>2, DriveType
<1> QED BY <1>3, Zenon DEF Select, q

\* So does setting the pins one by one.
LEMMA SetPinsType ==
    ASSUME NEW p \in LivePort, NEW dat \in Nat
    PROVE  SetPins(p, dat) \in LivePort /\ SetPins(p, dat).source = p.source
<1> DEFINE l == [tck |-> BitOf(dat, 0), tms |-> BitOf(dat, 3), tdi |-> BitOf(dat, 1)]
<1> DEFINE q == [p EXCEPT !.lines["jtag"] = l]
<1>1. l \in Lines /\ "jtag" \in Sources
  BY BitOfType DEF Lines, Sources
<1> HIDE DEF l
<1>2. q \in LivePort /\ q.source = p.source
  BY <1>1, LinesType
<1> HIDE DEF q
<1>3. Drive(p, q) \in LivePort /\ Drive(p, q).source = q.source
  BY <1>2, DriveType
<1> QED BY <1>2, <1>3, Zenon DEF SetPins, q, l

-----------------------------------------------------------------------------
(* What becomes of a message. *)

\* What comes in while a byte is on the pins is a byte.
LEMMA BangInType ==
    ASSUME NEW p \in LivePort, NEW b \in 0 .. 255
    PROVE  BangIn(p, b) \in 0 .. 255
<1>1. PICK t \in Bit : t = TdoOf(p)
  BY TdoType
<1>2. PICK q \in 0 .. 63 : q = b \div 4 /\ 4 * q <= b /\ b < 4 * q + 4
  OBVIOUS
<1>3. BitOf(b, 2) = q % 2
  BY <1>2, Powers DEF BitOf
<1>4. b - 4 * (q % 2) + 4 * t \in 0 .. 255
  <2>1. CASE q % 2 = 0
    <3>1. q <= 62
      BY <2>1
    <3> QED BY <1>2, <2>1, <3>1 DEF Bit
  <2>2. CASE q % 2 = 1
    <3>1. q >= 1
      BY <2>2
    <3> QED BY <1>2, <2>2, <3>1 DEF Bit
  <2>3. q % 2 = 0 \/ q % 2 = 1
    OBVIOUS
  <2> QED BY <2>1, <2>2, <2>3
<1> QED BY <1>1, <1>3, <1>4 DEF BangIn

\* A run of bit-banged bytes.
BangType == [port : LivePort, tdo : Seq(0 .. 255), trace : Seq(ShiftBit)]

\* What a byte does: the pins, what comes in, and what is shifted if TCK rises.
BangStep(run, b) ==
    LET q == BangPins(run.port, b) IN
    [port  |-> Drive(run.port, q), tdo |-> Append(run.tdo, BangIn(run.port, b)),
     trace |-> run.trace \o IF Rises(run.port, q)
                            THEN ShiftedBit(run.port, BitOf(b, 1)) ELSE <<>>]

\* It goes from one run to the next and leaves the source of the pins alone.
LEMMA BangStepType ==
    ASSUME NEW run \in BangType, NEW b \in 0 .. 255
    PROVE  BangStep(run, b) \in BangType /\ BangStep(run, b).port.source = run.port.source
<1> DEFINE q == BangPins(run.port, b)
<1> DEFINE bit == IF Rises(run.port, q) THEN ShiftedBit(run.port, BitOf(b, 1)) ELSE <<>>
<1>1. run.port \in LivePort /\ run.tdo \in Seq(0 .. 255)
      /\ run.trace \in Seq(ShiftBit)
  BY DEF BangType
<1>2. BitOf(b, 0) \in Bit /\ BitOf(b, 1) \in Bit /\ BitOf(b, 3) \in Bit
  <2>1. b \in Nat
    BY ByteNumber
  <2> QED BY <2>1, BitOfType
<1>3. q \in LivePort /\ q.source = run.port.source
  <2> DEFINE l == [tck |-> BitOf(b, 3), tms |-> BitOf(b, 0), tdi |-> BitOf(b, 1)]
  <2>1. l \in Lines /\ "bb" \in Sources
    BY <1>2 DEF Lines, Sources
  <2>2. q = [run.port EXCEPT !.lines["bb"] = l]
    BY Zenon DEF BangPins
  <2> HIDE DEF l, q
  <2> QED BY <1>1, <2>1, <2>2, LinesType
<1> HIDE DEF q
<1>4. Drive(run.port, q) \in LivePort /\ Drive(run.port, q).source = run.port.source
  BY <1>3, DriveType
<1>5. BangIn(run.port, b) \in 0 .. 255
  BY <1>1, BangInType, ZenonT(40)
<1>6. bit \in Seq(ShiftBit)
  <2>1. TdoOf(run.port) \in Bit
    BY <1>1, TdoType
  <2>2. [tdi |-> BitOf(b, 1), tdo |-> TdoOf(run.port)] \in ShiftBit
    BY <1>2, <2>1 DEF ShiftBit
  <2>3. ShiftedBit(run.port, BitOf(b, 1)) \in Seq(ShiftBit)
    BY <2>2 DEF ShiftedBit
  <2> QED BY <2>3
<1> HIDE DEF bit
<1> DEFINE out == Append(run.tdo, BangIn(run.port, b))
<1> DEFINE t == run.trace \o bit
<1> DEFINE port == Drive(run.port, q)
<1>7. out \in Seq(0 .. 255)
  BY <1>1, <1>5
<1>8. t \in Seq(ShiftBit)
  BY <1>1, <1>6, ConcatProperties
<1>9. BangStep(run, b) = [port |-> port, tdo |-> out, trace |-> t]
  BY Zenon DEF BangStep, q, bit
<1>10. port \in LivePort /\ port.source = run.port.source
  BY <1>4
<1> HIDE DEF out, t, port
<1> QED BY <1>7, <1>8, <1>9, <1>10 DEF BangType

\* Byte after byte.
BangRuns(runs, p, bytes) ==
    /\ runs[0] = FirstRun(p)
    /\ \A i \in 1 .. Len(bytes) : runs[i] = BangStep(runs[i - 1], bytes[i])

\* Banged is where they lead.
LEMMA BangedIsLast ==
    ASSUME NEW p \in LivePort, NEW bytes \in Seq(0 .. 255)
    PROVE  \E runs \in [0 .. Len(bytes) -> {run \in BangType : run.port.source = p.source}] :
              BangRuns(runs, p, bytes) /\ Banged(p, bytes) = runs[Len(bytes)]
<1> DEFINE A == {run \in BangType : run.port.source = p.source}
<1>1. PICK n \in Nat : n = Len(bytes) /\ \A i \in 1 .. n : bytes[i] \in 0 .. 255
  <2>1. Len(bytes) \in Nat /\ \A i \in 1 .. Len(bytes) : bytes[i] \in 0 .. 255
    BY ElementOfSeq
  <2> QED BY <2>1
<1>2. FirstRun(p) \in A
  BY DEF FirstRun, BangType
<1> HIDE DEF A
<1> DEFINE steps == [i \in 1 .. n |-> [run \in A |-> BangStep(run, bytes[i])]]
<1>3. steps \in [1 .. n -> [A -> A]]
  <2>1. \A run \in A, b \in 0 .. 255 : BangStep(run, b) \in A
    BY BangStepType, Zenon DEF A
  <2>2. \A i \in 1 .. n : \A run \in A : BangStep(run, bytes[i]) \in A
    BY <1>1, <2>1, Zenon
  <2> QED BY <2>2
<1>4. PICK runs \in [0 .. n -> A] : Builds(runs, FirstRun(p), steps, n)
  <2> HIDE DEF steps
  <2> QED BY <1>2, <1>3, Recursion
<1>5. \A i \in 1 .. n : runs[i] = BangStep(runs[i - 1], bytes[i])
  <2> TAKE i \in 1 .. n
  <2>1. i - 1 \in 0 .. n
    OBVIOUS
  <2>2. runs[i - 1] \in A
    BY <2>1
  <2>3. runs[i] = steps[i][runs[i - 1]]
    BY <1>4 DEF Builds
  <2> QED BY <2>2, <2>3
<1>6. runs[0] = FirstRun(p)
  BY <1>4 DEF Builds
<1> HIDE DEF steps
<1> DEFINE E(h) == h = [i \in 0 .. n |-> IF i = 0 THEN {FirstRun(p)}
                                         ELSE {BangStep(run, bytes[i]) : run \in h[i - 1]}]
<1> DEFINE g == [i \in 0 .. n |-> {runs[i]}]
<1>7. E(g)
  <2>1. ASSUME NEW i \in 0 .. n
        PROVE  {runs[i]} = IF i = 0 THEN {FirstRun(p)}
                           ELSE {BangStep(run, bytes[i]) : run \in g[i - 1]}
    <3>1. CASE i = 0
      BY <1>6, <3>1
    <3>2. CASE i # 0
      <4>1. i \in 1 .. n /\ i - 1 \in 0 .. n
        BY <3>2
      <4>2. g[i - 1] = {runs[i - 1]}
        BY <4>1
      <4>3. {BangStep(run, bytes[i]) : run \in {runs[i - 1]}} = {BangStep(runs[i - 1], bytes[i])}
        OBVIOUS
      <4> QED BY <1>5, <3>2, <4>1, <4>2, <4>3
    <3> QED BY <3>1, <3>2
  <2> QED BY <2>1, Zenon
<1> DEFINE after == CHOOSE h : E(h)
<1>8. E(after)
  <2> HIDE DEF E, g
  <2> QED BY <1>7, Zenon
<1>9. Banged(p, bytes) = CHOOSE run \in after[n] : TRUE
  BY <1>1, Zenon DEF Banged, FirstRun, BangStep
<1> HIDE DEF after
<1>10. \A i \in 0 .. n : after[i] = IF i = 0 THEN {FirstRun(p)}
                                    ELSE {BangStep(run, bytes[i]) : run \in after[i - 1]}
  BY <1>8, Zenon
<1> DEFINE G == {i \in 0 .. n : after[i] = {runs[i]}}
<1>11. 0 \in G
  <2>1. 0 \in 0 .. n
    OBVIOUS
  <2>2. after[0] = {FirstRun(p)}
    BY <1>10, <2>1, Zenon
  <2> QED BY <1>6, <2>1, <2>2, Zenon
<1>12. ASSUME NEW i \in 1 .. n, i - 1 \in G PROVE i \in G
  <2>1. i \in 0 .. n /\ i # 0 /\ after[i - 1] = {runs[i - 1]}
    BY <1>12
  <2>2. after[i] = {BangStep(run, bytes[i]) : run \in {runs[i - 1]}}
    BY <1>10, <2>1
  <2>3. {BangStep(run, bytes[i]) : run \in {runs[i - 1]}} = {BangStep(runs[i - 1], bytes[i])}
    OBVIOUS
  <2> QED BY <1>5, <2>1, <2>2, <2>3
<1> HIDE DEF G
<1>13. n \in G
  <2>1. 0 .. n \subseteq G
    BY <1>11, <1>12, Reaches
  <2> QED BY <2>1
<1>14. Banged(p, bytes) = runs[n]
  <2>1. (CHOOSE run \in {runs[n]} : TRUE) = runs[n]
    OBVIOUS
  <2> QED BY <1>9, <1>13, <2>1 DEF G
<1> QED BY <1>1, <1>5, <1>6, <1>14, Zenon DEF BangRuns, A

\* Bit-banging bytes leaves a port whose source is the same, bytes and a trace.
LEMMA BangedType ==
    ASSUME NEW p \in LivePort, NEW bytes \in Seq(0 .. 255)
    PROVE  Banged(p, bytes) \in BangType /\ Banged(p, bytes).port.source = p.source
<1>1. Len(bytes) \in 0 .. Len(bytes)
  OBVIOUS
<1> QED BY <1>1, BangedIsLast

\* A shift leaves a port, its source and a bit for each pulse; if the pins are not its
\* own the chain stays as it is.
LEMMA ShiftOutType ==
    ASSUME NEW p \in LivePort, NEW bits \in Seq(PulseBit)
    PROVE  LET ready == [p EXCEPT !.lines["jtag"] = Low] IN
           /\ ready \in LivePort /\ ready.tap = p.tap /\ ready.source = p.source
           /\ ready.reg = p.reg
           /\ ShiftOut(p, bits) \in RunType /\ Len(ShiftOut(p, bits).tdo) = Len(bits)
           /\ ShiftOut(p, bits).port.source = p.source
           /\ p.source = "jtag" => ShiftOut(p, bits) = Pulses(ready, bits)
<1> DEFINE ready == [p EXCEPT !.lines["jtag"] = Low]
<1>1. Low \in Lines /\ "jtag" \in Sources
  BY DEF Low, Lines, Bit, Sources
<1>2. ready \in LivePort /\ ready.tap = p.tap /\ ready.source = p.source /\ ready.reg = p.reg
  BY <1>1, LinesType
<1>3. ShiftOut(p, bits) =
        IF p.source = "jtag" THEN Pulses(ready, bits)
        ELSE [port |-> ready, tdo |-> [i \in DOMAIN bits |-> TdoOf(p)], trace |-> <<>>]
  BY Zenon DEF ShiftOut
<1> HIDE DEF ready
<1>4. CASE p.source = "jtag"
  <2>1. Keeps(Pulses(ready, bits), ready, Len(bits))
    BY <1>2, PulsesRun
  <2> QED BY <1>2, <1>3, <1>4, <2>1 DEF Keeps, ready
<1>5. CASE p.source # "jtag"
  <2>1. PICK n \in Nat : n = Len(bits) /\ DOMAIN bits = 1 .. n
    OBVIOUS
  <2> DEFINE out == [i \in 1 .. n |-> TdoOf(p)]
  <2>2. TdoOf(p) \in Bit
    BY TdoType
  <2>3. out \in Seq(Bit) /\ Len(out) = n
    BY <2>2
  <2>4. ShiftOut(p, bits) = [port |-> ready, tdo |-> out, trace |-> <<>>]
    BY <1>3, <1>5, <2>1
  <2> HIDE DEF out
  <2>5. ShiftOut(p, bits) \in RunType /\ ShiftOut(p, bits).tdo = out
        /\ ShiftOut(p, bits).port = ready
    BY <1>2, <2>3, <2>4 DEF RunType
  <2> QED BY <1>2, <1>5, <2>1, <2>3, <2>5 DEF ready
<1> QED BY <1>4, <1>5

\* What the buffer has room for.
LEMMA KeptType ==
    ASSUME NEW S, NEW s \in Seq(S), NEW w \in Nat
    PROVE  LET kept == SubSeq(s, 1, IF w < Len(s) THEN w ELSE Len(s))
           IN kept \in Seq(S) /\ Len(kept) <= w
<1>1. PICK n \in Nat : n = Len(s)
  OBVIOUS
<1>2. PICK k \in 0 .. n : k = (IF w < n THEN w ELSE n) /\ k <= w
  <2>1. CASE w < n
    BY <2>1
  <2>2. CASE ~ (w < n)
    BY <2>2
  <2> QED BY <2>1, <2>2
<1>3. SubSeq(s, 1, k) \in Seq(S) /\ Len(SubSeq(s, 1, k)) = k
  BY <1>1
<1> QED BY <1>1, <1>2, <1>3

\* The pins of the JTAG command set one by one; bytes that are bit-banged.
SetsPins(m) == m.cmd = CmdJtag + CmdBB
Bangs(m) == m.cmd = CmdBBSpi

\* What a message that shifts leaves and what went through is what its pulses make of it.
LEMMA PerformedShift ==
    ASSUME NEW p, NEW m, ~ SetsPins(m), ~ Bangs(m), NEW e \in Performed(p, m)
    PROVE  e.port = ShiftOut(p, PulsesOf(m)).port /\ e.trace = ShiftOut(p, PulsesOf(m)).trace
<1> DEFINE bytes(tdo) == IF m.cmd = CmdBBSpi THEN tdo
                         ELSE IF m.cmd = CmdJtag + CmdTdiWO THEN <<0>> ELSE BytesOf(tdo)
<1> DEFINE kept(s) == SubSeq(s, 1, IF m.want < Len(s) THEN m.want ELSE Len(s))
<1> DEFINE run == ShiftOut(p, PulsesOf(m))
<1>1. e \in {[port |-> r.port, reply |-> kept(bytes(r.tdo)), trace |-> r.trace] :
               r \in {IF m.cmd = CmdBBSpi THEN Banged(p, m.tx) ELSE ShiftOut(p, PulsesOf(m))}}
  BY Zenon DEF Performed, SetsPins
<1> HIDE DEF kept, bytes, run
<1>2. e \in {[port |-> r.port, reply |-> kept(bytes(r.tdo)), trace |-> r.trace] : r \in {run}}
  BY <1>1, Zenon DEF Bangs, run
<1>3. e = [port |-> run.port, reply |-> kept(bytes(run.tdo)), trace |-> run.trace]
  BY <1>2
<1> QED BY <1>3 DEF run

\* A message leaves a port and its source, bytes for an answer and what was shifted.
LEMMA PerformedType ==
    ASSUME NEW p \in LivePort, NEW m \in Exchanged, SetsPins(m) => m.tx # <<>>,
           NEW e \in Performed(p, m)
    PROVE  /\ e.port \in LivePort /\ e.port.source = p.source
           /\ e.reply \in Seq(0 .. 255) /\ e.trace \in Seq(ShiftBit)
           /\ ~ SetsPins(m) => Len(e.reply) <= m.want
<1>0. m.tx \in Seq(0 .. 255) /\ m.want \in Nat
  BY DEF Exchanged
<1>1. CASE SetsPins(m)
  <2>1. m.tx[1] \in Nat
    <3>1. Len(m.tx) \in Nat /\ 1 \in 1 .. Len(m.tx)
      BY <1>0, <1>1
    <3>2. m.tx[1] \in 0 .. 255
      BY <1>0, <3>1, ElementOfSeq
    <3> QED BY <3>2, ByteNumber, Zenon
  <2>2. e = [port |-> SetPins(p, m.tx[1]), reply |-> <<0>>, trace |-> <<>>]
    BY <1>1 DEF Performed, SetsPins
  <2>3. SetPins(p, m.tx[1]) \in LivePort /\ SetPins(p, m.tx[1]).source = p.source
    BY <2>1, SetPinsType
  <2> QED BY <1>1, <2>2, <2>3
<1>2. CASE ~ SetsPins(m)
  <2> DEFINE bytes(tdo) == IF m.cmd = CmdBBSpi THEN tdo
                           ELSE IF m.cmd = CmdJtag + CmdTdiWO THEN <<0>> ELSE BytesOf(tdo)
  <2> DEFINE kept(s) == SubSeq(s, 1, IF m.want < Len(s) THEN m.want ELSE Len(s))
  <2> DEFINE run == IF m.cmd = CmdBBSpi THEN Banged(p, m.tx) ELSE ShiftOut(p, PulsesOf(m))
  <2>1. e \in {[port |-> r.port, reply |-> kept(bytes(r.tdo)), trace |-> r.trace] : r \in {run}}
    BY <1>2, Zenon DEF Performed, SetsPins
  <2>2. run.port \in LivePort /\ run.port.source = p.source /\ run.trace \in Seq(ShiftBit)
        /\ bytes(run.tdo) \in Seq(0 .. 255)
    <3>1. CASE Bangs(m)
      <4>1. run = Banged(p, m.tx) /\ bytes(run.tdo) = run.tdo
        BY <3>1 DEF Bangs
      <4>2. run \in BangType /\ run.port.source = p.source
        <5> HIDE DEF run
        <5> QED BY <1>0, <4>1, BangedType
      <4> HIDE DEF run, bytes
      <4> QED BY <4>1, <4>2 DEF BangType
    <3>2. CASE ~ Bangs(m)
      <4>1. run = ShiftOut(p, PulsesOf(m))
        BY <3>2 DEF Bangs
      <4> HIDE DEF run
      <4>2. PulsesOf(m) \in Seq(PulseBit)
        BY PulsesType
      <4>3. run \in RunType /\ run.port.source = p.source
        BY <4>1, <4>2, ShiftOutType
      <4>4. run.tdo \in Seq(Bit) /\ run.port \in LivePort /\ run.trace \in Seq(ShiftBit)
        BY <4>3 DEF RunType
      <4>5. bytes(run.tdo) \in Seq(0 .. 255)
        <5>1. BytesOf(run.tdo) \in Seq(0 .. 255) /\ <<0>> \in Seq(0 .. 255)
          BY <4>4, BytesOfType
        <5> QED BY <3>2, <5>1 DEF Bangs
      <4> QED BY <4>3, <4>4, <4>5
    <3> QED BY <3>1, <3>2
  <2> DEFINE reply == kept(bytes(run.tdo))
  <2>3. reply \in Seq(0 .. 255) /\ Len(reply) <= m.want
    <3> HIDE DEF run, bytes
    <3> QED BY <1>0, <2>2, KeptType
  <2>4. e = [port |-> run.port, reply |-> reply, trace |-> run.trace]
    <3> HIDE DEF run, kept, bytes
    <3> QED BY <2>1
  <2> HIDE DEF run, reply
  <2> QED BY <2>2, <2>3, <2>4
<1> QED BY <1>1, <1>2

-----------------------------------------------------------------------------
(* Messages that move the TAP. *)

\* What the pulses of a message for TMS are: those of its one byte, all with the same TDI.
TmsBits(bits, b, n, high) ==
    /\ bits \in Seq(PulseBit) /\ Len(bits) = n
    /\ \A i \in 1 .. n :
         bits[i] \in PulseBit /\ bits[i].tms = BitOf(b, i - 1) /\ bits[i].tdi = high

\* A message for TMS pulses the bits of its byte, low bit first.
LEMMA TmsPulses ==
    ASSUME NEW m \in Exchanged, m.cmd = CmdJtag + CmdTms,
           NEW b \in 0 .. 255, m.tx = <<b>>
    PROVE  TmsBits(PulsesOf(m), b, (m.len % 8) + 1, IF m.len >= TmsTdiHi THEN 1 ELSE 0)
<1> DEFINE ro == m.cmd = CmdJtag + CmdTdiRO
<1> DEFINE n == IF ro THEN 8 * m.want
                ELSE IF m.tx = <<>> THEN 0 ELSE 8 * (Len(m.tx) - 1) + (m.len % 8) + 1
<1> DEFINE bits == IF ro THEN [i \in 1 .. n |-> 0] ELSE BitsOf(m.tx, n)
<1> DEFINE high == IF m.len >= TmsTdiHi THEN 1 ELSE 0
<1> DEFINE pulse(i) == IF m.cmd = CmdJtag + CmdTms THEN [tms |-> bits[i], tdi |-> high]
                       ELSE [tms |-> 0, tdi |-> bits[i]]
<1>1. PulsesOf(m) = [i \in 1 .. n |-> pulse(i)]
  BY Zenon DEF PulsesOf
<1>2. ~ ro /\ m.tx # <<>> /\ Len(m.tx) = 1
  BY DEF CmdJtag, CmdTms, CmdTdiRO
<1>3. m.len % 8 \in 0 .. 7
  <2>1. m.len \in 0 .. 255
    BY DEF Exchanged
  <2> QED BY <2>1, ByteNumber, Zenon
<1>4. n = (m.len % 8) + 1
  BY <1>2, <1>3
<1>5. bits = BitsOf(m.tx, n)
  BY <1>2, Zenon
<1> HIDE DEF bits, n, high
<1>6. ASSUME NEW i \in 1 .. n PROVE bits[i] = BitOf(b, i - 1)
  <2>1. i - 1 \in 0 .. 7
    BY <1>3, <1>4
  <2>2. (i - 1) \div 8 = 0 /\ (i - 1) % 8 = i - 1
    BY <2>1
  <2>3. bits[i] = BitOf(m.tx[((i - 1) \div 8) + 1], (i - 1) % 8)
    BY <1>5, Zenon DEF BitsOf
  <2>4. m.tx[0 + 1] = b
    OBVIOUS
  <2> QED BY <2>2, <2>3, <2>4
<1>7. \A i \in 1 .. n : pulse(i) = [tms |-> BitOf(b, i - 1), tdi |-> high]
  BY <1>6, Zenon
<1>8. PulsesOf(m) \in Seq(PulseBit)
  BY PulsesType
<1> HIDE DEF pulse
<1>9. Len(PulsesOf(m)) = n /\ \A i \in 1 .. n : PulsesOf(m)[i] = pulse(i)
  BY <1>1, <1>3, <1>4
<1>10. \A i \in 1 .. n : PulsesOf(m)[i] \in PulseBit
  BY <1>8, <1>9, ElementOfSeq
<1>11. TmsBits(PulsesOf(m), b, n, high)
  BY <1>7, <1>8, <1>9, <1>10 DEF TmsBits
<1> QED BY <1>4, <1>11 DEF high

\* A message for TMS of one byte, whose length says n bits.
TmsMessage(m, b, n) ==
    /\ m \in Exchanged /\ m.cmd = CmdJtag + CmdTms /\ m.tx = <<b>> /\ b \in 0 .. 255
    /\ n = (m.len % 8) + 1 /\ n \in 1 .. 8

\* TMS is high once, or there are no more than two bits.
Turns(b, n) == n > 2 => \E i \in 1 .. n : BitOf(b, i - 1) = 1

\* A message for TMS, where the pins are the command's own, makes a run of its pulses.
RunsThrough(runs, p, m, e, n) ==
    /\ Runs(runs, [p EXCEPT !.lines["jtag"] = Low], PulsesOf(m))
    /\ e.port = runs[n].port /\ e.trace = runs[n].trace
    /\ ShiftOut(p, PulsesOf(m)) = runs[n]

\* The bits of a message for TMS are pulsed one by one, with nothing before or after.
LEMMA TmsRuns ==
    ASSUME NEW p \in LivePort, p.source = "jtag",
           NEW m, NEW b, NEW n, TmsMessage(m, b, n),
           Turns(b, n), NEW e \in Performed(p, m)
    PROVE  \E runs \in [0 .. n -> RunType] : RunsThrough(runs, p, m, e, n)
<1> DEFINE ready == [p EXCEPT !.lines["jtag"] = Low]
<1> DEFINE bits == PulsesOf(m)
<1>0. TmsBits(bits, b, n, IF m.len >= TmsTdiHi THEN 1 ELSE 0) /\ n \in 1 .. 8
  BY TmsPulses, Zenon DEF TmsMessage
<1>1. bits \in Seq(PulseBit) /\ Len(bits) = n /\ \A i \in 1 .. n : bits[i].tms = BitOf(b, i - 1)
  BY <1>0, Zenon DEF TmsBits
<1>2. ~ SetsPins(m) /\ ~ Bangs(m)
  BY DEF TmsMessage, SetsPins, Bangs, CmdJtag, CmdTms, CmdBB, CmdBBSpi
<1>3. e.port = ShiftOut(p, bits).port /\ e.trace = ShiftOut(p, bits).trace
  BY <1>2, PerformedShift
<1> HIDE DEF bits
<1>4. ready \in LivePort /\ ShiftOut(p, bits) = Pulses(ready, bits)
  BY <1>1, ShiftOutType
<1> HIDE DEF ready
<1>5. Pulses(ready, bits) = Stepped(ready, bits)
  <2>1. ~ (Len(bits) > 2 /\ \A i \in DOMAIN bits : bits[i].tms = 0)
    <3>1. CASE n > 2
      <4>1. PICK i \in 1 .. n : BitOf(b, i - 1) = 1
        BY <3>1 DEF Turns
      <4>2. i \in DOMAIN bits /\ bits[i].tms = 1
        BY <1>1, <4>1
      <4> QED BY <4>2
    <3>2. CASE ~ (n > 2)
      BY <1>1, <3>2
    <3> QED BY <3>1, <3>2
  <2> QED BY <2>1, Zenon DEF Pulses
<1>6. PICK runs \in [0 .. n -> RunType] : Runs(runs, ready, bits) /\ Stepped(ready, bits) = runs[n]
  BY <1>1, <1>4, SteppedIsLast
<1>7. RunsThrough(runs, p, m, e, n)
  BY <1>3, <1>4, <1>5, <1>6, Zenon DEF ready, bits, RunsThrough
<1> QED BY <1>7

\* So the TAP goes where the bits of the byte lead it.
Path(taps, p, e, b, n) ==
    /\ taps[0] = p.tap /\ e.port.tap = taps[n]
    /\ \A i \in 1 .. n : taps[i] = TapPaths[taps[i - 1]][BitOf(b, i - 1) + 1]

\* What such a message does to the TAP is a path of its states.
LEMMA TmsPath ==
    ASSUME NEW p \in LivePort, p.source = "jtag",
           NEW m, NEW b, NEW n, TmsMessage(m, b, n),
           Turns(b, n), NEW e \in Performed(p, m)
    PROVE  \E taps \in [0 .. n -> TapStates] : Path(taps, p, e, b, n)
<1> DEFINE ready == [p EXCEPT !.lines["jtag"] = Low]
<1> DEFINE bits == PulsesOf(m)
<1>0. PICK runs \in [0 .. n -> RunType] : RunsThrough(runs, p, m, e, n)
  BY TmsRuns, Zenon
<1>1. Runs(runs, ready, bits) /\ e.port = runs[n].port
  BY <1>0, Zenon DEF RunsThrough
<1>2. ready.tap = p.tap
  BY DEF LivePort, Port
<1>3. TmsBits(bits, b, n, IF m.len >= TmsTdiHi THEN 1 ELSE 0) /\ n \in 1 .. 8
  BY TmsPulses, Zenon DEF TmsMessage
<1> HIDE DEF ready, bits
<1>4. \A i \in 0 .. n : runs[i].port \in LivePort /\ runs[i].port.tap \in TapStates
  BY DEF RunType, LivePort, Port
<1> DEFINE taps == [i \in 0 .. n |-> runs[i].port.tap]
<1>5. taps \in [0 .. n -> TapStates]
  BY <1>4
<1>6. 0 \in 0 .. n /\ n \in 0 .. n
  BY <1>3
<1>7. runs[0].port = ready
  BY <1>1 DEF Runs, FirstRun
<1>8. ASSUME NEW i \in 1 .. n PROVE taps[i] = TapPaths[taps[i - 1]][BitOf(b, i - 1) + 1]
  <2>1. i - 1 \in 0 .. n /\ i \in 0 .. n
    BY <1>3
  <2>2. bits[i] \in PulseBit /\ bits[i].tms = BitOf(b, i - 1) /\ Len(bits) = n
    BY <1>3, Zenon DEF TmsBits
  <2>3. PICK bit \in PulseBit : bit = bits[i] /\ bit.tms = BitOf(b, i - 1)
    BY <2>2
  <2>4. PICK run \in RunType : run = runs[i - 1]
    BY <2>1
  <2>5. runs[i] = Pulse(run, bit)
    BY <1>1, <2>2, <2>3, <2>4, Zenon DEF Runs
  <2>6. runs[i].port = Clock(run.port, bit.tms, bit.tdi)
    BY <2>5, PulseType
  <2>7. bit.tms \in Bit /\ bit.tdi \in Bit /\ run.port \in LivePort
    BY DEF PulseBit, RunType
  <2>8. runs[i].port.tap = TapPaths[run.port.tap][bit.tms + 1]
    BY <2>6, <2>7, ClockType, SMTT(60)
  <2> QED BY <2>1, <2>3, <2>4, <2>8
<1>9. taps[0] = p.tap /\ e.port.tap = taps[n]
  BY <1>1, <1>2, <1>6, <1>7
<1> HIDE DEF taps
<1>10. Path(taps, p, e, b, n)
  BY <1>8, <1>9 DEF Path
<1> QED BY <1>5, <1>10

\* The bits of the bytes that lead the TAP, from bit 0 on.
LEMMA PathBits ==
    /\ \A i \in 0 .. 7 : BitOf(\hff, i) = 1
    /\ \A i \in 0 .. 6 : BitOf(\h7f, i) = 1
    /\ BitOf(\h7f, 7) = 0
    /\ \A i \in 0 .. 5 : BitOf(\h3f, i) = 1
    /\ BitOf(\h3f, 6) = 0
    /\ BitOf(\h03, 0) = 1 /\ BitOf(\h03, 1) = 1 /\ BitOf(\h03, 2) = 0 /\ BitOf(\h03, 3) = 0
    /\ BitOf(\h01, 0) = 1 /\ BitOf(\h01, 1) = 0 /\ BitOf(\h01, 2) = 0
    /\ BitOf(\h07, 0) = 1 /\ BitOf(\h07, 1) = 1 /\ BitOf(\h07, 2) = 1
    /\ BitOf(\h07, 3) = 0 /\ BitOf(\h07, 4) = 0
<1>1. \A i \in 0 .. 7 : BitOf(255, i) = 1
  <2>1. BitOf(255, 0) = 1 /\ BitOf(255, 1) = 1 /\ BitOf(255, 2) = 1 /\ BitOf(255, 3) = 1
        /\ BitOf(255, 4) = 1 /\ BitOf(255, 5) = 1 /\ BitOf(255, 6) = 1 /\ BitOf(255, 7) = 1
    BY Powers DEF BitOf
  <2> QED BY <2>1
<1>2. (\A i \in 0 .. 6 : BitOf(127, i) = 1) /\ BitOf(127, 7) = 0
  <2>1. BitOf(127, 0) = 1 /\ BitOf(127, 1) = 1 /\ BitOf(127, 2) = 1 /\ BitOf(127, 3) = 1
        /\ BitOf(127, 4) = 1 /\ BitOf(127, 5) = 1 /\ BitOf(127, 6) = 1 /\ BitOf(127, 7) = 0
    BY Powers DEF BitOf
  <2> QED BY <2>1
<1>3. (\A i \in 0 .. 5 : BitOf(63, i) = 1) /\ BitOf(63, 6) = 0
  <2>1. BitOf(63, 0) = 1 /\ BitOf(63, 1) = 1 /\ BitOf(63, 2) = 1 /\ BitOf(63, 3) = 1
        /\ BitOf(63, 4) = 1 /\ BitOf(63, 5) = 1 /\ BitOf(63, 6) = 0
    BY Powers DEF BitOf
  <2> QED BY <2>1
<1>4. BitOf(3, 0) = 1 /\ BitOf(3, 1) = 1 /\ BitOf(3, 2) = 0 /\ BitOf(3, 3) = 0
  BY Powers DEF BitOf
<1>5. BitOf(1, 0) = 1 /\ BitOf(1, 1) = 0 /\ BitOf(1, 2) = 0
  BY Powers DEF BitOf
<1>6. BitOf(7, 0) = 1 /\ BitOf(7, 1) = 1 /\ BitOf(7, 2) = 1 /\ BitOf(7, 3) = 0 /\ BitOf(7, 4) = 0
  BY Powers, SMTT(60) DEF BitOf
<1> QED BY <1>1, <1>2, <1>3, <1>4, <1>5, <1>6

\* Five clocks with TMS high reset the TAP from anywhere.
LEMMA FiveOnesReset ==
    ASSUME NEW n \in 5 .. 8, NEW taps \in [0 .. n -> TapStates],
           \A i \in 1 .. 5 : taps[i] = TapPaths[taps[i - 1]][2]
    PROVE  taps[5] = "TestLogicReset"
<1> DEFINE A1 == {"TestLogicReset", "SelectDR", "Exit1DR", "Exit2DR", "UpdateDR", "SelectIR",
                  "Exit1IR", "Exit2IR", "UpdateIR"}
<1> DEFINE A2 == {"TestLogicReset", "SelectIR", "UpdateDR", "SelectDR", "UpdateIR"}
<1> DEFINE A3 == {"TestLogicReset", "SelectIR", "SelectDR"}
<1> DEFINE A4 == {"TestLogicReset", "SelectIR"}
<1>1. \A t \in TapStates : TapPaths[t][2] \in A1
  BY DEF TapStates, TapPaths
<1>2. \A t \in A1 : TapPaths[t][2] \in A2
  BY DEF TapPaths
<1>3. \A t \in A2 : TapPaths[t][2] \in A3
  BY DEF TapPaths
<1>4. \A t \in A3 : TapPaths[t][2] \in A4
  BY DEF TapPaths
<1>5. \A t \in A4 : TapPaths[t][2] = "TestLogicReset"
  BY DEF TapPaths
<1>6. taps[0] \in TapStates
  OBVIOUS
<1>7. taps[1] = TapPaths[taps[0]][2] /\ taps[2] = TapPaths[taps[1]][2]
      /\ taps[3] = TapPaths[taps[2]][2] /\ taps[4] = TapPaths[taps[3]][2]
      /\ taps[5] = TapPaths[taps[4]][2]
  <2>1. 1 \in 1 .. 5 /\ 2 \in 1 .. 5 /\ 3 \in 1 .. 5 /\ 4 \in 1 .. 5 /\ 5 \in 1 .. 5
        /\ 1 - 1 = 0 /\ 2 - 1 = 1 /\ 3 - 1 = 2 /\ 4 - 1 = 3 /\ 5 - 1 = 4
    BY SMTT(60)
  <2> QED BY <2>1
<1> HIDE DEF A1, A2, A3, A4
<1>8. taps[1] \in A1 /\ taps[2] \in A2 /\ taps[3] \in A3 /\ taps[4] \in A4
  BY <1>1, <1>2, <1>3, <1>4, <1>6, <1>7, ZenonT(60)
<1> QED BY <1>5, <1>7, <1>8, ZenonT(60)

\* A message that leads the TAP from some states to others, if the pins are its own.
Leads(m, from, to) ==
    \A p \in LivePort : p.source = "jtag" /\ p.tap \in from =>
        \A e \in Performed(p, m) : e.port.tap \in to

\* The paths of both libraries: to reset, to run-test-idle, from there to the shift states,
\* from Shift-IR to Shift-DR and from a shift state back to run-test-idle.
LEMMA ToResetLeads ==
    ASSUME NEW m, TmsMessage(m, \hff, 8)
    PROVE  Leads(m, TapStates, {"TestLogicReset"})
<1> SUFFICES ASSUME NEW p \in LivePort, p.source = "jtag", NEW e \in Performed(p, m)
             PROVE  e.port.tap = "TestLogicReset"
  BY Zenon DEF Leads
<1>1. PICK taps \in [0 .. 8 -> TapStates] : Path(taps, p, e, \hff, 8)
  <2>1. Turns(\hff, 8)
    <3>1. BitOf(\hff, 1 - 1) = 1 /\ 1 \in 1 .. 8
      BY PathBits
    <3> QED BY <3>1, ZenonT(60) DEF Turns
  <2> QED BY <2>1, TmsPath, ZenonT(60)
<1>2. \A i \in 1 .. 8 : taps[i] = TapPaths[taps[i - 1]][2]
  BY <1>1, PathBits DEF Path
<1>3. taps[5] = "TestLogicReset"
  BY <1>2, FiveOnesReset
<1>4. TapPaths["TestLogicReset"][2] = "TestLogicReset"
  BY DEF TapPaths
<1>5. taps[6] = TapPaths[taps[5]][2] /\ taps[7] = TapPaths[taps[6]][2]
      /\ taps[8] = TapPaths[taps[7]][2]
  BY <1>2
<1> QED BY <1>1, <1>3, <1>4, <1>5 DEF Path

\* All ones but the last, at least five: to run-test-idle from anywhere.
LEMMA ToIdleLeads ==
    ASSUME NEW m, NEW b, NEW n \in 6 .. 8, TmsMessage(m, b, n),
           \A i \in 0 .. n - 2 : BitOf(b, i) = 1, BitOf(b, n - 1) = 0
    PROVE  Leads(m, TapStates, {"RunTestIdle"})
<1> SUFFICES ASSUME NEW p \in LivePort, p.source = "jtag", NEW e \in Performed(p, m)
             PROVE  e.port.tap = "RunTestIdle"
  BY Zenon DEF Leads
<1>1. PICK taps \in [0 .. n -> TapStates] : Path(taps, p, e, b, n)
  <2>1. Turns(b, n)
    <3>1. BitOf(b, 1 - 1) = 1 /\ 1 \in 1 .. n
      OBVIOUS
    <3> QED BY <3>1, Zenon DEF Turns
  <2> QED BY <2>1, TmsPath
<1>2. \A i \in 1 .. n - 1 : taps[i] = TapPaths[taps[i - 1]][2]
  <2> TAKE i \in 1 .. n - 1
  <2>1. BitOf(b, i - 1) = 1 /\ i \in 1 .. n
    OBVIOUS
  <2> QED BY <1>1, <2>1 DEF Path
<1>3. taps[5] = "TestLogicReset"
  <2>1. n \in 5 .. 8 /\ \A i \in 1 .. 5 : i \in 1 .. n - 1
    OBVIOUS
  <2> QED BY <1>2, <2>1, FiveOnesReset
<1>4. TapPaths["TestLogicReset"][2] = "TestLogicReset"
      /\ TapPaths["TestLogicReset"][1] = "RunTestIdle"
  BY DEF TapPaths
<1>5. taps[n - 1] = "TestLogicReset"
  <2>1. CASE n = 6
    BY <1>3, <2>1
  <2>2. CASE n = 7
    <3>1. taps[6] = TapPaths[taps[5]][2]
      BY <1>2, <2>2
    <3> QED BY <1>3, <1>4, <2>2, <3>1
  <2>3. CASE n = 8
    <3>1. taps[6] = TapPaths[taps[5]][2] /\ taps[7] = TapPaths[taps[6]][2]
      BY <1>2, <2>3
    <3> QED BY <1>3, <1>4, <2>3, <3>1
  <2> QED BY <2>1, <2>2, <2>3
<1>6. taps[n] = TapPaths[taps[n - 1]][1]
  <2>1. n \in 1 .. n /\ BitOf(b, n - 1) + 1 = 1
    OBVIOUS
  <2> QED BY <1>1, <2>1, Zenon DEF Path
<1> QED BY <1>1, <1>4, <1>5, <1>6, Zenon DEF Path

\* The moves these paths are made of.
LEMMA Moves ==
    /\ TapPaths["RunTestIdle"][2] = "SelectDR" /\ TapPaths["UpdateDR"][2] = "SelectDR"
    /\ TapPaths["UpdateIR"][2] = "SelectDR"
    /\ TapPaths["SelectDR"][1] = "CaptureDR" /\ TapPaths["SelectDR"][2] = "SelectIR"
    /\ TapPaths["CaptureDR"][1] = "ShiftDR" /\ TapPaths["SelectIR"][1] = "CaptureIR"
    /\ TapPaths["CaptureIR"][1] = "ShiftIR"
    /\ TapPaths["ShiftDR"][2] = "Exit1DR" /\ TapPaths["ShiftIR"][2] = "Exit1IR"
    /\ TapPaths["Exit1DR"][2] = "UpdateDR" /\ TapPaths["Exit1IR"][2] = "UpdateIR"
    /\ TapPaths["UpdateDR"][1] = "RunTestIdle" /\ TapPaths["UpdateIR"][1] = "RunTestIdle"
BY DEF TapPaths

\* Where paths to the shift states may start.
Between == {"RunTestIdle", "UpdateDR", "UpdateIR"}

\* From run-test-idle, or after an update, to Shift-IR.
LEMMA ToShiftIRLeads ==
    ASSUME NEW m, TmsMessage(m, \h03, 4)
    PROVE  Leads(m, Between, {"ShiftIR"})
<1> SUFFICES ASSUME NEW p \in LivePort, p.source = "jtag", p.tap \in Between,
                    NEW e \in Performed(p, m)
             PROVE  e.port.tap = "ShiftIR"
  BY Zenon DEF Leads
<1>1. PICK taps \in [0 .. 4 -> TapStates] : Path(taps, p, e, 3, 4)
  <2>1. Turns(3, 4)
    <3>1. BitOf(3, 1 - 1) = 1 /\ 1 \in 1 .. 4
      BY PathBits
    <3> QED BY <3>1, Zenon DEF Turns
  <2> QED BY <2>1, TmsPath
<1>2. taps[1] = TapPaths[taps[0]][2] /\ taps[2] = TapPaths[taps[1]][2]
      /\ taps[3] = TapPaths[taps[2]][1] /\ taps[4] = TapPaths[taps[3]][1]
  BY <1>1, PathBits DEF Path
<1>3. taps[0] \in Between /\ e.port.tap = taps[4]
  BY <1>1 DEF Path
<1>4. taps[1] = "SelectDR"
  BY <1>2, <1>3, Moves, Zenon DEF Between
<1> QED BY <1>2, <1>3, <1>4, Moves, ZenonT(60)

\* The same to Shift-DR.
LEMMA ToShiftDRLeads ==
    ASSUME NEW m, TmsMessage(m, \h01, 3)
    PROVE  Leads(m, Between, {"ShiftDR"})
<1> SUFFICES ASSUME NEW p \in LivePort, p.source = "jtag", p.tap \in Between,
                    NEW e \in Performed(p, m)
             PROVE  e.port.tap = "ShiftDR"
  BY Zenon DEF Leads
<1>1. PICK taps \in [0 .. 3 -> TapStates] : Path(taps, p, e, 1, 3)
  <2>1. Turns(1, 3)
    <3>1. BitOf(1, 1 - 1) = 1 /\ 1 \in 1 .. 3
      BY PathBits
    <3> QED BY <3>1, Zenon DEF Turns
  <2> QED BY <2>1, TmsPath
<1>2. taps[1] = TapPaths[taps[0]][2] /\ taps[2] = TapPaths[taps[1]][1]
      /\ taps[3] = TapPaths[taps[2]][1]
  BY <1>1, PathBits DEF Path
<1>3. taps[0] \in Between /\ e.port.tap = taps[3]
  BY <1>1 DEF Path
<1>4. taps[1] = "SelectDR"
  BY <1>2, <1>3, Moves, Zenon DEF Between
<1> QED BY <1>2, <1>3, <1>4, Moves, ZenonT(60)

\* From Shift-IR by way of Update-IR to Shift-DR.
LEMMA AcrossLeads ==
    ASSUME NEW m, TmsMessage(m, \h07, 5)
    PROVE  Leads(m, {"ShiftIR"}, {"ShiftDR"})
<1> SUFFICES ASSUME NEW p \in LivePort, p.source = "jtag", p.tap = "ShiftIR",
                    NEW e \in Performed(p, m)
             PROVE  e.port.tap = "ShiftDR"
  BY Zenon DEF Leads
<1>1. PICK taps \in [0 .. 5 -> TapStates] : Path(taps, p, e, 7, 5)
  <2>1. Turns(7, 5)
    <3>1. BitOf(7, 1 - 1) = 1 /\ 1 \in 1 .. 5
      BY PathBits
    <3> QED BY <3>1, Zenon DEF Turns
  <2> QED BY <2>1, TmsPath
<1>2. taps[1] = TapPaths[taps[0]][2] /\ taps[2] = TapPaths[taps[1]][2]
      /\ taps[3] = TapPaths[taps[2]][2] /\ taps[4] = TapPaths[taps[3]][1]
      /\ taps[5] = TapPaths[taps[4]][1]
  BY <1>1, PathBits DEF Path
<1>3. taps[0] = "ShiftIR" /\ e.port.tap = taps[5]
  BY <1>1 DEF Path
<1>4. taps[1] = "Exit1IR"
  BY <1>2, <1>3, Moves, Zenon
<1>5. taps[2] = "UpdateIR"
  BY <1>2, <1>4, Moves, Zenon
<1>6. taps[3] = "SelectDR"
  BY <1>2, <1>5, Moves, Zenon
<1> QED BY <1>2, <1>3, <1>6, Moves, ZenonT(60)

\* Pulses with TMS low, out of a shift state: it is not left, and every bit goes in.
LEMMA ShiftsIn ==
    ASSUME NEW p \in LivePort, p.source = "jtag", p.tap \in Shifting,
           NEW m \in Exchanged, m.cmd # CmdJtag + CmdTms, ~ SetsPins(m), ~ Bangs(m),
           NEW e \in Performed(p, m)
    PROVE  /\ e.port.tap = p.tap /\ Len(e.trace) = Len(PulsesOf(m))
           /\ \A i \in 1 .. Len(PulsesOf(m)) : e.trace[i].tdi = PulsesOf(m)[i].tdi
<1> DEFINE ready == [p EXCEPT !.lines["jtag"] = Low]
<1> DEFINE bits == PulsesOf(m)
<1>1. bits \in Seq(PulseBit) /\ \A i \in 1 .. Len(bits) : bits[i].tms = 0
  BY PulsesType
<1>2. e.port = ShiftOut(p, bits).port /\ e.trace = ShiftOut(p, bits).trace
  BY PerformedShift
<1> HIDE DEF bits
<1>3. ready \in LivePort /\ ready.tap = p.tap /\ ShiftOut(p, bits) = Pulses(ready, bits)
  BY <1>1, ShiftOutType
<1> HIDE DEF ready
<1>4. InShift(Pulses(ready, bits), ready, bits, Len(bits))
  BY <1>1, <1>3, PulsesRun
<1> QED BY <1>2, <1>3, <1>4, Zenon DEF InShift, bits

\* What came out meanwhile.
LEMMA ShiftsOut ==
    ASSUME NEW p \in LivePort, p.source = "jtag", p.tap \in Shifting,
           NEW m \in Exchanged, m.cmd # CmdJtag + CmdTms, ~ SetsPins(m), ~ Bangs(m),
           NEW e \in Performed(p, m)
    PROVE  \A i \in 1 .. Len(PulsesOf(m)) : e.trace[i].tdo = ShiftOut(p, PulsesOf(m)).tdo[i]
<1> DEFINE ready == [p EXCEPT !.lines["jtag"] = Low]
<1> DEFINE bits == PulsesOf(m)
<1>1. bits \in Seq(PulseBit) /\ \A i \in 1 .. Len(bits) : bits[i].tms = 0
  BY PulsesType
<1>2. e.port = ShiftOut(p, bits).port /\ e.trace = ShiftOut(p, bits).trace
  BY PerformedShift
<1> HIDE DEF bits
<1>3. ready \in LivePort /\ ready.tap = p.tap /\ ShiftOut(p, bits) = Pulses(ready, bits)
  BY <1>1, ShiftOutType
<1> HIDE DEF ready
<1>4. InShift(Pulses(ready, bits), ready, bits, Len(bits))
  BY <1>1, <1>3, PulsesRun
<1> QED BY <1>2, <1>3, <1>4, Zenon DEF InShift, bits

\* The answer to a message that reads is what TDO brought, if there is room for it.
LEMMA ShiftReply ==
    ASSUME NEW p \in LivePort, NEW m \in Exchanged,
           m.cmd \in {CmdJtag, CmdJtag + CmdTms, CmdJtag + CmdTdiRO},
           m.want >= (Len(PulsesOf(m)) + 7) \div 8, NEW e \in Performed(p, m)
    PROVE  LET tdo == ShiftOut(p, PulsesOf(m)).tdo IN
           tdo \in Seq(Bit) /\ Len(tdo) = Len(PulsesOf(m)) /\ Hold(e.reply, tdo)
           /\ Packed(e.reply, tdo)
<1> DEFINE bytes(tdo) == IF m.cmd = CmdBBSpi THEN tdo
                         ELSE IF m.cmd = CmdJtag + CmdTdiWO THEN <<0>> ELSE BytesOf(tdo)
<1> DEFINE kept(s) == SubSeq(s, 1, IF m.want < Len(s) THEN m.want ELSE Len(s))
<1> DEFINE run == ShiftOut(p, PulsesOf(m))
<1>0. /\ ~ SetsPins(m) /\ ~ Bangs(m) /\ m.cmd # CmdJtag + CmdTdiWO /\ m.cmd # CmdBBSpi
      /\ m.cmd # CmdJtag + CmdBB /\ m.want \in Nat
  BY DEF SetsPins, Bangs, CmdJtag, CmdTms, CmdBB, CmdTdiWO, CmdTdiRO, CmdBBSpi, Exchanged
<1>1. e \in {[port |-> r.port, reply |-> kept(bytes(r.tdo)), trace |-> r.trace] : r \in {run}}
  BY <1>0, Zenon DEF Performed
<1>2. PulsesOf(m) \in Seq(PulseBit)
  BY PulsesType
<1>3. run \in RunType /\ Len(run.tdo) = Len(PulsesOf(m))
  BY <1>2, ShiftOutType
<1>4. bytes(run.tdo) = BytesOf(run.tdo)
  BY <1>0, Zenon
<1> HIDE DEF run, bytes
<1>5. run.tdo \in Seq(Bit)
  BY <1>3 DEF RunType
<1>6. Hold(BytesOf(run.tdo), run.tdo) /\ Packed(BytesOf(run.tdo), run.tdo)
  BY <1>5, BytesHold, BytesPacked
<1>7. BytesOf(run.tdo) \in Seq(0 .. 255) /\ Len(BytesOf(run.tdo)) <= m.want
  BY <1>3, <1>6 DEF Hold
<1>8. \A S : \A s \in Seq(S) : Len(s) <= m.want => kept(s) = s
  BY <1>0
<1> HIDE DEF kept
<1>9. kept(BytesOf(run.tdo)) = BytesOf(run.tdo)
  BY <1>7, <1>8, Zenon
<1>10. e.reply = kept(bytes(run.tdo))
  BY <1>1
<1> QED BY <1>3, <1>4, <1>5, <1>6, <1>9, <1>10, Zenon DEF run

\* The last bit of a shift goes in with TMS high; two clocks later the TAP is idle.
LEMMA LeavesShift ==
    ASSUME NEW p \in LivePort, p.source = "jtag", p.tap \in Shifting,
           NEW b, BitOf(b, 0) = 1, BitOf(b, 1) = 1, BitOf(b, 2) = 0,
           NEW m, TmsMessage(m, b, 3), NEW e \in Performed(p, m)
    PROVE  /\ e.port.tap = "RunTestIdle" /\ Len(e.trace) = 1
           /\ e.trace[1].tdi = IF m.len >= TmsTdiHi THEN 1 ELSE 0
           /\ e.trace[1].tdo = ShiftOut(p, PulsesOf(m)).tdo[1]
<1> DEFINE ready == [p EXCEPT !.lines["jtag"] = Low]
<1> DEFINE bits == PulsesOf(m)
<1> DEFINE high == IF m.len >= TmsTdiHi THEN 1 ELSE 0
<1>1. Turns(b, 3)
  <2>1. BitOf(b, 1 - 1) = 1 /\ 1 \in 1 .. 3
    OBVIOUS
  <2> QED BY <2>1, Zenon DEF Turns
<1>2. PICK taps \in [0 .. 3 -> TapStates] : Path(taps, p, e, b, 3)
  BY <1>1, TmsPath
<1>3. taps[1] = TapPaths[taps[0]][2] /\ taps[2] = TapPaths[taps[1]][2]
      /\ taps[3] = TapPaths[taps[2]][1] /\ taps[0] = p.tap /\ e.port.tap = taps[3]
  BY <1>2 DEF Path
<1>4. e.port.tap = "RunTestIdle"
  <2>1. taps[0] = "ShiftDR" \/ taps[0] = "ShiftIR"
    BY <1>3, Zenon DEF Shifting
  <2>2. taps[1] = "Exit1DR" \/ taps[1] = "Exit1IR"
    BY <1>3, <2>1, Moves, ZenonT(60)
  <2>3. taps[2] = "UpdateDR" \/ taps[2] = "UpdateIR"
    BY <1>3, <2>2, Moves, ZenonT(60)
  <2> QED BY <1>3, <2>3, Moves, ZenonT(60)
<1>5. PICK runs \in [0 .. 3 -> RunType] : RunsThrough(runs, p, m, e, 3)
  BY <1>1, TmsRuns, Zenon
<1>6. Runs(runs, ready, bits) /\ e.trace = runs[3].trace /\ ShiftOut(p, PulsesOf(m)) = runs[3]
  BY <1>5, Zenon DEF RunsThrough
<1>7. TmsBits(bits, b, 3, high)
  BY TmsPulses, Zenon DEF TmsMessage
<1>8. ready.tap = p.tap
  BY DEF LivePort, Port
<1> HIDE DEF ready, bits, high
<1>9. PICK b1 \in PulseBit, b2 \in PulseBit, b3 \in PulseBit :
        /\ b1 = bits[1] /\ b2 = bits[2] /\ b3 = bits[3]
        /\ b1.tms = 1 /\ b2.tms = 1 /\ b1.tdi = high /\ b1.tms \in Bit /\ b2.tms \in Bit
  <2>1. bits[1] \in PulseBit /\ bits[2] \in PulseBit /\ bits[3] \in PulseBit
        /\ bits[1].tms = BitOf(b, 0) /\ bits[2].tms = BitOf(b, 1) /\ bits[1].tdi = high
    BY <1>7 DEF TmsBits
  <2> QED BY <2>1 DEF Bit
<1>10. PICK r0 \in RunType, r1 \in RunType, r2 \in RunType, r3 \in RunType :
         r0 = runs[0] /\ r1 = runs[1] /\ r2 = runs[2] /\ r3 = runs[3]
  OBVIOUS
<1>11. r0 = FirstRun(ready) /\ r1 = Pulse(r0, b1) /\ r2 = Pulse(r1, b2) /\ r3 = Pulse(r2, b3)
  BY <1>6, <1>7, <1>9, <1>10 DEF Runs, TmsBits
<1>12. r0.port = ready /\ r0.trace = <<>>
  BY <1>11 DEF FirstRun
<1>13. r0.port \in LivePort /\ r1.port \in LivePort /\ r2.port \in LivePort
  BY DEF RunType
<1>14. b1.tdi \in Bit /\ b2.tdi \in Bit
  BY DEF PulseBit
<1>15. r1.port = Clock(r0.port, 1, b1.tdi) /\ r1.trace = <<>> \o ShiftedBit(r0.port, b1.tdi)
  <2>1. r1.port = Clock(r0.port, b1.tms, b1.tdi)
        /\ r1.trace = r0.trace \o ShiftedBit(r0.port, b1.tdi)
    BY <1>11, PulseType, ZenonT(60)
  <2> QED BY <1>9, <1>12, <2>1, Zenon
<1>16. r2.port = Clock(r1.port, 1, b2.tdi) /\ r2.trace = r1.trace \o ShiftedBit(r1.port, b2.tdi)
  <2>1. r2.port = Clock(r1.port, b2.tms, b2.tdi)
        /\ r2.trace = r1.trace \o ShiftedBit(r1.port, b2.tdi)
    BY <1>11, PulseType, ZenonT(60)
  <2> QED BY <1>9, <2>1, Zenon
<1>17. r3.trace = r2.trace \o ShiftedBit(r2.port, b3.tdi)
  BY <1>11, PulseType, ZenonT(60)
<1>18. \A q \in LivePort, tdi \in Bit : Clock(q, 1, tdi).tap = TapPaths[q.tap][2]
  <2> TAKE q \in LivePort, tdi \in Bit
  <2>1. 1 \in Bit /\ 1 + 1 = 2
    BY DEF Bit
  <2> QED BY <2>1, ClockType
<1>19. r1.port.tap = TapPaths[r0.port.tap][2] /\ r2.port.tap = TapPaths[r1.port.tap][2]
  BY <1>13, <1>14, <1>15, <1>16, <1>18, Zenon
<1>20. r0.port.tap \in Shifting /\ r1.port.tap \notin Shifting /\ r2.port.tap \notin Shifting
  <2>1. r0.port.tap = "ShiftDR" \/ r0.port.tap = "ShiftIR"
    BY <1>8, <1>12 DEF Shifting
  <2> QED BY <1>19, <2>1, Moves DEF Shifting
<1> DEFINE bit == [tdi |-> high, tdo |-> TdoOf(r0.port)]
<1>21. ShiftedBit(r0.port, b1.tdi) = <<bit>> /\ ShiftedBit(r1.port, b2.tdi) = <<>>
       /\ ShiftedBit(r2.port, b3.tdi) = <<>>
  BY <1>9, <1>20 DEF ShiftedBit
<1> HIDE DEF bit
<1>22. r3.trace = <<bit>>
  <2>1. r3.trace = ((<<>> \o <<bit>>) \o <<>>) \o <<>>
    BY <1>15, <1>16, <1>17, <1>21, Zenon
  <2>2. <<>> \o <<bit>> = <<bit>> /\ <<bit>> \o <<>> = <<bit>>
    OBVIOUS
  <2> QED BY <2>1, <2>2, Zenon
<1>23. Len(e.trace) = 1 /\ e.trace[1] = bit
  BY <1>6, <1>10, <1>22
<1>24. r3.tdo[1] = TdoOf(r0.port)
  <2>1. /\ r1.tdo = Append(r0.tdo, TdoOf(r0.port)) /\ r2.tdo = Append(r1.tdo, TdoOf(r1.port))
        /\ r3.tdo = Append(r2.tdo, TdoOf(r2.port))
    BY <1>11 DEF Pulse
  <2>2. r0.tdo = <<>>
    BY <1>11 DEF FirstRun
  <2>3. PICK a \in Bit, b0 \in Bit, c \in Bit :
          a = TdoOf(r0.port) /\ b0 = TdoOf(r1.port) /\ c = TdoOf(r2.port)
    BY <1>13, TdoType
  <2>4. r3.tdo = Append(Append(Append(<<>>, a), b0), c)
    BY <2>1, <2>2, <2>3, Zenon
  <2>5. Append(Append(Append(<<>>, a), b0), c)[1] = a
    OBVIOUS
  <2> QED BY <2>3, <2>4, <2>5, ZenonT(60)
<1>25. e.trace[1].tdo = ShiftOut(p, PulsesOf(m)).tdo[1]
  <2>1. bit.tdo = TdoOf(r0.port)
    BY DEF bit
  <2> QED BY <1>6, <1>10, <1>23, <1>24, <2>1, Zenon
<1> QED BY <1>4, <1>23, <1>25 DEF bit, high

\* The message shiftToRunTestIdle ends with is such a one.
LEMMA LastShift ==
    ASSUME NEW p \in LivePort, p.source = "jtag", p.tap \in Shifting,
           NEW m, TmsMessage(m, \h03, 3), NEW e \in Performed(p, m)
    PROVE  /\ e.port.tap = "RunTestIdle" /\ Len(e.trace) = 1
           /\ e.trace[1].tdi = IF m.len >= TmsTdiHi THEN 1 ELSE 0
           /\ e.trace[1].tdo = ShiftOut(p, PulsesOf(m)).tdo[1]
BY PathBits, LeavesShift

\* What a message that shifts out of its own bytes puts in, and one that only reads.
LEMMA WrittenPulses ==
    ASSUME NEW m \in Exchanged, m.cmd \in {CmdJtag, CmdJtag + CmdTdiWO}, m.tx # <<>>
    PROVE  LET n == 8 * (Len(m.tx) - 1) + (m.len % 8) + 1 IN
           /\ Len(PulsesOf(m)) = n
           /\ \A i \in 1 .. n :
                PulsesOf(m)[i].tdi = BitOf(m.tx[((i - 1) \div 8) + 1], (i - 1) % 8)
<1> DEFINE ro == m.cmd = CmdJtag + CmdTdiRO
<1> DEFINE n == 8 * (Len(m.tx) - 1) + (m.len % 8) + 1
<1> DEFINE k == IF ro THEN 8 * m.want ELSE IF m.tx = <<>> THEN 0 ELSE n
<1> DEFINE bits == IF ro THEN [i \in 1 .. k |-> 0] ELSE BitsOf(m.tx, k)
<1> DEFINE pulse(i) == IF m.cmd = CmdJtag + CmdTms
                       THEN [tms |-> bits[i], tdi |-> IF m.len >= TmsTdiHi THEN 1 ELSE 0]
                       ELSE [tms |-> 0, tdi |-> bits[i]]
<1>1. PulsesOf(m) = [i \in 1 .. k |-> pulse(i)]
  BY Zenon DEF PulsesOf
<1>2. ~ ro /\ m.cmd # CmdJtag + CmdTms
  BY DEF CmdJtag, CmdTms, CmdTdiRO, CmdTdiWO
<1>3. k = n /\ bits = BitsOf(m.tx, n)
  BY <1>2, Zenon
<1>4. n \in Nat
  <2>1. m.len % 8 \in 0 .. 7
    <3>1. m.len \in 0 .. 255
      BY DEF Exchanged
    <3> QED BY <3>1, ByteNumber, Zenon
  <2>2. Len(m.tx) \in Nat \ {0}
    BY DEF Exchanged
  <2> QED BY <2>1, <2>2, SMTT(60)
<1>5. \A i : pulse(i) = [tms |-> 0, tdi |-> bits[i]]
  BY <1>2, Zenon
<1> HIDE DEF k, bits, pulse
<1>6. ASSUME NEW i \in 1 .. n
      PROVE  PulsesOf(m)[i].tdi = BitOf(m.tx[((i - 1) \div 8) + 1], (i - 1) % 8)
  <2>1. PulsesOf(m)[i] = [tms |-> 0, tdi |-> bits[i]]
    BY <1>1, <1>3, <1>5, Zenon
  <2>2. bits[i] = BitOf(m.tx[((i - 1) \div 8) + 1], (i - 1) % 8)
    BY <1>3, Zenon DEF BitsOf
  <2>3. PulsesOf(m)[i].tdi = bits[i]
    BY <2>1
  <2> QED BY <2>2, <2>3, Zenon
<1>7. Len(PulsesOf(m)) = n
  <2> HIDE DEF n
  <2> QED BY <1>1, <1>3, <1>4
<1> QED BY <1>6, <1>7

\* A message that only reads pulses zeros, eight for each byte wanted.
LEMMA ReadPulses ==
    ASSUME NEW m \in Exchanged, m.cmd = CmdJtag + CmdTdiRO
    PROVE  /\ Len(PulsesOf(m)) = 8 * m.want
           /\ \A i \in 1 .. 8 * m.want : PulsesOf(m)[i].tdi = 0
<1> DEFINE n == 8 * m.want
<1> DEFINE k == IF m.cmd = CmdJtag + CmdTdiRO THEN n
                ELSE IF m.tx = <<>> THEN 0 ELSE 8 * (Len(m.tx) - 1) + (m.len % 8) + 1
<1> DEFINE bits == IF m.cmd = CmdJtag + CmdTdiRO THEN [i \in 1 .. k |-> 0] ELSE BitsOf(m.tx, k)
<1> DEFINE pulse(i) == IF m.cmd = CmdJtag + CmdTms
                       THEN [tms |-> bits[i], tdi |-> IF m.len >= TmsTdiHi THEN 1 ELSE 0]
                       ELSE [tms |-> 0, tdi |-> bits[i]]
<1>1. PulsesOf(m) = [i \in 1 .. k |-> pulse(i)]
  BY Zenon DEF PulsesOf
<1>2. m.cmd # CmdJtag + CmdTms
  BY DEF CmdJtag, CmdTms, CmdTdiRO
<1>3. k = n /\ bits = [i \in 1 .. n |-> 0]
  BY Zenon
<1>4. n \in Nat
  BY DEF Exchanged
<1>5. \A i : pulse(i) = [tms |-> 0, tdi |-> bits[i]]
  BY <1>2, Zenon
<1> HIDE DEF k, bits, pulse
<1>6. \A i \in 1 .. n : PulsesOf(m)[i].tdi = 0
  <2> TAKE i \in 1 .. n
  <2>1. PulsesOf(m)[i] = [tms |-> 0, tdi |-> bits[i]]
    BY <1>1, <1>3, <1>5, Zenon
  <2>2. PulsesOf(m)[i].tdi = bits[i]
    BY <2>1
  <2>3. bits[i] = 0
    BY <1>3
  <2> QED BY <2>2, <2>3, Zenon
<1>7. Len(PulsesOf(m)) = n
  <2> HIDE DEF n
  <2> QED BY <1>1, <1>3, <1>4
<1> QED BY <1>6, <1>7

-----------------------------------------------------------------------------
(* What is in the chain after a reset and after a capture. *)

AllIDCODE == [d \in Devices |-> "IDCODE"]
AllBYPASS == [d \in Devices |-> "BYPASS"]

\* Every device has an identifier, of 32 bits.
Identifiable == \A d \in Devices : Len(Chain[d].id) = 32

\* What a clock makes of the register and the instructions.
LEMMA ClockMakes ==
    ASSUME NEW p \in LivePort, NEW tms \in Bit, NEW tdi \in Bit
    PROVE  /\ Clock(p, tms, tdi).reg =
                IF p.tap = "CaptureDR" THEN CapturedDR(p.instr)
                ELSE IF p.tap = "CaptureIR" THEN CapturedIR
                ELSE IF p.tap \in Shifting THEN Append(Tail(p.reg), tdi) ELSE p.reg
           /\ Clock(p, tms, tdi).instr =
                IF TapPaths[p.tap][tms + 1] = "TestLogicReset" THEN AllIDCODE
                ELSE IF TapPaths[p.tap][tms + 1] = "UpdateIR" THEN Decoded(p.reg) ELSE p.instr
<1> DEFINE next == TapPaths[p.tap][tms + 1]
<1> DEFINE reg == IF p.tap = "CaptureDR" THEN CapturedDR(p.instr)
                  ELSE IF p.tap = "CaptureIR" THEN CapturedIR
                  ELSE IF p.tap \in Shifting THEN Append(Tail(p.reg), tdi) ELSE p.reg
<1> DEFINE instr == IF next = "TestLogicReset" THEN AllIDCODE
                    ELSE IF next = "UpdateIR" THEN Decoded(p.reg) ELSE p.instr
<1>1. Clock(p, tms, tdi) = [p EXCEPT !.tap = next, !.reg = reg, !.instr = instr]
  BY Zenon DEF Clock, AllIDCODE
<1> HIDE DEF next, reg, instr
<1>2. /\ [p EXCEPT !.tap = next, !.reg = reg, !.instr = instr].reg = reg
      /\ [p EXCEPT !.tap = next, !.reg = reg, !.instr = instr].instr = instr
  BY DEF LivePort, Port
<1>3. Clock(p, tms, tdi).reg = reg /\ Clock(p, tms, tdi).instr = instr
  BY <1>1, <1>2, Zenon
<1> QED BY <1>3 DEF reg, instr, next

\* After a reset the register is the identifiers in a row.
LEMMA IDRegister ==
    ASSUME Identifiable
    PROVE  Even(CapturedDR(AllIDCODE), [d \in Devices |-> Chain[d].id], 32, Len(Chain))
<1> DEFINE q == [d \in Devices |-> Chain[d].id]
<1>1. PICK n \in Nat \ {0} : n = Len(Chain) /\ Devices = 1 .. n
  BY ChainLength1
<1>2. ASSUME NEW d \in Devices
      PROVE  Chain[d].id \in Seq(Bit) /\ Len(Chain[d].id) = 32 /\ DataOf(d, AllIDCODE[d]) = Chain[d].id
  <2>1. Chain[d].id \in Seq(Bit) /\ Len(Chain[d].id) = 32
    BY DeviceType DEF Identifiable
  <2>2. Chain[d].id # <<>>
    <3>1. Len(<<>>) # 32
      OBVIOUS
    <3> QED BY <2>1, <3>1, Zenon
  <2>3. AllIDCODE[d] = "IDCODE"
    BY DEF AllIDCODE
  <2> QED BY <2>1, <2>2, <2>3 DEF DataOf
<1>3. q \in Seq(Seq(Bit)) /\ Len(q) = n /\ \A d \in 1 .. n : Len(q[d]) = 32
  BY <1>1, <1>2
<1>4. CapturedDR(AllIDCODE) = FlattenSeq(q)
  BY <1>2, Zenon DEF CapturedDR
<1> HIDE DEF q
<1>5. Even(FlattenSeq(q), q, 32, n)
  <2>1. 32 \in {1, 32}
    OBVIOUS
  <2> QED BY <1>3, <2>1, FlattenEven
<1> QED BY <1>1, <1>4, <1>5, Zenon DEF q

\* In BYPASS the register is a zero of each device.
LEMMA BypassRegister ==
    /\ Len(CapturedDR(AllBYPASS)) = Len(Chain)
    /\ \A d \in Devices : CapturedDR(AllBYPASS)[d] = 0
<1> DEFINE q == [d \in Devices |-> <<0>>]
<1>1. PICK n \in Nat \ {0} : n = Len(Chain) /\ Devices = 1 .. n
  BY ChainLength1
<1>2. ASSUME NEW d \in Devices PROVE DataOf(d, AllBYPASS[d]) = <<0>>
  <2>1. AllBYPASS[d] = "BYPASS"
    BY DEF AllBYPASS
  <2> QED BY <2>1 DEF DataOf
<1>3. q \in Seq(Seq(Bit)) /\ Len(q) = n /\ \A d \in 1 .. n : Len(q[d]) = 1 /\ q[d][1] = 0
  <2>1. <<0>> \in Seq(Bit) /\ Len(<<0>>) = 1 /\ <<0>>[1] = 0
    BY DEF Bit
  <2> QED BY <1>1, <2>1
<1>4. CapturedDR(AllBYPASS) = FlattenSeq(q)
  BY <1>2, Zenon DEF CapturedDR
<1> HIDE DEF q
<1>5. Even(FlattenSeq(q), q, 1, n)
  <2>1. 1 \in {1, 32}
    OBVIOUS
  <2> QED BY <1>3, <2>1, FlattenEven
<1> DEFINE r == CapturedDR(AllBYPASS)
<1>6. /\ Len(r) = 1 * n
      /\ \A d \in 1 .. n : \A i \in 1 .. 1 : r[1 * (d - 1) + i] = q[d][i]
  BY <1>4, <1>5, Zenon DEF Even
<1> HIDE DEF r
<1>7. Len(r) = n
  BY <1>6
<1>8. ASSUME NEW d \in 1 .. n PROVE r[d] = 0
  <2>1. 1 \in 1 .. 1 /\ 1 * (d - 1) + 1 = d
    OBVIOUS
  <2> QED BY <1>3, <1>6, <2>1, ZenonT(60)
<1> QED BY <1>1, <1>7, <1>8, Zenon DEF r

\* Ones in all of the instruction registers are BYPASS for all devices.
LEMMA DecodedOnes ==
    ASSUME NEW reg, \A i \in 1 .. Len(CapturedIR) : reg[i] = 1
    PROVE  Decoded(reg) = AllBYPASS
<1>1. PICK n \in Nat \ {0} : n = Len(Chain) /\ Devices = 1 .. n
  BY ChainLength1
<1> DEFINE ir == [d \in 1 .. n |-> Chain[d].ir]
<1>2. ir \in [1 .. n -> Nat \ {0}]
  BY <1>1, DeviceType
<1> HIDE DEF ir
<1> DEFINE steps == [d \in 1 .. n |-> [x \in Nat |-> x + ir[d]]]
<1>3. PICK f \in [0 .. n -> Nat] : Builds(f, 0, steps, n)
  <2>1. steps \in [1 .. n -> [Nat -> Nat]]
    BY <1>2
  <2> HIDE DEF steps
  <2> QED BY <2>1, Recursion
<1>4. f[0] = 0 /\ \A d \in 1 .. n : f[d] = f[d - 1] + ir[d]
  <2>1. f[0] = 0 /\ \A d \in 1 .. n : f[d] = steps[d][f[d - 1]]
    BY <1>3 DEF Builds
  <2>2. \A d \in 1 .. n : f[d - 1] \in Nat
    OBVIOUS
  <2> QED BY <2>1, <2>2
<1> HIDE DEF steps
<1> DEFINE E(h) == h = [d \in Devices |-> IF d = 1 THEN 0 ELSE h[d - 1] + Chain[d - 1].ir]
<1> DEFINE g == [d \in Devices |-> f[d - 1]]
<1>5. E(g)
  <2>1. ASSUME NEW d \in Devices
        PROVE  f[d - 1] = IF d = 1 THEN 0 ELSE g[d - 1] + Chain[d - 1].ir
    <3>1. CASE d = 1
      BY <1>4, <3>1
    <3>2. CASE d # 1
      <4>1. d - 1 \in 1 .. n
        BY <1>1, <3>2
      <4>2. g[d - 1] = f[(d - 1) - 1] /\ Chain[d - 1].ir = ir[d - 1]
        BY <1>1, <4>1, Zenon DEF ir
      <4>3. f[d - 1] = f[(d - 1) - 1] + ir[d - 1]
        BY <1>4, <4>1, Zenon
      <4> QED BY <3>2, <4>2, <4>3, Zenon
    <3> QED BY <3>1, <3>2
  <2> QED BY <2>1, Zenon
<1> DEFINE before == CHOOSE h : E(h)
<1>6. E(before)
  <2> HIDE DEF E, g
  <2> QED BY <1>5, Zenon
<1>7. Decoded(reg) = [d \in Devices |-> IF {reg[before[d] + i] : i \in 1 .. Chain[d].ir} = {1}
                                        THEN "BYPASS" ELSE "OTHER"]
  BY Zenon DEF Decoded
<1>8. \A d \in Devices : before[d] = IF d = 1 THEN 0 ELSE before[d - 1] + Chain[d - 1].ir
  <2> HIDE DEF before
  <2> QED BY <1>6, Zenon
<1>9. DOMAIN before = Devices /\ before = [d \in Devices |-> before[d]]
  <2> HIDE DEF before
  <2>1. \A h : E(h) => DOMAIN h = Devices /\ h = [d \in Devices |-> h[d]]
    OBVIOUS
  <2> HIDE DEF E
  <2> QED BY <1>6, <2>1, Zenon
<1> HIDE DEF before, E
<1> DEFINE G == {k \in 1 .. n : before[k] \in Nat}
<1>10. 1 .. n \subseteq G
  <2>1. 1 \in G
    <3>1. 1 \in Devices
      BY <1>1
    <3> QED BY <1>1, <1>8, <3>1
  <2>2. ASSUME NEW k \in 1 .. n - 1, k \in G PROVE k + 1 \in G
    <3>1. k + 1 \in Devices /\ k + 1 # 1 /\ (k + 1) - 1 = k /\ k \in Devices
      BY <1>1
    <3>2. before[k + 1] = before[k] + Chain[k].ir
      BY <1>8, <3>1, Zenon
    <3>3. Chain[k].ir \in Nat /\ before[k] \in Nat
      BY <2>2, <3>1, DeviceType
    <3> QED BY <1>1, <3>1, <3>2, <3>3
  <2> HIDE DEF G
  <2> QED BY <2>1, <2>2, Climb
<1> DEFINE bits(d) == [i \in 1 .. Chain[d].ir |-> IF i = 1 THEN 1 ELSE 0]
<1> DEFINE q == [d \in Devices |-> bits(d)]
<1>11. ASSUME NEW d \in Devices PROVE bits(d) \in Seq(Bit) /\ Len(bits(d)) = Chain[d].ir
  <2>1. PICK k \in Nat \ {0} : k = Chain[d].ir
    BY DeviceType
  <2>2. [i \in 1 .. k |-> IF i = 1 THEN 1 ELSE 0] \in Seq(Bit)
    BY DEF Bit
  <2>3. Len([i \in 1 .. k |-> IF i = 1 THEN 1 ELSE 0]) = k
    OBVIOUS
  <2> QED BY <2>1, <2>2, <2>3
<1> HIDE DEF bits
<1>12. q \in Seq(Seq(Bit)) /\ Len(q) = n /\ \A d \in Devices : Len(q[d]) = Chain[d].ir
  BY <1>1, <1>11
<1>13. CapturedIR = FlattenSeq(q)
  BY Zenon DEF CapturedIR, bits
<1> HIDE DEF q
<1>14. ASSUME NEW d \in Devices PROVE before[d] + Chain[d].ir <= Len(CapturedIR)
  <2>1. before \in [1 .. n -> Nat]
    BY <1>1, <1>9, <1>10
  <2>2. before[1] = 0
    BY <1>1, <1>8
  <2>3. ASSUME NEW k \in 1 .. n - 1 PROVE before[k + 1] = before[k] + Len(q[k])
    <3>1. k + 1 \in Devices /\ k + 1 # 1 /\ (k + 1) - 1 = k /\ k \in Devices
      BY <1>1
    <3> QED BY <1>8, <1>12, <3>1, ZenonT(60)
  <2>4. \A k \in 1 .. n : before[k] + Len(q[k]) <= Len(FlattenSeq(q))
    BY <1>12, <2>1, <2>2, <2>3, GathersEnds
  <2> QED BY <1>1, <1>12, <1>13, <2>4, Zenon
<1>15. ASSUME NEW d \in Devices PROVE {reg[before[d] + i] : i \in 1 .. Chain[d].ir} = {1}
  <2>1. PICK k \in Nat \ {0} : k = Chain[d].ir
    BY DeviceType
  <2>2. PICK b \in Nat : b = before[d]
    BY <1>1, <1>10
  <2>3. PICK l \in Nat : l = Len(CapturedIR)
    BY CapturedIRType
  <2>4. b + k <= l
    BY <1>14, <2>1, <2>2, <2>3
  <2>5. ASSUME NEW i \in 1 .. k PROVE reg[b + i] = 1
    <3>1. b + i \in 1 .. l
      BY <2>4
    <3> QED BY <2>3, <3>1, Zenon
  <2>6. {reg[b + i] : i \in 1 .. k} = {1}
    <3>1. 1 \in 1 .. k
      OBVIOUS
    <3> QED BY <2>5, <3>1, Zenon
  <2> QED BY <2>1, <2>2, <2>6, Zenon
<1> QED BY <1>7, <1>15, Zenon DEF AllBYPASS

-----------------------------------------------------------------------------
(* In a shift state the register is a queue. *)

\* In a shift state the register is a queue: bit i that comes out after the first o pulses
\* was in it, or went in Len(reg) pulses before.
QueueBit(reg, bits, o, i) == IF i <= Len(reg) THEN reg[i] ELSE bits[o + i - Len(reg)].tdi

\* n pulses after base, o pulses behind the first one.
Queued(run, base, bits, o, n) ==
    /\ Len(base.tdo) = o /\ Len(run.tdo) = o + n
    /\ \A i \in 1 .. o : run.tdo[i] = base.tdo[i]
    /\ \A i \in 1 .. n : run.tdo[o + i] = QueueBit(base.port.reg, bits, o, i)
    /\ Len(run.port.reg) = Len(base.port.reg)
    /\ \A j \in 1 .. Len(base.port.reg) :
         run.port.reg[j] = QueueBit(base.port.reg, bits, o, n + j)

\* Before a pulse.
LEMMA QueuedFirst ==
    ASSUME NEW run \in RunType, NEW bits, NEW o \in Nat, Len(run.tdo) = o
    PROVE  Queued(run, run, bits, o, 0)
<1>1. PICK k \in Nat : k = Len(run.port.reg)
  BY DEF RunType, LivePort, Port
<1>2. \A j \in 1 .. k : 0 + j = j /\ j <= k
  OBVIOUS
<1>3. \A j \in 1 .. k : QueueBit(run.port.reg, bits, o, 0 + j) = run.port.reg[j]
  BY <1>1, <1>2, Zenon DEF QueueBit
<1>4. o + 0 = o /\ 1 .. 0 = {}
  OBVIOUS
<1> QED BY <1>1, <1>3, <1>4, Zenon DEF Queued

\* A register one bit on.
LEMMA Requeued ==
    ASSUME NEW reg \in Seq(Bit), NEW tdi \in Bit, NEW k \in Nat \ {0}, k = Len(reg)
    PROVE  LET next == Append(Tail(reg), tdi) IN
           /\ Len(next) = k /\ next[k] = tdi /\ Head(reg) = reg[1]
           /\ \A j \in 1 .. k - 1 : next[j] = reg[j + 1]
<1>1. Tail(reg) \in Seq(Bit) /\ Len(Tail(reg)) = k - 1 /\ \A j \in 1 .. k - 1 : Tail(reg)[j] = reg[j + 1]
  BY HeadTailProperties
<1> QED BY <1>1

\* A pulse in a shift state takes a bit out and puts one in.
LEMMA QueuedNext ==
    ASSUME NEW run \in RunType, run.port.tap \in Shifting, NEW base \in RunType, NEW bits,
           NEW o \in Nat, NEW n \in Nat, Queued(run, base, bits, o, n),
           NEW bit \in PulseBit, bit = bits[o + n + 1]
    PROVE  Queued(Pulse(run, bit), base, bits, o, n + 1)
<1>1. PICK k \in Nat \ {0} : k = Len(base.port.reg)
  BY DEF RunType, LivePort, Port
<1>2. /\ Len(base.tdo) = o /\ Len(run.tdo) = o + n
      /\ \A i \in 1 .. o : run.tdo[i] = base.tdo[i]
      /\ \A i \in 1 .. n : run.tdo[o + i] = QueueBit(base.port.reg, bits, o, i)
      /\ Len(run.port.reg) = k
      /\ \A j \in 1 .. k : run.port.reg[j] = QueueBit(base.port.reg, bits, o, n + j)
  BY <1>1, Zenon DEF Queued
<1>3. /\ run.port \in LivePort /\ run.tdo \in Seq(Bit) /\ run.port.reg \in Seq(Bit)
      /\ bit.tms \in Bit /\ bit.tdi \in Bit
  BY DEF RunType, LivePort, Port, PulseBit
<1> DEFINE next == Pulse(run, bit)
<1> DEFINE reg == Append(Tail(run.port.reg), bit.tdi)
<1>4. next.port = Clock(run.port, bit.tms, bit.tdi) /\ next.tdo = Append(run.tdo, TdoOf(run.port))
  BY PulseType, Zenon
<1>5. next.port.reg = reg
  <2>1. run.port.tap # "CaptureDR" /\ run.port.tap # "CaptureIR"
    BY DEF Shifting
  <2>2. Clock(run.port, bit.tms, bit.tdi).reg =
          IF run.port.tap = "CaptureDR" THEN CapturedDR(run.port.instr)
          ELSE IF run.port.tap = "CaptureIR" THEN CapturedIR
          ELSE IF run.port.tap \in Shifting THEN reg ELSE run.port.reg
    <3> DEFINE p == run.port
    <3> DEFINE a == bit.tms
    <3> DEFINE b == bit.tdi
    <3>1. p \in LivePort /\ a \in Bit /\ b \in Bit
      BY <1>3
    <3> HIDE DEF p, a, b
    <3>2. Clock(p, a, b).reg =
            IF p.tap = "CaptureDR" THEN CapturedDR(p.instr)
            ELSE IF p.tap = "CaptureIR" THEN CapturedIR
            ELSE IF p.tap \in Shifting THEN Append(Tail(p.reg), b) ELSE p.reg
      BY <3>1, ClockMakes
    <3> QED BY <3>2, Zenon DEF p, a, b
  <2> HIDE DEF next, reg
  <2>3. Clock(run.port, bit.tms, bit.tdi).reg = reg
    BY <2>1, <2>2
  <2> QED BY <1>4, <2>3, Zenon
<1>6. /\ Len(reg) = k /\ reg[k] = bit.tdi /\ TdoOf(run.port) = run.port.reg[1]
      /\ \A j \in 1 .. k - 1 : reg[j] = run.port.reg[j + 1]
  <2>1. TdoOf(run.port) = Head(run.port.reg)
    BY Zenon DEF TdoOf
  <2>2. PICK s \in Seq(Bit) : s = run.port.reg /\ k = Len(s)
    BY <1>2, <1>3
  <2>3. PICK b \in Bit : b = bit.tdi
    BY <1>3
  <2>4. /\ Len(Append(Tail(s), b)) = k /\ Append(Tail(s), b)[k] = b /\ Head(s) = s[1]
        /\ \A j \in 1 .. k - 1 : Append(Tail(s), b)[j] = s[j + 1]
    BY <2>2, Requeued
  <2>5. reg = Append(Tail(s), b)
    BY <2>2, <2>3, Zenon
  <2> HIDE DEF reg
  <2> QED BY <2>1, <2>2, <2>3, <2>4, <2>5, Zenon
<1>7. TdoOf(run.port) \in Bit
  BY <1>3, TdoType
<1> HIDE DEF next, reg
<1>8. /\ Len(next.tdo) = o + (n + 1) /\ next.tdo[o + (n + 1)] = TdoOf(run.port)
      /\ \A i \in 1 .. o + n : next.tdo[i] = run.tdo[i]
  <2>1. PICK l \in Nat : l = o + n /\ l + 1 = o + (n + 1)
    OBVIOUS
  <2>2. /\ Len(Append(run.tdo, TdoOf(run.port))) = l + 1
        /\ Append(run.tdo, TdoOf(run.port))[l + 1] = TdoOf(run.port)
        /\ \A i \in 1 .. l : Append(run.tdo, TdoOf(run.port))[i] = run.tdo[i]
    BY <1>2, <1>3, <1>7, <2>1, AppendProperties
  <2> QED BY <1>4, <2>1, <2>2, Zenon
<1>9. ASSUME NEW i \in 1 .. o PROVE next.tdo[i] = base.tdo[i]
  <2>1. i \in 1 .. o + n
    OBVIOUS
  <2> QED BY <1>2, <1>8, <2>1, Zenon
<1>10. ASSUME NEW i \in 1 .. n + 1 PROVE next.tdo[o + i] = QueueBit(base.port.reg, bits, o, i)
  <2>1. CASE i = n + 1
    <3>1. 1 \in 1 .. k
      OBVIOUS
    <3> QED BY <1>2, <1>6, <1>8, <2>1, <3>1, Zenon
  <2>2. CASE i # n + 1
    <3>1. i \in 1 .. n /\ o + i \in 1 .. o + n
      BY <2>2
    <3> QED BY <1>2, <1>8, <3>1, Zenon
  <2> QED BY <2>1, <2>2
<1>11. ASSUME NEW j \in 1 .. k
       PROVE  reg[j] = QueueBit(base.port.reg, bits, o, (n + 1) + j)
  <2>1. CASE j = k
    <3>1. ~ ((n + 1) + j <= k) /\ o + ((n + 1) + j) - k = o + n + 1
      BY <2>1
    <3> QED BY <1>1, <1>6, <2>1, <3>1, Zenon DEF QueueBit
  <2>2. CASE j # k
    <3>1. j \in 1 .. k - 1 /\ j + 1 \in 1 .. k /\ n + (j + 1) = (n + 1) + j
      BY <2>2
    <3> QED BY <1>2, <1>6, <3>1, Zenon
  <2> QED BY <2>1, <2>2
<1>12. Queued(next, base, bits, o, n + 1)
  BY <1>1, <1>2, <1>5, <1>6, <1>8, <1>9, <1>10, <1>11, Zenon DEF Queued
<1> QED BY <1>12 DEF next

\* The instructions stay in a shift state.
LEMMA ShiftingKeepsInstr ==
    ASSUME NEW p \in LivePort, p.tap \in Shifting, NEW tdi \in Bit
    PROVE  Clock(p, 0, tdi).instr = p.instr /\ Clock(p, 0, tdi).tap = p.tap
<1>1. TapPaths[p.tap][0 + 1] = p.tap
  BY ShiftingStays
<1>2. p.tap # "TestLogicReset" /\ p.tap # "UpdateIR" /\ 0 \in Bit
  BY DEF Shifting, Bit
<1> QED BY <1>1, <1>2, ClockMakes, ClockType, ZenonT(60)

\* Pulse after pulse with TMS low, from a shift state.
LEMMA SteppedQueues ==
    ASSUME NEW p \in LivePort, NEW bits \in Seq(PulseBit), p.tap \in Shifting,
           \A i \in 1 .. Len(bits) : bits[i].tms = 0
    PROVE  /\ Queued(Stepped(p, bits), FirstRun(p), bits, 0, Len(bits))
           /\ Stepped(p, bits).port.tap = p.tap /\ Stepped(p, bits).port.instr = p.instr
<1>1. PICK n \in Nat : n = Len(bits)
  OBVIOUS
<1>2. PICK runs \in [0 .. n -> RunType] : Runs(runs, p, bits) /\ Stepped(p, bits) = runs[n]
  BY <1>1, SteppedIsLast
<1>3. \A i \in 1 .. n : bits[i] \in PulseBit /\ bits[i].tms = 0
  BY <1>1, ElementOfSeq
<1>4. runs[0] = FirstRun(p) /\ \A i \in 1 .. n : runs[i] = Pulse(runs[i - 1], bits[i])
  BY <1>1, <1>2, Zenon DEF Runs
<1>5. FirstRun(p) \in RunType /\ FirstRun(p).port = p /\ Len(FirstRun(p).tdo) = 0
  BY DEF FirstRun, RunType
<1> DEFINE G == {i \in 0 .. n : /\ Queued(runs[i], FirstRun(p), bits, 0, i)
                                /\ runs[i].port.tap = p.tap /\ runs[i].port.instr = p.instr}
<1>6. 0 \in G
  <2>1. Queued(FirstRun(p), FirstRun(p), bits, 0, 0)
    BY <1>5, QueuedFirst
  <2>2. 0 \in 0 .. n
    OBVIOUS
  <2> QED BY <1>4, <1>5, <2>1, <2>2, Zenon
<1>7. ASSUME NEW i \in 1 .. n, i - 1 \in G PROVE i \in G
  <2>1. PICK k \in Nat : k = i - 1 /\ k + 1 = i /\ 0 + k + 1 = i /\ k \in 0 .. n /\ i \in 0 .. n
    OBVIOUS
  <2>2. PICK run \in RunType : run = runs[k]
    BY <2>1
  <2>3. PICK bit \in PulseBit : bit = bits[i] /\ bit.tms = 0
    BY <1>3
  <2>4. Queued(run, FirstRun(p), bits, 0, k) /\ run.port.tap = p.tap /\ run.port.instr = p.instr
    BY <1>7, <2>1, <2>2, Zenon
  <2>5. Queued(Pulse(run, bit), FirstRun(p), bits, 0, k + 1)
    <3>1. bit = bits[0 + k + 1] /\ 0 \in Nat /\ run.port.tap \in Shifting
      BY <2>1, <2>3, <2>4
    <3> QED BY <1>5, <2>4, <3>1, QueuedNext
  <2>6. Pulse(run, bit).port.tap = p.tap /\ Pulse(run, bit).port.instr = p.instr
    <3>1. Pulse(run, bit).port = Clock(run.port, 0, bit.tdi)
      BY <2>3, PulseType, Zenon
    <3>2. run.port \in LivePort /\ bit.tdi \in Bit
      BY DEF RunType, PulseBit
    <3> QED BY <2>4, <3>1, <3>2, ShiftingKeepsInstr, Zenon
  <2>7. runs[i] = Pulse(run, bit)
    BY <1>4, <2>1, <2>2, <2>3, Zenon
  <2> QED BY <2>1, <2>5, <2>6, <2>7, Zenon
<1> HIDE DEF G
<1>8. n \in G
  <2>1. 0 .. n \subseteq G
    BY <1>6, <1>7, Reaches
  <2> QED BY <2>1
<1> QED BY <1>1, <1>2, <1>8, Zenon DEF G

\* The shortcut is a queue as well.
LEMMA SettledQueues ==
    ASSUME NEW p \in LivePort, NEW bits \in Seq(PulseBit), p.tap \in Shifting
    PROVE  /\ Queued(Settled(p, bits), FirstRun(p), bits, 0, Len(bits))
           /\ Settled(p, bits).port.tap = p.tap /\ Settled(p, bits).port.instr = p.instr
<1> DEFINE r == Settled(p, bits)
<1>1. PICK n \in Nat : n = Len(bits)
  OBVIOUS
<1>2. \A i \in 1 .. n : bits[i].tdi \in Bit
  <2>1. \A i \in 1 .. n : bits[i] \in PulseBit
    BY <1>1, ElementOfSeq
  <2> QED BY <2>1 DEF PulseBit
<1>3. p \in Port /\ p.reg \in Seq(Bit) /\ p.reg # <<>>
  BY DEF LivePort, Port
<1> DEFINE tail == [i \in 1 .. n |-> bits[i].tdi]
<1> DEFINE all == p.reg \o tail
<1>4. r = [port |-> [p EXCEPT !.reg = SubSeq(all, n + 1, Len(all))],
           tdo  |-> SubSeq(all, 1, n),
           trace |-> [i \in 1 .. n |-> [tdi |-> bits[i].tdi, tdo |-> all[i]]]]
  BY <1>1, Zenon DEF Settled
<1>5. tail \in Seq(Bit) /\ Len(tail) = n /\ \A i \in 1 .. n : tail[i] = bits[i].tdi
  BY <1>2
<1> HIDE DEF tail
<1>6. PICK k \in Nat : k = Len(p.reg) /\ k >= 1
  BY <1>3
<1>7. all \in Seq(Bit) /\ Len(all) = k + n
      /\ \A i \in 1 .. k + n : all[i] = QueueBit(p.reg, bits, 0, i)
  <2>1. all \in Seq(Bit) /\ Len(all) = k + n
        /\ \A i \in 1 .. k + n : all[i] = IF i <= k THEN p.reg[i] ELSE tail[i - k]
    BY <1>3, <1>5, <1>6, ConcatProperties, ZenonT(60)
  <2>2. ASSUME NEW i \in 1 .. k + n PROVE all[i] = QueueBit(p.reg, bits, 0, i)
    <3>1. CASE i <= k
      BY <1>6, <2>1, <3>1, Zenon DEF QueueBit
    <3>2. CASE ~ (i <= k)
      <4>1. i - k \in 1 .. n /\ 0 + i - k = i - k
        BY <3>2
      <4> QED BY <1>5, <1>6, <2>1, <3>2, <4>1, ZenonT(60) DEF QueueBit
    <3> QED BY <3>1, <3>2
  <2> QED BY <2>1, <2>2
<1> HIDE DEF all
<1> DEFINE reg == SubSeq(all, n + 1, Len(all))
<1> DEFINE out == SubSeq(all, 1, n)
<1>8. Len(reg) = k /\ \A j \in 1 .. k : reg[j] = all[n + j]
  <2>1. PICK l \in Nat : l = Len(all) /\ l = k + n
    BY <1>6, <1>7
  <2>2. SubSeq(all, n + 1, l) = [j \in 1 .. k |-> all[n + j]]
    <3>1. l - (n + 1) + 1 = k /\ \A j \in 1 .. k : (n + 1) + j - 1 = n + j
      BY <2>1
    <3>2. SubSeq(all, n + 1, l) = [j \in 1 .. (l - (n + 1) + 1) |-> all[(n + 1) + j - 1]]
      BY <1>7, <2>1
    <3> QED BY <3>1, <3>2
  <2>3. k \in Nat
    BY <1>6
  <2>4. reg = [j \in 1 .. k |-> all[n + j]]
    BY <2>1, <2>2, Zenon
  <2> HIDE DEF reg
  <2> QED BY <2>3, <2>4
<1>9. Len(out) = n /\ \A i \in 1 .. n : out[i] = all[i]
  BY <1>6, <1>7
<1> HIDE DEF reg, out
<1> DEFINE t == [i \in 1 .. n |-> [tdi |-> bits[i].tdi, tdo |-> all[i]]]
<1>10. r.port = [p EXCEPT !.reg = reg] /\ r.tdo = out
  <2>1. r = [port |-> [p EXCEPT !.reg = reg], tdo |-> out, trace |-> t]
    BY <1>4, Zenon DEF reg, out
  <2> DEFINE q == [p EXCEPT !.reg = reg]
  <2> HIDE DEF r, t, q
  <2>2. r = [port |-> q, tdo |-> out, trace |-> t]
    BY <2>1, Zenon DEF q
  <2>3. r.port = q /\ r.tdo = out
    BY <2>2
  <2> QED BY <2>3, Zenon DEF q
<1> HIDE DEF t
<1> HIDE DEF r
<1>11. r.port.reg = reg /\ r.port.tap = p.tap /\ r.port.instr = p.instr
  BY <1>3, <1>10 DEF Port
<1>12. FirstRun(p).port = p /\ Len(FirstRun(p).tdo) = 0 /\ 1 .. 0 = {} /\ 0 + n = n
  BY DEF FirstRun
<1>13. \A i \in 1 .. n : r.tdo[0 + i] = QueueBit(p.reg, bits, 0, i)
  <2> TAKE i \in 1 .. n
  <2>1. i \in 1 .. k + n /\ 0 + i = i
    OBVIOUS
  <2> QED BY <1>7, <1>9, <1>10, <2>1, Zenon
<1>14. \A j \in 1 .. k : r.port.reg[j] = QueueBit(p.reg, bits, 0, n + j)
  <2> TAKE j \in 1 .. k
  <2>1. n + j \in 1 .. k + n
    OBVIOUS
  <2> QED BY <1>7, <1>8, <1>11, <2>1, Zenon
<1>15. Queued(r, FirstRun(p), bits, 0, n)
  BY <1>6, <1>8, <1>9, <1>10, <1>11, <1>12, <1>13, <1>14, ZenonT(60) DEF Queued
<1> QED BY <1>1, <1>11, <1>15, Zenon DEF r

\* So are as many pulses with TMS low as there may be.
LEMMA PulsesQueue ==
    ASSUME NEW p \in LivePort, NEW bits \in Seq(PulseBit), p.tap \in Shifting,
           \A i \in 1 .. Len(bits) : bits[i].tms = 0
    PROVE  /\ Queued(Pulses(p, bits), FirstRun(p), bits, 0, Len(bits))
           /\ Pulses(p, bits).port.tap = p.tap /\ Pulses(p, bits).port.instr = p.instr
<1>1. PICK n \in Nat : n = Len(bits) /\ DOMAIN bits = 1 .. n
  OBVIOUS
<1>2. CASE ~ (n > 2)
  <2>1. Pulses(p, bits) = Stepped(p, bits)
    BY <1>1, <1>2 DEF Pulses
  <2> QED BY <2>1, SteppedQueues
<1>3. CASE n > 2
  <2> DEFINE a == SubSeq(bits, 1, 2)
  <2> DEFINE b == SubSeq(bits, 3, n)
  <2> DEFINE moved == Stepped(p, a)
  <2> DEFINE rest == Settled(moved.port, b)
  <2>1. Pulses(p, bits) = Joined(moved, rest)
    BY <1>1, <1>3, Zenon DEF Pulses
  <2>2. /\ a \in Seq(PulseBit) /\ Len(a) = 2 /\ \A i \in 1 .. 2 : a[i] = bits[i]
        /\ b \in Seq(PulseBit) /\ Len(b) = n - 2 /\ \A i \in 1 .. n - 2 : b[i] = bits[2 + i]
    BY <1>1, <1>3
  <2> HIDE DEF a, b
  <2>3. \A i \in 1 .. Len(a) : a[i].tms = 0
    BY <1>1, <1>3, <2>2
  <2>4. /\ Queued(moved, FirstRun(p), a, 0, 2)
        /\ moved.port.tap = p.tap /\ moved.port.instr = p.instr
    BY <2>2, <2>3, SteppedQueues
  <2>5. moved \in RunType /\ moved.port \in LivePort /\ moved.tdo \in Seq(Bit)
    BY <2>2, SteppedKeeps DEF Keeps, RunType
  <2> HIDE DEF moved
  <2>6. PICK l \in Nat : l = n - 2 /\ l = Len(b) /\ 2 + l = n
    BY <1>3, <2>2
  <2>7. /\ Queued(rest, FirstRun(moved.port), b, 0, l)
        /\ rest.port.tap = p.tap /\ rest.port.instr = p.instr
    BY <2>2, <2>4, <2>5, <2>6, SettledQueues
  <2>8. rest \in RunType
    BY <2>2, <2>5, SettledKeeps DEF Keeps
  <2> HIDE DEF rest
  <2>9. PICK k \in Nat \ {0} : k = Len(p.reg)
    BY DEF LivePort, Port
  <2>10. FirstRun(p).port = p /\ FirstRun(moved.port).port = moved.port /\ Len(FirstRun(p).tdo) = 0
    BY DEF FirstRun
  <2>11. /\ Len(moved.tdo) = 2 /\ \A i \in 1 .. 2 : moved.tdo[i] = QueueBit(p.reg, a, 0, i)
         /\ Len(moved.port.reg) = k
         /\ \A j \in 1 .. k : moved.port.reg[j] = QueueBit(p.reg, a, 0, 2 + j)
    <3>1. 0 + 2 = 2 /\ \A i \in 1 .. 2 : 0 + i = i
      OBVIOUS
    <3> QED BY <2>4, <2>9, <2>10, <3>1, Zenon DEF Queued
  <2>12. /\ Len(rest.tdo) = l /\ \A i \in 1 .. l : rest.tdo[i] = QueueBit(moved.port.reg, b, 0, i)
         /\ Len(rest.port.reg) = k
         /\ \A j \in 1 .. k : rest.port.reg[j] = QueueBit(moved.port.reg, b, 0, l + j)
    <3>1. 0 + l = l /\ \A i \in 1 .. l : 0 + i = i
      OBVIOUS
    <3> QED BY <2>7, <2>10, <2>11, <3>1, Zenon DEF Queued
  <2>13. ASSUME NEW i \in 1 .. k + l
         PROVE  QueueBit(moved.port.reg, b, 0, i) = QueueBit(p.reg, bits, 0, 2 + i)
    <3>1. CASE i <= k
      <4>1. i \in 1 .. k
        BY <3>1
      <4>2. QueueBit(moved.port.reg, b, 0, i) = QueueBit(p.reg, a, 0, 2 + i)
        BY <2>11, <3>1, <4>1, Zenon DEF QueueBit
      <4>3. CASE 2 + i <= k
        BY <2>9, <4>2, <4>3, Zenon DEF QueueBit
      <4>4. CASE ~ (2 + i <= k)
        <5>1. 0 + (2 + i) - k \in 1 .. 2
          BY <3>1, <4>4
        <5> QED BY <2>2, <2>9, <4>2, <4>4, <5>1, Zenon DEF QueueBit
      <4> QED BY <4>3, <4>4
    <3>2. CASE ~ (i <= k)
      <4>1. ~ (2 + i <= k) /\ 0 + i - k \in 1 .. n - 2 /\ 0 + (2 + i) - k = 2 + (0 + i - k)
        BY <2>6, <3>2
      <4> QED BY <2>2, <2>9, <2>11, <3>2, <4>1, ZenonT(60) DEF QueueBit
    <3> QED BY <3>1, <3>2
  <2> DEFINE r == Joined(moved, rest)
  <2>14. r.port = rest.port /\ Split(r.tdo, moved.tdo, rest.tdo, 2, l)
    BY <2>5, <2>8, <2>11, <2>12, JoinedType, Zenon
  <2> HIDE DEF r
  <2>15. ASSUME NEW i \in 1 .. n PROVE r.tdo[0 + i] = QueueBit(p.reg, bits, 0, i)
    <3>1. 0 + i = i
      OBVIOUS
    <3>2. CASE i \in 1 .. 2
      <4>1. r.tdo[i] = QueueBit(p.reg, a, 0, i)
        BY <2>11, <2>14, <3>2, Zenon DEF Split
      <4>2. CASE i <= k
        BY <2>9, <3>1, <4>1, <4>2, Zenon DEF QueueBit
      <4>3. CASE ~ (i <= k)
        <5>1. 0 + i - k \in 1 .. 2
          BY <3>2, <4>3
        <5> QED BY <2>2, <2>9, <3>1, <4>1, <4>3, <5>1, Zenon DEF QueueBit
      <4> QED BY <4>2, <4>3
    <3>3. CASE i \notin 1 .. 2
      <4>1. PICK j \in 1 .. l : i = 2 + j /\ j \in 1 .. k + l
        <5>1. i - 2 \in 1 .. l /\ i = 2 + (i - 2) /\ i - 2 \in 1 .. k + l
          BY <2>6, <3>3
        <5> QED BY <5>1
      <4> QED BY <2>12, <2>13, <2>14, <3>1, <4>1, ZenonT(60) DEF Split
    <3> QED BY <3>2, <3>3
  <2>16. ASSUME NEW j \in 1 .. k PROVE r.port.reg[j] = QueueBit(p.reg, bits, 0, n + j)
    <3>1. l + j \in 1 .. k + l /\ 2 + (l + j) = n + j
      BY <2>6
    <3> QED BY <2>12, <2>13, <2>14, <3>1, ZenonT(60)
  <2>17. Len(r.tdo) = 0 + n /\ 1 .. 0 = {}
    BY <2>6, <2>14 DEF Split
  <2>18. Queued(r, FirstRun(p), bits, 0, n)
    BY <2>9, <2>10, <2>12, <2>14, <2>15, <2>16, <2>17, Zenon DEF Queued
  <2> QED BY <1>1, <2>1, <2>7, <2>14, <2>18, Zenon DEF r
<1> QED BY <1>2, <1>3

\* A message that shifts, from a shift state.
LEMMA ShiftQueues ==
    ASSUME NEW p \in LivePort, p.source = "jtag", p.tap \in Shifting,
           NEW m \in Exchanged, m.cmd # CmdJtag + CmdTms, ~ SetsPins(m), ~ Bangs(m),
           NEW e \in Performed(p, m)
    PROVE  LET bits == PulsesOf(m)
               n == Len(bits)
           IN /\ e.port.tap = p.tap /\ e.port.instr = p.instr
              /\ \A i \in 1 .. n : ShiftOut(p, bits).tdo[i] = QueueBit(p.reg, bits, 0, i)
              /\ Len(e.port.reg) = Len(p.reg)
              /\ \A j \in 1 .. Len(p.reg) : e.port.reg[j] = QueueBit(p.reg, bits, 0, n + j)
<1> DEFINE ready == [p EXCEPT !.lines["jtag"] = Low]
<1> DEFINE bits == PulsesOf(m)
<1>1. bits \in Seq(PulseBit) /\ \A i \in 1 .. Len(bits) : bits[i].tms = 0
  BY PulsesType
<1>2. e.port = ShiftOut(p, bits).port
  BY PerformedShift
<1> HIDE DEF bits
<1>3. ready.instr = p.instr
  BY DEF LivePort, Port
<1>4. /\ ready \in LivePort /\ ready.tap = p.tap /\ ready.reg = p.reg
      /\ ShiftOut(p, bits) = Pulses(ready, bits)
  BY <1>1, ShiftOutType
<1> HIDE DEF ready
<1> DEFINE run == Pulses(ready, bits)
<1>5. /\ Queued(run, FirstRun(ready), bits, 0, Len(bits))
      /\ run.port.tap = p.tap /\ run.port.instr = p.instr
  BY <1>1, <1>3, <1>4, PulsesQueue
<1> HIDE DEF run
<1>6. FirstRun(ready).port = ready
  BY DEF FirstRun
<1>7. PICK n \in Nat : n = Len(bits) /\ \A i \in 1 .. n : 0 + i = i
  BY <1>1
<1>8. /\ \A i \in 1 .. n : run.tdo[i] = QueueBit(p.reg, bits, 0, i)
      /\ Len(run.port.reg) = Len(p.reg)
      /\ \A j \in 1 .. Len(p.reg) : run.port.reg[j] = QueueBit(p.reg, bits, 0, n + j)
  BY <1>4, <1>5, <1>6, <1>7, ZenonT(60) DEF Queued
<1> QED BY <1>2, <1>4, <1>5, <1>7, <1>8, Zenon DEF run, bits

-----------------------------------------------------------------------------
(* What a clock and a path make of the port. *)

\* A clock moves one port to another.
Moved(p, q, tms, tdi) ==
    /\ q.tap = TapPaths[p.tap][tms + 1]
    /\ q.reg = IF p.tap = "CaptureDR" THEN CapturedDR(p.instr)
               ELSE IF p.tap = "CaptureIR" THEN CapturedIR
               ELSE IF p.tap \in Shifting THEN Append(Tail(p.reg), tdi) ELSE p.reg
    /\ q.instr = IF TapPaths[p.tap][tms + 1] = "TestLogicReset" THEN AllIDCODE
                 ELSE IF TapPaths[p.tap][tms + 1] = "UpdateIR" THEN Decoded(p.reg) ELSE p.instr

\* Clock does.
LEMMA ClockMoves ==
    ASSUME NEW p \in LivePort, NEW tms \in Bit, NEW tdi \in Bit
    PROVE  Moved(p, Clock(p, tms, tdi), tms, tdi)
<1>1. Clock(p, tms, tdi).tap = TapPaths[p.tap][tms + 1]
  BY ClockType
<1> QED BY <1>1, ClockMakes, Zenon DEF Moved

\* The ports between the bits of a message for TMS.
PortPath(ports, p, e, b, n, tdi) ==
    /\ ports[0].tap = p.tap /\ ports[0].reg = p.reg /\ ports[0].instr = p.instr
    /\ e.port = ports[n]
    /\ \A i \in 1 .. n : Moved(ports[i - 1], ports[i], BitOf(b, i - 1), tdi)

\* TDI of all bits of a message for TMS.
HighTdi(m) == IF m.len >= TmsTdiHi THEN 1 ELSE 0

\* The bits move it one by one.
LEMMA TmsPorts ==
    ASSUME NEW p \in LivePort, p.source = "jtag",
           NEW m, NEW b, NEW n, TmsMessage(m, b, n),
           Turns(b, n), NEW e \in Performed(p, m)
    PROVE  \E ports \in [0 .. n -> LivePort] : PortPath(ports, p, e, b, n, HighTdi(m))
<1> DEFINE ready == [p EXCEPT !.lines["jtag"] = Low]
<1> DEFINE bits == PulsesOf(m)
<1>0. PICK runs \in [0 .. n -> RunType] : RunsThrough(runs, p, m, e, n)
  BY TmsRuns, Zenon
<1>1. Runs(runs, ready, bits) /\ e.port = runs[n].port
  BY <1>0, Zenon DEF RunsThrough
<1>2. ready.tap = p.tap /\ ready.reg = p.reg /\ ready.instr = p.instr
  BY DEF LivePort, Port
<1>3. TmsBits(bits, b, n, HighTdi(m)) /\ n \in 1 .. 8
  BY TmsPulses, Zenon DEF TmsMessage, HighTdi
<1> HIDE DEF ready, bits
<1> DEFINE ports == [i \in 0 .. n |-> runs[i].port]
<1>4. ports \in [0 .. n -> LivePort]
  BY DEF RunType
<1>5. 0 \in 0 .. n /\ n \in 0 .. n
  BY <1>3
<1>6. runs[0].port = ready
  BY <1>1 DEF Runs, FirstRun
<1>7. ASSUME NEW i \in 1 .. n
      PROVE  Moved(ports[i - 1], ports[i], BitOf(b, i - 1), HighTdi(m))
  <2>1. i - 1 \in 0 .. n /\ i \in 0 .. n
    BY <1>3
  <2>2. /\ bits[i] \in PulseBit /\ bits[i].tms = BitOf(b, i - 1) /\ Len(bits) = n
        /\ bits[i].tdi = HighTdi(m)
    BY <1>3, Zenon DEF TmsBits
  <2>3. PICK bit \in PulseBit : bit = bits[i] /\ bit.tms = BitOf(b, i - 1) /\ bit.tdi = HighTdi(m)
    BY <2>2
  <2>4. PICK run \in RunType : run = runs[i - 1]
    BY <2>1
  <2>5. runs[i] = Pulse(run, bit)
    BY <1>1, <2>2, <2>3, <2>4, Zenon DEF Runs
  <2>6. runs[i].port = Clock(run.port, bit.tms, bit.tdi)
    BY <2>5, PulseType
  <2>7. bit.tms \in Bit /\ bit.tdi \in Bit /\ run.port \in LivePort
    BY DEF PulseBit, RunType
  <2>8. Moved(run.port, runs[i].port, bit.tms, bit.tdi)
    BY <2>6, <2>7, ClockMoves, Zenon
  <2>9. ports[i - 1] = run.port /\ ports[i] = runs[i].port
    BY <2>1, <2>4
  <2> HIDE DEF ports
  <2> QED BY <2>3, <2>8, <2>9, Zenon
<1>8. /\ ports[0].tap = p.tap /\ ports[0].reg = p.reg /\ ports[0].instr = p.instr
      /\ e.port = ports[n]
  BY <1>1, <1>2, <1>5, <1>6
<1> HIDE DEF ports
<1>9. PortPath(ports, p, e, b, n, HighTdi(m))
  BY <1>7, <1>8, Zenon DEF PortPath
<1> QED BY <1>4, <1>9

\* With TMS high: where a port goes, and with which instructions.
LEMMA MovesHigh ==
    ASSUME NEW p, NEW q, NEW tdi, Moved(p, q, 1, tdi), NEW next, TapPaths[p.tap][2] = next
    PROVE  /\ q.tap = next
           /\ q.instr = IF next = "TestLogicReset" THEN AllIDCODE
                        ELSE IF next = "UpdateIR" THEN Decoded(p.reg) ELSE p.instr
           /\ p.tap = "ShiftIR" => q.reg = Append(Tail(p.reg), tdi)
<1>1. 1 + 1 = 2 /\ "ShiftIR" # "CaptureDR" /\ "ShiftIR" # "CaptureIR" /\ "ShiftIR" \in Shifting
  BY DEF Shifting
<1>2. q.tap = next /\ q.instr = IF next = "TestLogicReset" THEN AllIDCODE
                               ELSE IF next = "UpdateIR" THEN Decoded(p.reg) ELSE p.instr
  BY <1>1, Zenon DEF Moved
<1>3. p.tap = "ShiftIR" => q.reg = Append(Tail(p.reg), tdi)
  BY <1>1, Zenon DEF Moved
<1> QED BY <1>2, <1>3, Zenon

\* The same with TMS low.
LEMMA MovesLow ==
    ASSUME NEW p, NEW q, NEW tdi, Moved(p, q, 0, tdi), NEW next, TapPaths[p.tap][1] = next,
           next # "TestLogicReset", next # "UpdateIR"
    PROVE  /\ q.tap = next /\ q.instr = p.instr
           /\ p.tap = "CaptureDR" => q.reg = CapturedDR(p.instr)
           /\ p.tap = "CaptureIR" => q.reg = CapturedIR
<1>1. 0 + 1 = 1 /\ "CaptureIR" # "CaptureDR"
  OBVIOUS
<1>2. q.tap = next /\ q.instr = p.instr
  BY <1>1, Zenon DEF Moved
<1>3. p.tap = "CaptureDR" => q.reg = CapturedDR(p.instr)
  BY Zenon DEF Moved
<1>4. p.tap = "CaptureIR" => q.reg = CapturedIR
  BY <1>1, Zenon DEF Moved
<1> QED BY <1>2, <1>3, <1>4, Zenon

\* To run-test-idle with a reset: all devices select their identifiers.
LEMMA ToIdleResets ==
    ASSUME NEW m, TmsMessage(m, \h7f, 8), NEW p \in LivePort, p.source = "jtag",
           NEW e \in Performed(p, m)
    PROVE  e.port.tap = "RunTestIdle" /\ e.port.instr = AllIDCODE
<1>1. PICK ports \in [0 .. 8 -> LivePort] : PortPath(ports, p, e, \h7f, 8, HighTdi(m))
  <2>1. Turns(\h7f, 8)
    <3>1. BitOf(\h7f, 1 - 1) = 1 /\ 1 \in 1 .. 8
      BY PathBits
    <3> QED BY <3>1, ZenonT(60) DEF Turns
  <2> QED BY <2>1, TmsPorts, ZenonT(60)
<1> DEFINE tdi == HighTdi(m)
<1>2. e.port = ports[8] /\ \A i \in 1 .. 8 : Moved(ports[i - 1], ports[i], BitOf(\h7f, i - 1), tdi)
  BY <1>1, Zenon DEF PortPath
<1> HIDE DEF tdi
<1>3. \A i \in 1 .. 7 : i \in 1 .. 8 /\ BitOf(\h7f, i - 1) = 1
  BY PathBits
<1>4. \A i \in 1 .. 7 : Moved(ports[i - 1], ports[i], 1, tdi)
  BY <1>2, <1>3, Zenon
<1>5. Moved(ports[7], ports[8], 0, tdi)
  <2>1. 8 \in 1 .. 8 /\ 8 - 1 = 7
    OBVIOUS
  <2> QED BY <1>2, <2>1, PathBits, ZenonT(60)
<1> DEFINE taps == [i \in 0 .. 7 |-> ports[i].tap]
<1>6. taps[5] = "TestLogicReset"
  <2>1. taps \in [0 .. 7 -> TapStates]
    <3>1. \A q \in LivePort : q.tap \in TapStates
      BY DEF LivePort, Port
    <3> QED BY <3>1
  <2>2. ASSUME NEW i \in 1 .. 5 PROVE taps[i] = TapPaths[taps[i - 1]][2]
    <3>1. i \in 1 .. 7 /\ i \in 0 .. 7 /\ i - 1 \in 0 .. 7 /\ 1 + 1 = 2
      OBVIOUS
    <3> QED BY <1>4, <3>1 DEF Moved
  <2>3. 7 \in 5 .. 8
    OBVIOUS
  <2> HIDE DEF taps
  <2> QED BY <2>1, <2>2, <2>3, FiveOnesReset
<1>7. ports[5].tap = "TestLogicReset"
  <2>1. 5 \in 0 .. 7
    OBVIOUS
  <2> QED BY <1>6, <2>1, Zenon
<1>8. TapPaths["TestLogicReset"][2] = "TestLogicReset"
      /\ TapPaths["TestLogicReset"][1] = "RunTestIdle" /\ 1 + 1 = 2 /\ 0 + 1 = 1
  BY DEF TapPaths
<1>9. Moved(ports[5], ports[6], 1, tdi) /\ Moved(ports[6], ports[7], 1, tdi)
  <2>1. 6 \in 1 .. 7 /\ 7 \in 1 .. 7 /\ 6 - 1 = 5 /\ 7 - 1 = 6
    OBVIOUS
  <2> QED BY <1>4, <2>1, Zenon
<1>10. ports[6].tap = "TestLogicReset"
  BY <1>7, <1>8, <1>9, MovesHigh
<1>11. ports[7].tap = "TestLogicReset" /\ ports[7].instr = AllIDCODE
  BY <1>8, <1>9, <1>10, MovesHigh
<1>12. ports[8].tap = "RunTestIdle" /\ ports[8].instr = AllIDCODE
  BY <1>5, <1>8, <1>11, MovesLow
<1> QED BY <1>2, <1>12, Zenon

\* To Shift-DR: the registers the instructions select come between TDI and TDO.
LEMMA ToShiftDRCaptures ==
    ASSUME NEW m, TmsMessage(m, \h01, 3), NEW p \in LivePort, p.source = "jtag",
           p.tap \in Between, NEW e \in Performed(p, m)
    PROVE  e.port.tap = "ShiftDR" /\ e.port.instr = p.instr /\ e.port.reg = CapturedDR(p.instr)
<1>1. PICK ports \in [0 .. 3 -> LivePort] : PortPath(ports, p, e, 1, 3, HighTdi(m))
  <2>1. Turns(1, 3)
    <3>1. BitOf(1, 1 - 1) = 1 /\ 1 \in 1 .. 3
      BY PathBits
    <3> QED BY <3>1, Zenon DEF Turns
  <2> QED BY <2>1, TmsPorts
<1> DEFINE tdi == HighTdi(m)
<1>2. /\ ports[0].tap = p.tap /\ ports[0].instr = p.instr /\ e.port = ports[3]
      /\ \A i \in 1 .. 3 : Moved(ports[i - 1], ports[i], BitOf(1, i - 1), tdi)
  BY <1>1, Zenon DEF PortPath
<1> HIDE DEF tdi
<1>3. /\ Moved(ports[0], ports[1], 1, tdi) /\ Moved(ports[1], ports[2], 0, tdi)
      /\ Moved(ports[2], ports[3], 0, tdi)
  <2>1. 1 \in 1 .. 3 /\ 2 \in 1 .. 3 /\ 3 \in 1 .. 3 /\ 1 - 1 = 0 /\ 2 - 1 = 1 /\ 3 - 1 = 2
    OBVIOUS
  <2>2. BitOf(1, 0) = 1 /\ BitOf(1, 1) = 0 /\ BitOf(1, 2) = 0
    BY PathBits
  <2>3. Moved(ports[0], ports[1], 1, tdi)
    BY <1>2, <2>1, <2>2, Zenon
  <2>4. Moved(ports[1], ports[2], 0, tdi)
    BY <1>2, <2>1, <2>2, Zenon
  <2>5. Moved(ports[2], ports[3], 0, tdi)
    BY <1>2, <2>1, <2>2, Zenon
  <2> QED BY <2>3, <2>4, <2>5
<1>4. TapPaths["SelectDR"][1] = "CaptureDR" /\ TapPaths["CaptureDR"][1] = "ShiftDR"
  BY Moves
<1>5. TapPaths[ports[0].tap][2] = "SelectDR"
  BY <1>2, Moves, Zenon DEF Between
<1>6. ports[1].tap = "SelectDR" /\ ports[1].instr = p.instr
  BY <1>2, <1>3, <1>5, MovesHigh
<1>7. ports[2].tap = "CaptureDR" /\ ports[2].instr = p.instr
  BY <1>3, <1>4, <1>6, MovesLow
<1>8. ports[3].tap = "ShiftDR" /\ ports[3].instr = p.instr /\ ports[3].reg = CapturedDR(p.instr)
  BY <1>3, <1>4, <1>7, MovesLow
<1> QED BY <1>2, <1>8

\* To Shift-IR: the instruction registers do.
LEMMA ToShiftIRCaptures ==
    ASSUME NEW m, TmsMessage(m, \h03, 4), NEW p \in LivePort, p.source = "jtag",
           p.tap \in Between, NEW e \in Performed(p, m)
    PROVE  e.port.tap = "ShiftIR" /\ e.port.reg = CapturedIR
<1>1. PICK ports \in [0 .. 4 -> LivePort] : PortPath(ports, p, e, 3, 4, HighTdi(m))
  <2>1. Turns(3, 4)
    <3>1. BitOf(3, 1 - 1) = 1 /\ 1 \in 1 .. 4
      BY PathBits
    <3> QED BY <3>1, Zenon DEF Turns
  <2> QED BY <2>1, TmsPorts
<1> DEFINE tdi == HighTdi(m)
<1>2. /\ ports[0].tap = p.tap /\ e.port = ports[4]
      /\ \A i \in 1 .. 4 : Moved(ports[i - 1], ports[i], BitOf(3, i - 1), tdi)
  BY <1>1, Zenon DEF PortPath
<1> HIDE DEF tdi
<1>3. /\ Moved(ports[0], ports[1], 1, tdi) /\ Moved(ports[1], ports[2], 1, tdi)
      /\ Moved(ports[2], ports[3], 0, tdi) /\ Moved(ports[3], ports[4], 0, tdi)
  <2>1. /\ 1 \in 1 .. 4 /\ 2 \in 1 .. 4 /\ 3 \in 1 .. 4 /\ 4 \in 1 .. 4
        /\ 1 - 1 = 0 /\ 2 - 1 = 1 /\ 3 - 1 = 2 /\ 4 - 1 = 3
    OBVIOUS
  <2>2. BitOf(3, 0) = 1 /\ BitOf(3, 1) = 1 /\ BitOf(3, 2) = 0 /\ BitOf(3, 3) = 0
    BY PathBits
  <2>3. Moved(ports[0], ports[1], 1, tdi)
    BY <1>2, <2>1, <2>2, Zenon
  <2>4. Moved(ports[1], ports[2], 1, tdi)
    BY <1>2, <2>1, <2>2, Zenon
  <2>5. Moved(ports[2], ports[3], 0, tdi)
    BY <1>2, <2>1, <2>2, Zenon
  <2>6. Moved(ports[3], ports[4], 0, tdi)
    BY <1>2, <2>1, <2>2, Zenon
  <2> QED BY <2>3, <2>4, <2>5, <2>6
<1>4. /\ TapPaths["SelectDR"][2] = "SelectIR" /\ TapPaths["SelectIR"][1] = "CaptureIR"
      /\ TapPaths["CaptureIR"][1] = "ShiftIR"
  BY Moves
<1>5. ports[1].tap = "SelectDR"
  <2>1. TapPaths[ports[0].tap][2] = "SelectDR"
    BY <1>2, Moves, Zenon DEF Between
  <2> QED BY <1>3, <2>1, MovesHigh
<1>6. ports[2].tap = "SelectIR"
  BY <1>3, <1>4, <1>5, MovesHigh
<1>7. ports[3].tap = "CaptureIR"
  BY <1>3, <1>4, <1>6, MovesLow
<1>8. ports[4].tap = "ShiftIR" /\ ports[4].reg = CapturedIR
  BY <1>3, <1>4, <1>7, MovesLow
<1> QED BY <1>2, <1>8

\* From Shift-IR to Shift-DR: with the last bit the instructions are there, and they select.
LEMMA AcrossCaptures ==
    ASSUME NEW m, TmsMessage(m, \h07, 5), NEW p \in LivePort, p.source = "jtag",
           p.tap = "ShiftIR", NEW e \in Performed(p, m)
    PROVE  LET instr == Decoded(Append(Tail(p.reg), HighTdi(m))) IN
           e.port.tap = "ShiftDR" /\ e.port.instr = instr /\ e.port.reg = CapturedDR(instr)
<1>1. PICK ports \in [0 .. 5 -> LivePort] : PortPath(ports, p, e, 7, 5, HighTdi(m))
  <2>1. Turns(7, 5)
    <3>1. BitOf(7, 1 - 1) = 1 /\ 1 \in 1 .. 5
      BY PathBits
    <3> QED BY <3>1, Zenon DEF Turns
  <2> QED BY <2>1, TmsPorts
<1> DEFINE tdi == HighTdi(m)
<1>2. /\ ports[0].tap = p.tap /\ ports[0].reg = p.reg /\ e.port = ports[5]
      /\ \A i \in 1 .. 5 : Moved(ports[i - 1], ports[i], BitOf(7, i - 1), tdi)
  BY <1>1, Zenon DEF PortPath
<1> DEFINE reg == Append(Tail(p.reg), tdi)
<1> HIDE DEF tdi
<1>3. /\ Moved(ports[0], ports[1], 1, tdi) /\ Moved(ports[1], ports[2], 1, tdi)
      /\ Moved(ports[2], ports[3], 1, tdi) /\ Moved(ports[3], ports[4], 0, tdi)
      /\ Moved(ports[4], ports[5], 0, tdi)
  <2>1. /\ 1 \in 1 .. 5 /\ 2 \in 1 .. 5 /\ 3 \in 1 .. 5 /\ 4 \in 1 .. 5 /\ 5 \in 1 .. 5
        /\ 1 - 1 = 0 /\ 2 - 1 = 1 /\ 3 - 1 = 2 /\ 4 - 1 = 3 /\ 5 - 1 = 4
    OBVIOUS
  <2>2. /\ BitOf(7, 0) = 1 /\ BitOf(7, 1) = 1 /\ BitOf(7, 2) = 1
        /\ BitOf(7, 3) = 0 /\ BitOf(7, 4) = 0
    BY PathBits
  <2>3. Moved(ports[0], ports[1], 1, tdi)
    BY <1>2, <2>1, <2>2, Zenon
  <2>4. Moved(ports[1], ports[2], 1, tdi)
    BY <1>2, <2>1, <2>2, Zenon
  <2>5. Moved(ports[2], ports[3], 1, tdi)
    BY <1>2, <2>1, <2>2, Zenon
  <2>6. Moved(ports[3], ports[4], 0, tdi)
    BY <1>2, <2>1, <2>2, Zenon
  <2>7. Moved(ports[4], ports[5], 0, tdi)
    BY <1>2, <2>1, <2>2, Zenon
  <2> QED BY <2>3, <2>4, <2>5, <2>6, <2>7
<1>4. /\ TapPaths["ShiftIR"][2] = "Exit1IR" /\ TapPaths["Exit1IR"][2] = "UpdateIR"
      /\ TapPaths["UpdateIR"][2] = "SelectDR" /\ TapPaths["SelectDR"][1] = "CaptureDR"
      /\ TapPaths["CaptureDR"][1] = "ShiftDR"
  BY Moves
<1>5. ports[1].tap = "Exit1IR" /\ ports[1].reg = reg
  <2>1. ports[0].tap = "ShiftIR"
    BY <1>2
  <2>2. ports[1].tap = "Exit1IR" /\ ports[1].reg = Append(Tail(ports[0].reg), tdi)
    BY <1>3, <1>4, <2>1, MovesHigh
  <2> QED BY <1>2, <2>2, Zenon
<1> HIDE DEF reg
<1>6. ports[2].tap = "UpdateIR" /\ ports[2].instr = Decoded(reg)
  BY <1>3, <1>4, <1>5, MovesHigh
<1>7. ports[3].tap = "SelectDR" /\ ports[3].instr = Decoded(reg)
  BY <1>3, <1>4, <1>6, MovesHigh
<1>8. ports[4].tap = "CaptureDR" /\ ports[4].instr = Decoded(reg)
  BY <1>3, <1>4, <1>7, MovesLow
<1>9. /\ ports[5].tap = "ShiftDR" /\ ports[5].instr = Decoded(reg)
      /\ ports[5].reg = CapturedDR(Decoded(reg))
  BY <1>3, <1>4, <1>8, MovesLow
<1> QED BY <1>2, <1>9, Zenon DEF reg, tdi

-----------------------------------------------------------------------------
(* What a message shifts out of the chain. *)

\* Bit i of bytes, and what comes out as bit i if they are put into a register.
SentBit(tx, i) == BitOf(tx[((i - 1) \div 8) + 1], (i - 1) % 8)
OutBit(reg, tx, i) == IF i <= Len(reg) THEN reg[i] ELSE SentBit(tx, i - Len(reg))

\* A message that shifts whole bytes and has room for as many.
ShiftMessage(m, tx) ==
    /\ m \in Exchanged /\ m.cmd = CmdJtag /\ m.tx = tx /\ tx # <<>> /\ m.len = 7
    /\ m.want > Len(tx)

\* Out of a shift state: what was in the register comes out, then what goes in.
LEMMA ShiftMessageQueues ==
    ASSUME NEW p \in LivePort, p.source = "jtag", p.tap \in Shifting,
           NEW tx \in Seq(0 .. 255), NEW m, ShiftMessage(m, tx), NEW e \in Performed(p, m)
    PROVE  LET n == 8 * Len(tx) IN
           /\ e.port.tap = p.tap /\ e.port.instr = p.instr /\ Len(e.port.reg) = Len(p.reg)
           /\ \A j \in 1 .. Len(p.reg) : e.port.reg[j] = OutBit(p.reg, tx, n + j)
           /\ \E tdo \in Seq(Bit) : /\ Len(tdo) = n /\ Packed(e.reply, tdo)
                                    /\ \A i \in 1 .. n : tdo[i] = OutBit(p.reg, tx, i)
<1> DEFINE bits == PulsesOf(m)
<1>1. /\ m \in Exchanged /\ m.cmd = CmdJtag /\ m.tx = tx /\ tx # <<>> /\ m.len = 7
      /\ m.want > Len(tx)
  BY Zenon DEF ShiftMessage
<1>2. m.cmd # CmdJtag + CmdTms /\ ~ SetsPins(m) /\ ~ Bangs(m)
  BY <1>1 DEF SetsPins, Bangs, CmdJtag, CmdTms, CmdBB, CmdBBSpi
<1>3. PICK l \in Nat \ {0} : l = Len(tx)
  BY <1>1
<1>4. PICK n \in Nat : n = 8 * l
  BY <1>3
<1>5. Len(bits) = n /\ \A i \in 1 .. n : bits[i].tdi = SentBit(tx, i)
  <2>1. 8 * (Len(tx) - 1) + (7 % 8) + 1 = n
    BY <1>3, <1>4
  <2>2. LET k == 8 * (Len(m.tx) - 1) + (m.len % 8) + 1 IN
        /\ Len(PulsesOf(m)) = k
        /\ \A i \in 1 .. k :
             PulsesOf(m)[i].tdi = BitOf(m.tx[((i - 1) \div 8) + 1], (i - 1) % 8)
    <3>1. m.cmd \in {CmdJtag, CmdJtag + CmdTdiWO} /\ m.tx # <<>>
      BY <1>1
    <3> QED BY <1>1, <3>1, WrittenPulses
  <2> QED BY <1>1, <2>1, <2>2, Zenon DEF SentBit
<1> HIDE DEF bits
<1>6. PICK k \in Nat \ {0} : k = Len(p.reg)
  BY DEF LivePort, Port
<1>7. ASSUME NEW i \in 1 .. n + k, i <= n \/ i > k
      PROVE  i <= n \/ i - k \in 1 .. n
  BY <1>7
<1>8. ASSUME NEW i \in 1 .. n + k PROVE QueueBit(p.reg, bits, 0, i) = OutBit(p.reg, tx, i)
  <2>1. CASE i <= k
    BY <1>6, <2>1, Zenon DEF QueueBit, OutBit
  <2>2. CASE ~ (i <= k)
    <3>1. 0 + i - k = i - k /\ i - k \in 1 .. n
      BY <2>2
    <3> QED BY <1>5, <1>6, <2>2, <3>1, Zenon DEF QueueBit, OutBit
  <2> QED BY <2>1, <2>2
<1> DEFINE tdo == ShiftOut(p, bits).tdo
<1>9. /\ e.port.tap = p.tap /\ e.port.instr = p.instr
      /\ \A i \in 1 .. n : tdo[i] = QueueBit(p.reg, bits, 0, i)
      /\ Len(e.port.reg) = k
      /\ \A j \in 1 .. k : e.port.reg[j] = QueueBit(p.reg, bits, 0, n + j)
  <2>1. LET bs == PulsesOf(m)
            len == Len(bs)
        IN /\ e.port.tap = p.tap /\ e.port.instr = p.instr
           /\ \A i \in 1 .. len : ShiftOut(p, bs).tdo[i] = QueueBit(p.reg, bs, 0, i)
           /\ Len(e.port.reg) = Len(p.reg)
           /\ \A j \in 1 .. Len(p.reg) : e.port.reg[j] = QueueBit(p.reg, bs, 0, len + j)
    BY <1>1, <1>2, ShiftQueues
  <2> QED BY <1>5, <1>6, <2>1, Zenon DEF bits
<1>10. tdo \in Seq(Bit) /\ Len(tdo) = n /\ Packed(e.reply, tdo)
  <2>1. m.want >= (Len(PulsesOf(m)) + 7) \div 8
    <3>1. m.want \in Nat /\ (n + 7) \div 8 = l
      BY <1>1, <1>4 DEF Exchanged
    <3> QED BY <1>1, <1>3, <1>5, <3>1 DEF bits
  <2>2. m.cmd \in {CmdJtag, CmdJtag + CmdTms, CmdJtag + CmdTdiRO}
    BY <1>1
  <2> QED BY <1>1, <1>5, <2>1, <2>2, ShiftReply DEF bits
<1> HIDE DEF tdo
<1>11. \A i \in 1 .. n : tdo[i] = OutBit(p.reg, tx, i)
  <2> TAKE i \in 1 .. n
  <2>1. i \in 1 .. n + k
    OBVIOUS
  <2> QED BY <1>8, <1>9, <2>1, Zenon
<1>12. \A j \in 1 .. k : e.port.reg[j] = OutBit(p.reg, tx, n + j)
  <2> TAKE j \in 1 .. k
  <2>1. n + j \in 1 .. n + k
    OBVIOUS
  <2> QED BY <1>8, <1>9, <2>1, Zenon
<1> QED BY <1>3, <1>4, <1>6, <1>9, <1>10, <1>11, <1>12, Zenon

\* The bytes countChainLength shifts.
FourOnes(tx) == Len(tx) = 4 /\ \A i \in 1 .. 4 : tx[i] = \hff
ZeroOnes(tx) == Len(tx) = 2 /\ tx[1] = \h00 /\ tx[2] = \hff

\* 32 ones fill the instruction registers but for one bit, if they have no more than 33.
LEMMA OnesFill ==
    ASSUME NEW p \in LivePort, p.source = "jtag", p.tap \in Shifting,
           p.reg = CapturedIR, Len(CapturedIR) <= 33,
           NEW tx \in Seq(0 .. 255), FourOnes(tx), NEW m, ShiftMessage(m, tx), NEW e \in Performed(p, m)
    PROVE  /\ e.port.tap = p.tap /\ Len(e.port.reg) = Len(CapturedIR)
           /\ \A j \in 2 .. Len(CapturedIR) : e.port.reg[j] = 1
<1>3. PICK k \in Nat : k = Len(CapturedIR) /\ k <= 33
  BY CapturedIRType
<1>4. /\ e.port.tap = p.tap /\ Len(e.port.reg) = k
      /\ \A j \in 1 .. k : e.port.reg[j] = OutBit(p.reg, tx, 32 + j)
  <2>1. 8 * Len(tx) = 32
    BY DEF FourOnes
  <2>2. LET n == 8 * Len(tx) IN
        /\ e.port.tap = p.tap /\ Len(e.port.reg) = Len(p.reg)
        /\ \A j \in 1 .. Len(p.reg) : e.port.reg[j] = OutBit(p.reg, tx, n + j)
    BY ShiftMessageQueues
  <2> QED BY <1>3, <2>1, <2>2, Zenon
<1>5. ASSUME NEW j \in 2 .. k PROVE e.port.reg[j] = 1
  <2>0. j \in Nat /\ 2 <= j /\ j <= k /\ k <= 33 /\ k \in Nat
    BY <1>3
  <2>1. PICK i \in 1 .. 32 : i = 32 + j - k
    <3>1. 32 + j - k \in 1 .. 32
      BY <2>0
    <3> QED BY <3>1
  <2>2. (i - 1) \div 8 + 1 \in 1 .. 4 /\ (i - 1) % 8 \in 0 .. 7
    OBVIOUS
  <2>3. SentBit(tx, i) = 1
    <3>1. tx[((i - 1) \div 8) + 1] = 255
      BY <2>2 DEF FourOnes
    <3> QED BY <2>2, <3>1, PathBits, Zenon DEF SentBit
  <2>4. ~ (32 + j <= k) /\ j \in 1 .. k
    BY <2>0
  <2>5. OutBit(p.reg, tx, 32 + j) = SentBit(tx, i)
    <3>1. Len(p.reg) = k /\ (32 + j) - k = i
      BY <1>3, <2>1
    <3> QED BY <2>4, <3>1, Zenon DEF OutBit
  <2> QED BY <1>4, <2>3, <2>4, <2>5, Zenon
<1> QED BY <1>3, <1>4, <1>5

\* The last one, on the way to Shift-DR, makes it all ones: BYPASS.
LEMMA OnesBypass ==
    ASSUME NEW p \in LivePort, p.source = "jtag", p.tap = "ShiftIR",
           Len(p.reg) = Len(CapturedIR), \A j \in 2 .. Len(CapturedIR) : p.reg[j] = 1,
           NEW m, TmsMessage(m, \h07, 5), HighTdi(m) = 1, NEW e \in Performed(p, m)
    PROVE  e.port.tap = "ShiftDR" /\ e.port.reg = CapturedDR(AllBYPASS)
<1>1. PICK k \in Nat \ {0} : k = Len(p.reg) /\ k = Len(CapturedIR)
  BY DEF LivePort, Port
<1>2. PICK reg \in Seq(Bit) : reg = p.reg /\ Len(reg) = k
  BY <1>1 DEF LivePort, Port
<1> DEFINE next == Append(Tail(reg), 1)
<1>3. next[k] = 1 /\ \A j \in 1 .. k - 1 : next[j] = reg[j + 1]
  <2>1. 1 \in Bit
    BY DEF Bit
  <2> QED BY <1>2, <2>1, Requeued
<1> HIDE DEF next
<1>4. ASSUME NEW j \in 1 .. k PROVE next[j] = 1
  <2>1. CASE j = k
    BY <1>3, <2>1
  <2>2. CASE j # k
    <3>1. j \in 1 .. k - 1 /\ j + 1 \in 2 .. k
      BY <2>2
    <3> QED BY <1>1, <1>2, <1>3, <3>1, Zenon
  <2> QED BY <2>1, <2>2
<1>5. Decoded(next) = AllBYPASS
  BY <1>1, <1>4, DecodedOnes
<1>6. LET instr == Decoded(Append(Tail(p.reg), HighTdi(m))) IN
      e.port.tap = "ShiftDR" /\ e.port.instr = instr /\ e.port.reg = CapturedDR(instr)
  BY AcrossCaptures
<1>7. Decoded(Append(Tail(p.reg), HighTdi(m))) = AllBYPASS
  BY <1>2, <1>5, Zenon DEF next
<1> QED BY <1>6, <1>7, Zenon

\* Eight zeros and eight ones through the bypass registers: a zero of each device, eight
\* zeros, then ones.
LEMMA BypassedBits ==
    ASSUME NEW p \in LivePort, p.source = "jtag", p.tap = "ShiftDR",
           p.reg = CapturedDR(AllBYPASS), Len(Chain) <= 8,
           NEW tx \in Seq(0 .. 255), ZeroOnes(tx), NEW m, ShiftMessage(m, tx), NEW e \in Performed(p, m)
    PROVE  \E tdo \in Seq(Bit) :
             /\ Len(tdo) = 16 /\ Packed(e.reply, tdo)
             /\ \A i \in 1 .. 16 : tdo[i] = IF i <= 8 + Len(Chain) THEN 0 ELSE 1
<1>3. PICK n \in 1 .. 8 : n = Len(Chain) /\ Devices = 1 .. n
  <2>1. Len(Chain) \in Nat \ {0} /\ Devices = 1 .. Len(Chain)
    BY ChainLength1
  <2>2. PICK k \in Nat \ {0} : k = Len(Chain) /\ Devices = 1 .. k
    BY <2>1, Zenon
  <2>3. k \in Nat \ {0} /\ k <= 8
    BY <2>2, Zenon
  <2>4. k \in 1 .. 8
    BY <2>3
  <2> QED BY <2>2, <2>4, Zenon
<1>4. PICK tdo \in Seq(Bit) : /\ Len(tdo) = 16 /\ Packed(e.reply, tdo)
                              /\ \A i \in 1 .. 16 : tdo[i] = OutBit(p.reg, tx, i)
  <2>1. 8 * Len(tx) = 16 /\ p.tap \in Shifting
    BY DEF Shifting, ZeroOnes
  <2>2. LET l == 8 * Len(tx) IN
        \E tdo \in Seq(Bit) : /\ Len(tdo) = l /\ Packed(e.reply, tdo)
                              /\ \A i \in 1 .. l : tdo[i] = OutBit(p.reg, tx, i)
    BY <2>1, ShiftMessageQueues
  <2> QED BY <2>1, <2>2, Zenon
<1>5. Len(p.reg) = n /\ \A d \in 1 .. n : p.reg[d] = 0
  BY <1>3, BypassRegister
<1>6. ASSUME NEW i \in 1 .. 16 PROVE tdo[i] = IF i <= 8 + n THEN 0 ELSE 1
  <2>1. CASE i <= n
    <3>1. i \in 1 .. n /\ i <= 8 + n
      BY <2>1
    <3> QED BY <1>4, <1>5, <2>1, <3>1, Zenon DEF OutBit
  <2>2. CASE ~ (i <= n)
    <3>1. PICK j \in 1 .. 16 : j = i - n
      BY <2>2
    <3>2. tdo[i] = SentBit(tx, j)
      BY <1>4, <1>5, <2>2, <3>1, Zenon DEF OutBit
    <3>3. CASE j <= 8
      <4>1. (j - 1) \div 8 + 1 = 1 /\ (j - 1) % 8 \in 0 .. 7 /\ i <= 8 + n
        BY <3>1, <3>3
      <4>2. SentBit(tx, j) = 0
        <5>1. tx[((j - 1) \div 8) + 1] = 0
          BY <4>1 DEF ZeroOnes
        <5>2. BitOf(0, (j - 1) % 8) = 0
          BY <4>1, ZeroBits
        <5> QED BY <5>1, <5>2, Zenon DEF SentBit
      <4> QED BY <3>2, <4>1, <4>2, Zenon
    <3>4. CASE ~ (j <= 8)
      <4>1. (j - 1) \div 8 + 1 = 2 /\ (j - 1) % 8 \in 0 .. 7 /\ ~ (i <= 8 + n)
        BY <3>1, <3>4
      <4>2. SentBit(tx, j) = 1
        <5>1. tx[((j - 1) \div 8) + 1] = 255
          BY <4>1 DEF ZeroOnes
        <5>2. BitOf(255, (j - 1) % 8) = 1
          BY <4>1, PathBits, Zenon
        <5> QED BY <5>1, <5>2, Zenon DEF SentBit
      <4> QED BY <3>2, <4>1, <4>2, Zenon
    <3> QED BY <3>3, <3>4
  <2> QED BY <2>1, <2>2
<1> QED BY <1>3, <1>4, <1>6

\* Bits that are n identifiers in a row.
IDBits(tdo, n) ==
    /\ tdo \in Seq(Bit) /\ Len(tdo) = 32 * n
    /\ \A d \in 1 .. n : \A i \in 1 .. 32 : tdo[32 * (d - 1) + i] = Chain[d].id[i]

\* Four bytes for each of n devices, behind a reset: their identifiers.
LEMMA IdentifierBits ==
    ASSUME NEW p \in LivePort, p.source = "jtag", p.tap = "ShiftDR",
           p.reg = CapturedDR(AllIDCODE), Identifiable,
           NEW n \in 1 .. Len(Chain), NEW tx \in Seq(0 .. 255), Len(tx) = 4 * n,
           NEW m, ShiftMessage(m, tx), NEW e \in Performed(p, m)
    PROVE  \E tdo \in Seq(Bit) : IDBits(tdo, n) /\ Packed(e.reply, tdo)
<1>1. PICK l \in Nat \ {0} : l = Len(Chain) /\ Devices = 1 .. l
  BY ChainLength1
<1>2. PICK tdo \in Seq(Bit) : /\ Len(tdo) = 32 * n /\ Packed(e.reply, tdo)
                              /\ \A i \in 1 .. 32 * n : tdo[i] = OutBit(p.reg, tx, i)
  <2>1. 8 * Len(tx) = 32 * n /\ p.tap \in Shifting
    BY DEF Shifting
  <2>3. LET n1 == 8 * Len(tx) IN
        \E tdo \in Seq(Bit) : /\ Len(tdo) = n1 /\ Packed(e.reply, tdo)
                              /\ \A i \in 1 .. n1 : tdo[i] = OutBit(p.reg, tx, i)
    BY <2>1, ShiftMessageQueues, SMTT(60)
  <2> QED BY <2>1, <2>3, Zenon
<1> DEFINE q == [d \in Devices |-> Chain[d].id]
<1>3. Even(p.reg, q, 32, l)
  BY <1>1, IDRegister
<1>4. \A d \in 1 .. l : q[d] = Chain[d].id
  BY <1>1
<1> HIDE DEF q
<1>5. /\ Len(p.reg) = 32 * l
      /\ \A d \in 1 .. l : \A i \in 1 .. 32 : p.reg[32 * (d - 1) + i] = q[d][i]
  BY <1>3, Zenon DEF Even
<1>6. ASSUME NEW d \in 1 .. n, NEW i \in 1 .. 32
      PROVE  tdo[32 * (d - 1) + i] = Chain[d].id[i]
  <2>1. PICK x \in 1 .. 32 * n : x = 32 * (d - 1) + i /\ x <= 32 * l /\ d \in 1 .. l
    BY <1>1
  <2>2. tdo[x] = p.reg[x]
    BY <1>2, <1>5, <2>1, Zenon DEF OutBit
  <2> QED BY <1>4, <1>5, <2>1, <2>2, Zenon
<1>7. IDBits(tdo, n)
  BY <1>2, <1>6, Zenon DEF IDBits
<1> QED BY <1>2, <1>7, Zenon

=============================================================================
