----------------------------- MODULE MCFTStream -----------------------------
(***************************************************************************)
(* Small scan chains and the calls of the clients, for TLC.                *)
(***************************************************************************)
EXTENDS FTStream

\* An identifier: a one, then a pattern that differs from device to device.
ID(k) == [i \in 1 .. 32 |-> IF i = 1 \/ i % (k + 2) = 0 THEN 1 ELSE 0]

\* As many devices as countChainLength can count, with as many IR bits as it fills with
\* ones, 33.
Eight == [d \in 1 .. 8 |-> [ir |-> IF d = 3 THEN 5 ELSE 4, id |-> ID(d)]]

Op(name) == [op |-> name]
To(name, reset) == [op |-> name, reset |-> reset]
Shift(tx, bits, n) == [op |-> "shiftToRunTestIdle", tx |-> tx, bits |-> bits, n |-> n]
Ft(tx, bits, tms, n) == [op |-> "ft", tx |-> tx, bits |-> bits, tms |-> tms, n |-> n]
Pins(dat) == [op |-> "setPortLevels", dat |-> dat]
Bang(tx, n) == [op |-> "bb", tx |-> tx, n |-> n]
IDCall(n) == [op |-> "getIDs", n |-> n]

\* Every operation; shifts with and without reply, of whole bytes, of parts of a byte, of
\* one bit and of none; what the device's commands ask of ft; bit-banging of bytes with
\* and without the clock bit.
AllCalls ==
    {Op("toStateReset"), Op("toStateRunTestIdle"), Op("countChainLength"), IDCall(0), IDCall(Len(Chain)),
     Shift(<<\h96>>, 4, 1), Shift(<<\h35, \hca>>, 7, 2), Shift(<<\h35, \h01>>, 0, 2),
     Shift(<<\h35, \h01>>, 0, 0), Shift(<<>>, 2, 2), Shift(<<1>>, 0, 1), Shift(<<>>, 0, 0),
     Shift(<<1, 2>>, 3, 1), Ft(<<\h0b>>, 4, 1, 0), Ft(<<\ha5>>, 7, -1, 0), Ft(<<>>, 7, -1, 1), Ft(<<\h15>>, 11, -1, 1),
     Pins(\h08), Pins(\h09),
     Bang(<<1, 0, 1, 0, 0, 2, 0, \h0f, \h09, \h08>>, 10), Bang(<<0, 1>>, 0),
     [op |-> "play", tx |-> PlaySequence, n |-> Len(PlaySequence)]}
    \cup {To(op, reset) : op \in {"toStateShiftIR", "toStateShiftDR"}, reset \in BOOLEAN}
=============================================================================
