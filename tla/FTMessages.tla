----------------------------- MODULE FTMessages -----------------------------
(***************************************************************************)
(* The messages FTStream (FTEmul.cpp) exchanges with the firmware: a       *)
(* command, a byte that says how many bits there are, payload, and the     *)
(* size of the buffer for the answer.                                      *)
(***************************************************************************)
EXTENDS Jtag

\* x(): the first byte says how many bits the last one has; the answer may have as many
\* bytes as the request.
X(req, tms) ==
    [cmd |-> CmdJtag + (IF tms THEN CmdTms ELSE 0), len |-> Head(req), tx |-> Tail(req),
     want |-> Len(req)]

UnmaskedLength(bits, tms) == bits + (IF tms > 0 THEN TmsTdiHi ELSE 0)

\* The byte in front: the bits of the last byte, and TDI while TMS is shifted.
LengthByte(bits, tms) == (bits % 8) + (IF tms > 0 THEN TmsTdiHi ELSE 0)

\* ft(): tx is empty if there is nothing to write, n is the size of the reply.
Message(tx, bits, tms, n) ==
    LET whole == bits = 7 /\ tms < 0
        readOnly  == tx = <<>> /\ whole
        writeOnly == n = 0 /\ whole
    IN [cmd  |-> CmdJtag + (IF tms >= 0 THEN CmdTms ELSE 0)
                   + (IF readOnly THEN CmdTdiRO ELSE 0) + (IF writeOnly THEN CmdTdiWO ELSE 0),
        len  |-> LengthByte(bits, tms),
        tx   |-> IF tx # <<>> \/ readOnly THEN tx ELSE [i \in 1 .. n |-> 0],
        want |-> IF n > 0 THEN n ELSE IF writeOnly THEN 1 ELSE Len(tx)]

PinsMessage(dat) == [cmd |-> CmdJtag + CmdBB, len |-> 0, tx |-> <<dat>>, want |-> 1]

ClockKept(b) == LET low == b - 8 * BitOf(b, 3) IN <<b, low + 8>>

\* The clock low, then high (BB_TCK_BIT).
Clocked(b) == LET low == b - 8 * BitOf(b, 3) IN <<low, low + 8>>

\* bb(): two bytes for each, and as many back if there is a buffer for them.
BangMessage(tx, n) ==
    [cmd |-> CmdBBSpi, len |-> 0, tx |-> FlattenSeq([i \in DOMAIN tx |-> Clocked(tx[i])]),
     want |-> 2 * n]
=============================================================================
