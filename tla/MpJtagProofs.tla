---------------------------- MODULE MpJtagProofs ----------------------------
(***************************************************************************)
(* Proofs about MpJtag, for every chain and every script of shifts of at   *)
(* most 65536 bytes, whatever write fails: the device takes the commands   *)
(* the script wrote, answers stay in step with the questions, calls leave  *)
(* the TAP where they should, a shift puts in every bit once and returns   *)
(* what came out.                                                          *)
(***************************************************************************)
EXTENDS MpJtag, JtagProofs

\* The first command of a shift has all bytes but the last, at most 65535: a count of 16 bits
\* has no more, and the device takes 65536 for none (VirtualFTDI with its CountMod).
Short(b) == Len(b) - 1 < 256 * 256
ShortShifts == \A c \in Calls : c.op # "toRTI" => Short(c.b)

-----------------------------------------------------------------------------
(* The commands of the script. *)

PathCommand(n, b) == <<\h4b, n, b>>
WholeCommand(b) ==
    LET n == LengthField(b) IN <<\h39, n % 256, (n \div 256) % 256>> \o ButLast(b)
PartCommand(b, lst) == <<\h3b, BitsField(lst), LastByte(b)>>
LastCommand(b, lst) == <<\h6b, 2, LastOut(b, lst) + \h03>>

\* What lies behind the first two bytes of a bit command.
LEMMA ThirdByte ==
    ASSUME NEW s \in Seq(Byte), Len(s) >= 3
    PROVE  SubSeq(s, 3, 3) = <<s[3]>> /\ Head(s) = s[1]
<1>1. PICK k \in Nat : k = Len(s) /\ k >= 3
  OBVIOUS
<1> DEFINE t == SubSeq(s, 3, 3)
<1>2. t \in Seq(Byte) /\ Len(t) = 1 /\ t[1] = s[3]
  <2>1. \A i \in 3 .. 3 : s[i] \in Byte
    <3>1. 3 \in 1 .. Len(s)
      BY <1>1
    <3> QED BY <3>1, ElementOfSeq
  <2> QED BY <2>1, SubSeqProperties
<1> HIDE DEF t
<1>3. t = <<s[3]>>
  BY <1>2
<1>4. Head(s) = s[1]
  BY <1>1
<1> QED BY <1>3, <1>4 DEF t

\* The classes of the operation codes in use.
LEMMA OpClasses ==
    /\ \h4b \in BitOps /\ \h3b \in BitOps /\ \h6b \in BitOps /\ \h39 \in ByteOps
    /\ \h4b \notin ByteOps /\ \h3b \notin ByteOps /\ \h6b \notin ByteOps /\ \h39 \notin BitOps
    /\ \h39 # PortLow /\ \h4b # PortLow /\ \h3b # PortLow /\ \h6b # PortLow
    /\ \h4b # PortHigh /\ \h3b # PortHigh /\ \h6b # PortHigh
    /\ \h4b # ClockDivisor /\ \h3b # ClockDivisor /\ \h6b # ClockDivisor
    /\ ~ Reads(\h4b) /\ Reads(\h3b) /\ Reads(\h6b) /\ Reads(\h39)
    /\ Writes(\h4b) /\ Writes(\h3b) /\ Writes(\h6b) /\ Writes(\h39)
    /\ IsTms(\h4b) /\ IsTms(\h6b) /\ ~ IsTms(\h3b)
BY DEF BitOps, ByteOps, PortLow, PortHigh, ClockDivisor, Reads, Writes, IsTms

\* A bit command has three bytes, the last of them the payload.
LEMMA BitCommand ==
    ASSUME NEW s \in Seq(Byte), Len(s) >= 3, s[1] \in {\h4b, \h3b, \h6b}
    PROVE  /\ Head(s) = s[1] /\ Head(s) \in Shifts /\ Head(s) \in BitOps
           /\ Complete(s) /\ CommandLen(s) = 3 /\ ShiftSize(s) = 1 /\ Payload(s) = <<s[3]>>
<1>1. Head(s) = s[1] /\ SubSeq(s, 3, 3) = <<s[3]>>
  BY ThirdByte
<1>2. Head(s) \in BitOps /\ Head(s) \notin ByteOps /\ Writes(Head(s))
      /\ Head(s) \notin ByteOps \cup {PortLow, PortHigh, ClockDivisor}
  BY <1>1, OpClasses
<1>3. HeaderLen(Head(s)) = 2 /\ ShiftSize(s) = 1
  BY <1>2, Zenon DEF HeaderLen, ShiftSize
<1>4. CommandLen(s) = 3
  BY <1>2, <1>3 DEF CommandLen
<1>5. Payload(s) = <<s[3]>>
  BY <1>1, <1>3, <1>4 DEF Payload
<1>6. Complete(s)
  BY <1>3, <1>4 DEF Complete
<1> QED BY <1>1, <1>2, <1>3, <1>4, <1>5, <1>6 DEF Shifts

\* The TMS command of a path is a message for TMS that asks for no answer.
LEMMA PathMessage ==
    ASSUME NEW s \in Seq(Byte), Len(s) >= 3, NEW n \in 0 .. 7, NEW b \in 0 .. 127,
           s[1] = \h4b, s[2] = n, s[3] = b
    PROVE  AdapterMessage(s) = [cmd |-> CmdJtag + CmdTms, len |-> n, tx |-> <<b>>, want |-> 1]
<1>1. /\ Head(s) = \h4b /\ Head(s) \notin ByteOps /\ Payload(s) = <<b>>
      /\ ~ Reads(Head(s)) /\ Writes(Head(s)) /\ IsTms(Head(s))
  BY BitCommand, OpClasses
<1>2. ShiftOp(\h4b, b) = "TMS_LO" /\ TmsOf("TMS_LO") = 0
  <2>1. ~ (b >= 128)
    OBVIOUS
  <2>2. IsTms(\h4b)
    BY OpClasses
  <2> QED BY <2>1, <2>2, Zenon DEF ShiftOp, TmsOf
<1>3. AdapterMessage(s) = Message(<<b>>, n, 0, 0)
  BY <1>1, <1>2 DEF AdapterMessage
<1>4. LengthByte(n, 0) = n
  BY DEF LengthByte
<1>5. Message(<<b>>, n, 0, 0) = [cmd |-> CmdJtag + CmdTms, len |-> n, tx |-> <<b>>, want |-> 1]
  BY <1>4 DEF Message, CmdJtag, CmdTms
<1> QED BY <1>3, <1>5

\* The command for all bits of the last byte but the last.
LEMMA PartMessage ==
    ASSUME NEW s \in Seq(Byte), Len(s) >= 3, NEW n \in 0 .. 6, NEW b \in Byte,
           s[1] = \h3b, s[2] = n, s[3] = b
    PROVE  AdapterMessage(s) = [cmd |-> CmdJtag, len |-> n, tx |-> <<b>>, want |-> 1]
<1>1. /\ Head(s) = \h3b /\ Head(s) \notin ByteOps /\ Payload(s) = <<b>> /\ ShiftSize(s) = 1
      /\ Reads(Head(s)) /\ Writes(Head(s)) /\ ~ IsTms(\h3b)
  BY BitCommand, OpClasses
<1>2. ShiftOp(\h3b, b) = "TDI" /\ TmsOf("TDI") = -1
  BY <1>1, Zenon DEF ShiftOp, TmsOf
<1>3. AdapterMessage(s) = Message(<<b>>, n, -1, 1)
  BY <1>1, <1>2 DEF AdapterMessage
<1>4. LengthByte(n, -1) = n
  BY DEF LengthByte
<1>5. Message(<<b>>, n, -1, 1) = [cmd |-> CmdJtag, len |-> n, tx |-> <<b>>, want |-> 1]
  BY <1>4 DEF Message, CmdJtag
<1> QED BY <1>3, <1>5

\* The command for the last bit: TDI is in bit 7, TMS in the others.
LEMMA LastMessage ==
    ASSUME NEW s \in Seq(Byte), Len(s) >= 3, NEW b \in Byte,
           s[1] = \h6b, s[2] = 2, s[3] = b
    PROVE  AdapterMessage(s) =
             [cmd |-> CmdJtag + CmdTms, len |-> 2 + (IF b >= 128 THEN 128 ELSE 0),
              tx |-> <<b>>, want |-> 1]
<1>1. /\ Head(s) = \h6b /\ Head(s) \notin ByteOps /\ Payload(s) = <<b>> /\ ShiftSize(s) = 1
      /\ Reads(Head(s)) /\ Writes(Head(s)) /\ IsTms(\h6b)
  BY BitCommand, OpClasses
<1> DEFINE high == IF b >= 128 THEN 1 ELSE 0
<1>2. TmsOf(ShiftOp(\h6b, b)) = high
  <2>1. CASE b >= 128
    BY <1>1, <2>1, Zenon DEF ShiftOp, TmsOf
  <2>2. CASE ~ (b >= 128)
    BY <1>1, <2>2, Zenon DEF ShiftOp, TmsOf
  <2> QED BY <2>1, <2>2
<1>3. AdapterMessage(s) = Message(<<b>>, 2, high, 1)
  <2> HIDE DEF high
  <2> QED BY <1>1, <1>2 DEF AdapterMessage
<1>4. LengthByte(2, high) = 2 + (IF b >= 128 THEN 128 ELSE 0)
  BY DEF LengthByte, TmsTdiHi
<1>5. high >= 0 /\ ~ (high < 0)
  OBVIOUS
<1> HIDE DEF high
<1>6. Message(<<b>>, 2, high, 1) =
        [cmd |-> CmdJtag + CmdTms, len |-> LengthByte(2, high), tx |-> <<b>>, want |-> 1]
  BY <1>5 DEF Message, CmdJtag, CmdTms
<1> QED BY <1>3, <1>4, <1>6, Zenon

\* All bytes of a shift but the last.
LEMMA ButLastType ==
    ASSUME NEW b \in Seq(Byte), Len(b) > 1
    PROVE  /\ ButLast(b) \in Seq(Byte) /\ Len(ButLast(b)) = Len(b) - 1
           /\ \A i \in 1 .. Len(b) - 1 : ButLast(b)[i] = b[i]
<1>1. PICK k \in Nat : k = Len(b) /\ k > 1
  OBVIOUS
<1>2. \A i \in 1 .. k - 1 : b[i] \in Byte
  <2>1. \A i \in 1 .. k - 1 : i \in 1 .. Len(b)
    BY <1>1
  <2> QED BY <2>1, ElementOfSeq, Zenon
<1>3. 1 \in Int /\ k - 1 \in Int /\ (k - 1) - 1 + 1 = k - 1
      /\ (IF 1 <= k - 1 THEN (k - 1) - 1 + 1 ELSE 0) = k - 1
      /\ \A i \in 1 .. k - 1 : 1 + i - 1 = i
  BY <1>1
<1> DEFINE t == SubSeq(b, 1, k - 1)
<1>4. t \in Seq(Byte) /\ Len(t) = (IF 1 <= k - 1 THEN (k - 1) - 1 + 1 ELSE 0)
      /\ \A i \in 1 .. (k - 1) - 1 + 1 : t[i] = b[1 + i - 1]
  BY <1>2, <1>3, SubSeqProperties
<1>5. ButLast(b) = t
  BY <1>1 DEF ButLast
<1> HIDE DEF t
<1> QED BY <1>1, <1>3, <1>4, <1>5

\* A count below 256 * 256 is what its two bytes say.
LEMMA TwoByteCount ==
    ASSUME NEW n \in Nat, n < 256 * 256
    PROVE  /\ n % 256 \in Byte /\ (n \div 256) % 256 \in Byte
           /\ 256 * ((n \div 256) % 256) + (n % 256) = n
<1>1. PICK q \in Nat, r \in 0 .. 255 : n = 256 * q + r /\ n \div 256 = q /\ n % 256 = r
  <2>1. n \div 256 \in Nat /\ n % 256 \in 0 .. 255 /\ n = 256 * (n \div 256) + (n % 256)
    OBVIOUS
  <2> QED BY <2>1
<1>2. q < 256
  BY <1>1
<1>3. q % 256 = q /\ q \in 0 .. 255
  BY <1>2
<1> QED BY <1>1, <1>3 DEF Byte

\* The command for them: its count fits into two bytes.
LEMMA WholeLayout ==
    ASSUME NEW b \in Seq(Byte), Len(b) > 1, Short(b)
    PROVE  LET s == WholeCommand(b) IN
           /\ s \in Seq(Byte) /\ Len(s) = Len(b) + 2 /\ Head(s) = \h39
           /\ ShiftSize(s) = Len(b) - 1
           /\ SubSeq(s, 4, Len(b) + 2) = ButLast(b)
<1> DEFINE n == LengthField(b)
<1> DEFINE head == <<\h39, n % 256, (n \div 256) % 256>>
<1> DEFINE t == ButLast(b)
<1> DEFINE s == WholeCommand(b)
<1>1. PICK k \in Nat : k = Len(b) /\ k > 1
  OBVIOUS
<1>2. n = k - 2 /\ n \in Nat
  BY <1>1 DEF LengthField
<1>3. t \in Seq(Byte) /\ Len(t) = k - 1
  BY <1>1, ButLastType
<1>4. n < 256 * 256
  <2>1. Len(b) - 1 < 256 * 256
    BY Zenon DEF Short
  <2> QED BY <1>1, <1>2, <2>1
<1> DEFINE lo == n % 256
<1> DEFINE hi == (n \div 256) % 256
<1>5. lo \in Byte /\ hi \in Byte /\ 256 * hi + lo = n
  <2> HIDE DEF n
  <2> QED BY <1>2, <1>4, TwoByteCount
<1>6. s = head \o t
  BY DEF WholeCommand
<1> HIDE DEF n, lo, hi
<1>7. head \in Seq(Byte) /\ Len(head) = 3 /\ head[1] = \h39 /\ head[2] = lo /\ head[3] = hi
  <2>1. head = <<\h39, lo, hi>>
    BY DEF lo, hi
  <2>2. \h39 \in Byte
    BY DEF Byte
  <2> HIDE DEF head
  <2> QED BY <1>5, <2>1, <2>2
<1> HIDE DEF head, t, s
<1>8. s \in Seq(Byte) /\ Len(s) = 3 + (k - 1) /\ (\A i \in 1 .. 3 : s[i] = head[i])
      /\ \A i \in 1 .. k - 1 : s[3 + i] = t[i]
  <2>1. PICK m \in Nat, l \in Nat : m = 3 /\ l = k - 1
    BY <1>1
  <2>3. m = Len(head) /\ l = Len(t) /\ head \in Seq(Byte) /\ t \in Seq(Byte)
    BY <1>3, <1>7, <2>1
  <2>2. s \in Seq(Byte) /\ Len(s) = m + l /\ (\A i \in 1 .. m : s[i] = head[i])
        /\ \A i \in 1 .. l : s[m + i] = t[i]
    <3> DEFINE r == head \o t
    <3>1. r \in Seq(Byte) /\ Len(r) = m + l /\ (\A i \in 1 .. m : r[i] = head[i])
          /\ \A i \in 1 .. l : r[m + i] = t[i]
      BY <2>3, ConcatParts
    <3>2. r = s
      BY <1>6
    <3> HIDE DEF r
    <3> QED BY <3>1, <3>2
  <2> QED BY <2>1, <2>2
<1>9. s[1] = \h39 /\ s[2] = lo /\ s[3] = hi
  BY <1>7, <1>8
<1>10. Head(s) = \h39
  BY <1>1, <1>8, <1>9
<1>11. ShiftSize(s) = k - 1
  <2>1. Head(s) \in ByteOps
    BY <1>10, OpClasses
  <2>2. ShiftSize(s) = 256 * hi + lo + 1
    BY <1>9, <2>1, Zenon DEF ShiftSize
  <2> QED BY <1>1, <1>2, <1>5, <2>2
<1>12. SubSeq(s, 4, k + 2) = t
  <2> DEFINE r == SubSeq(s, 4, k + 2)
  <2>1. k + 2 = Len(s) /\ 4 \in 1 .. Len(s)
    BY <1>1, <1>8
  <2>2. r \in Seq(Byte) /\ Len(r) = k - 1 /\ \A i \in 1 .. k - 1 : r[i] = s[3 + i]
    BY <1>1, <1>8, <2>1
  <2> HIDE DEF r
  <2>3. r = t
    BY <1>3, <1>8, <2>2, SeqEqual
  <2> QED BY <2>3 DEF r
<1> QED BY <1>1, <1>8, <1>10, <1>11, <1>12 DEF s, t
\* It shifts them out, and as many are wanted back.
LEMMA WholeMessage ==
    ASSUME NEW b \in Seq(Byte), Len(b) > 1, Short(b)
    PROVE  LET s == WholeCommand(b) IN
           /\ Head(s) \in Shifts /\ Head(s) \notin BitOps /\ Reads(Head(s))
           /\ Complete(s) /\ CommandLen(s) = Len(s)
           /\ AdapterMessage(s) =
                [cmd |-> CmdJtag, len |-> 7, tx |-> ButLast(b), want |-> Len(b) - 1]
<1> DEFINE s == WholeCommand(b)
<1> DEFINE t == ButLast(b)
<1>1. PICK k \in Nat : k = Len(b) /\ k > 1
  OBVIOUS
<1>2. /\ s \in Seq(Byte) /\ Len(s) = k + 2 /\ Head(s) = \h39 /\ ShiftSize(s) = k - 1
      /\ SubSeq(s, 4, k + 2) = t
  BY <1>1, WholeLayout
<1>3. t \in Seq(Byte) /\ Len(t) = k - 1
  BY <1>1, ButLastType
<1> HIDE DEF s, t
<1>4. /\ Head(s) \in ByteOps /\ Head(s) \notin BitOps /\ Reads(Head(s)) /\ Writes(Head(s))
  BY <1>2, OpClasses
<1>5. HeaderLen(Head(s)) = 3
  BY <1>4, Zenon DEF HeaderLen
<1>6. CommandLen(s) = k + 2
  BY <1>1, <1>2, <1>4, <1>5 DEF CommandLen
<1>7. Payload(s) = t
  BY <1>2, <1>5, <1>6 DEF Payload
<1>8. Complete(s)
  <2>1. s # <<>>
    BY <1>1, <1>2
  <2> QED BY <1>1, <1>2, <1>5, <1>6, <2>1 DEF Complete
<1>9. AdapterMessage(s) = Message(t, 7, -1, k - 1)
  BY <1>2, <1>4, <1>7 DEF AdapterMessage
<1>10. LengthByte(7, -1) = 7
  BY DEF LengthByte
<1>11. t # <<>> /\ k - 1 > 0 /\ k - 1 # 0
  BY <1>1, <1>3
<1>12. Message(t, 7, -1, k - 1) = [cmd |-> CmdJtag, len |-> 7, tx |-> t, want |-> k - 1]
  BY <1>10, <1>11 DEF Message, CmdJtag
<1> QED BY <1>1, <1>2, <1>4, <1>6, <1>8, <1>9, <1>12 DEF s, t, Shifts

-----------------------------------------------------------------------------
(* What is on its way to the device: commands for TMS, and one that asks behind them. *)

Paths == {IdlePath, IRPath, DRPath}

\* The paths are TMS commands.
LEMMA PathForms ==
    ASSUME NEW path \in Paths
    PROVE  /\ path \in Seq(Byte) /\ Len(path) = 3
           /\ path[1] = \h4b /\ path[2] \in 0 .. 7 /\ path[3] \in 0 .. 127
<1>1. CASE path = IdlePath
  BY <1>1 DEF IdlePath, Byte
<1>2. CASE path = IRPath
  BY <1>2 DEF IRPath, Byte
<1>3. CASE path = DRPath
  BY <1>3 DEF DRPath, Byte
<1> QED BY <1>1, <1>2, <1>3, Zenon DEF Paths

\* There is one at s[at], s[at + 1], s[at + 2].
PathAt(s, at) == s[at] = \h4b /\ s[at + 1] \in 0 .. 7 /\ s[at + 2] \in 0 .. 127

\* It is one of r as well if r has the same bytes there.
LEMMA SamePath ==
    ASSUME NEW r, NEW s, NEW at, PathAt(s, at),
           r[at] = s[at], r[at + 1] = s[at + 1], r[at + 2] = s[at + 2]
    PROVE  PathAt(r, at)
BY Zenon DEF PathAt

\* k of them, then command c.
Queue(s, c, k) ==
    /\ s \in Seq(Byte) /\ k \in Nat /\ Len(s) = 3 * k + Len(c)
    /\ \A i \in 0 .. k - 1 : PathAt(s, 3 * i + 1)
    /\ \A j \in 1 .. Len(c) : s[3 * k + j] = c[j]

\* A path more.
LEMMA QueuePath ==
    ASSUME NEW s, NEW k, Queue(s, <<>>, k), NEW path \in Paths
    PROVE  /\ Queue(s \o path, <<>>, k + 1)
           /\ \A i \in 1 .. 3 : (s \o path)[3 * k + i] = path[i]
<1> DEFINE r == s \o path
<1>1. s \in Seq(Byte) /\ k \in Nat /\ Len(s) = 3 * k /\ \A i \in 0 .. k - 1 : PathAt(s, 3 * i + 1)
  BY DEF Queue
<1>2. path \in Seq(Byte) /\ Len(path) = 3 /\ PathAt(path, 1)
  BY PathForms DEF PathAt
<1>3. PICK m \in Nat, l \in Nat : m = 3 * k /\ l = 3
  BY <1>1
<1>4. r \in Seq(Byte) /\ Len(r) = m + l /\ (\A i \in 1 .. m : r[i] = s[i])
      /\ \A i \in 1 .. l : r[m + i] = path[i]
  <2>1. m = Len(s) /\ l = Len(path) /\ s \in Seq(Byte) /\ path \in Seq(Byte)
    BY <1>1, <1>2, <1>3
  <2> QED BY <2>1, ConcatParts
<1> HIDE DEF r
<1>5. ASSUME NEW i \in 0 .. k PROVE PathAt(r, 3 * i + 1)
  <2>1. CASE i = k
    <3>1. r[m + 1] = path[1] /\ r[m + 2] = path[2] /\ r[m + 3] = path[3]
      BY <1>3, <1>4
    <3>2. 3 * i + 1 = m + 1 /\ (3 * i + 1) + 1 = m + 2 /\ (3 * i + 1) + 2 = m + 3
          /\ 1 + 1 = 2 /\ 1 + 2 = 3
      BY <1>1, <1>3, <2>1
    <3> QED BY <1>2, <3>1, <3>2, ZenonT(60) DEF PathAt
  <2>2. CASE i # k
    <3>1. i \in 0 .. k - 1 /\ 3 * i + 1 \in 1 .. m /\ (3 * i + 1) + 1 \in 1 .. m
          /\ (3 * i + 1) + 2 \in 1 .. m
      BY <1>1, <1>3, <2>2
    <3>2. r[3 * i + 1] = s[3 * i + 1] /\ r[(3 * i + 1) + 1] = s[(3 * i + 1) + 1]
          /\ r[(3 * i + 1) + 2] = s[(3 * i + 1) + 2]
      BY <1>4, <3>1, Zenon
    <3>3. PathAt(s, 3 * i + 1)
      BY <1>1, <3>1, Zenon
    <3> QED BY <3>2, <3>3, SamePath, Zenon
  <2> QED BY <2>1, <2>2
<1>6. Len(r) = 3 * (k + 1) + 0 /\ k + 1 \in Nat /\ (k + 1) - 1 = k /\ 1 .. 0 = {} /\ Len(<<>>) = 0
  BY <1>1, <1>3, <1>4
<1>7. Queue(r, <<>>, k + 1)
  BY <1>4, <1>5, <1>6, Zenon DEF Queue
<1>8. \A i \in 1 .. 3 : r[3 * k + i] = path[i]
  BY <1>3, <1>4
<1> QED BY <1>7, <1>8 DEF r

\* A command that asks.
LEMMA QueueCommand ==
    ASSUME NEW s, NEW k, Queue(s, <<>>, k), NEW c \in Seq(Byte)
    PROVE  Queue(s \o c, c, k)
<1> DEFINE r == s \o c
<1>1. s \in Seq(Byte) /\ k \in Nat /\ Len(s) = 3 * k /\ \A i \in 0 .. k - 1 : PathAt(s, 3 * i + 1)
  BY DEF Queue
<1>2. PICK m \in Nat, l \in Nat : m = 3 * k /\ l = Len(c)
  BY <1>1
<1>3. r \in Seq(Byte) /\ Len(r) = m + l /\ (\A i \in 1 .. m : r[i] = s[i])
      /\ \A i \in 1 .. l : r[m + i] = c[i]
  <2>1. m = Len(s) /\ l = Len(c) /\ s \in Seq(Byte)
    BY <1>1, <1>2
  <2> QED BY <2>1, ConcatParts
<1> HIDE DEF r
<1>4. ASSUME NEW i \in 0 .. k - 1 PROVE PathAt(r, 3 * i + 1)
  <2>1. 3 * i + 1 \in 1 .. m /\ (3 * i + 1) + 1 \in 1 .. m /\ (3 * i + 1) + 2 \in 1 .. m
    BY <1>1, <1>2
  <2>2. r[3 * i + 1] = s[3 * i + 1] /\ r[(3 * i + 1) + 1] = s[(3 * i + 1) + 1]
        /\ r[(3 * i + 1) + 2] = s[(3 * i + 1) + 2]
    BY <1>3, <2>1, Zenon
  <2>3. PathAt(s, 3 * i + 1)
    BY <1>1, Zenon
  <2> QED BY <2>2, <2>3, SamePath, Zenon
<1>5. Queue(r, c, k)
  BY <1>1, <1>2, <1>3, <1>4, Zenon DEF Queue
<1> QED BY <1>5 DEF r

\* With no path before it only the command is left.
LEMMA QueueEnds ==
    ASSUME NEW s, NEW c \in Seq(Byte), Queue(s, c, 0)
    PROVE  s = c
<1>1. s \in Seq(Byte) /\ Len(s) = Len(c) /\ \A j \in 1 .. Len(c) : s[j] = c[j]
  BY DEF Queue
<1> QED BY <1>1, SeqEqual

\* The first path is taken off the queue.
LEMMA QueueHead ==
    ASSUME NEW s, NEW c \in Seq(Byte), NEW k, Queue(s, c, k), k # 0
    PROVE  /\ s \in Seq(Byte) /\ Len(s) >= 3 /\ PathAt(s, 1)
           /\ Queue(Drop(s, 3), c, k - 1)
           /\ \A i \in 1 .. Len(s) - 3 : Drop(s, 3)[i] = s[3 + i]
<1> DEFINE r == Drop(s, 3)
<1>1. /\ s \in Seq(Byte) /\ k \in Nat /\ Len(s) = 3 * k + Len(c)
      /\ \A i \in 0 .. k - 1 : PathAt(s, 3 * i + 1)
      /\ \A j \in 1 .. Len(c) : s[3 * k + j] = c[j]
  BY DEF Queue
<1>2. PICK l \in Nat, m \in Nat : l = Len(c) /\ m = k - 1
  BY <1>1
<1>3. r \in Seq(Byte) /\ Len(r) = 3 * m + l /\ \A i \in 1 .. 3 * m + l : r[i] = s[3 + i]
  BY <1>1, <1>2 DEF Drop
<1>4. PathAt(s, 1)
  <2>1. 0 \in 0 .. k - 1 /\ 3 * 0 + 1 = 1
    BY <1>1
  <2> QED BY <1>1, <2>1
<1> HIDE DEF r
<1>5. ASSUME NEW i \in 0 .. m - 1 PROVE PathAt(r, 3 * i + 1)
  <2> DEFINE at == 3 * i + 1
  <2>1. i + 1 \in 0 .. k - 1 /\ 3 * (i + 1) + 1 = at + 3 /\ at \in 1 .. 3 * m + l
        /\ at + 1 \in 1 .. 3 * m + l /\ at + 2 \in 1 .. 3 * m + l
        /\ 3 + at = at + 3 /\ 3 + (at + 1) = (at + 3) + 1 /\ 3 + (at + 2) = (at + 3) + 2
    BY <1>2
  <2> HIDE DEF at
  <2>2. PathAt(s, at + 3)
    BY <1>1, <2>1, Zenon
  <2>3. r[at] = s[3 + at] /\ r[at + 1] = s[3 + (at + 1)] /\ r[at + 2] = s[3 + (at + 2)]
    BY <1>3, <2>1
  <2>4. r[at] = s[at + 3] /\ r[at + 1] = s[(at + 3) + 1] /\ r[at + 2] = s[(at + 3) + 2]
    BY <2>1, <2>3, Zenon
  <2>5. PathAt(r, at)
    BY <2>2, <2>4, Zenon DEF PathAt
  <2> QED BY <2>5 DEF at
<1>6. ASSUME NEW j \in 1 .. l PROVE r[3 * m + j] = c[j]
  <2>1. 3 * m + j \in 1 .. 3 * m + l /\ 3 + (3 * m + j) = 3 * k + j
    BY <1>1, <1>2
  <2>2. r[3 * m + j] = s[3 + (3 * m + j)]
    BY <1>3, <2>1
  <2>3. s[3 * k + j] = c[j]
    BY <1>1, <1>2
  <2> QED BY <2>1, <2>2, <2>3, Zenon
<1>7. Queue(r, c, m)
  BY <1>2, <1>3, <1>5, <1>6, Zenon DEF Queue
<1>8. Len(s) >= 3 /\ Len(s) - 3 = 3 * m + l
  <2>1. Len(s) = 3 * (m + 1) + l
    BY <1>1, <1>2
  <2> HIDE DEF r
  <2> QED BY <1>2, <2>1
<1>9. \A i \in 1 .. Len(s) - 3 : r[i] = s[3 + i]
  BY <1>3, <1>8
<1> QED BY <1>1, <1>2, <1>4, <1>7, <1>8, <1>9 DEF r

\* A queue is empty if nothing is in it.
LEMMA QueueEmpty ==
    /\ Queue(<<>>, <<>>, 0)
    /\ \A s, k : Queue(s, <<>>, k) /\ s = <<>> => k = 0
    /\ \A s : Queue(s, <<>>, 0) => s = <<>>
<1>1. Queue(<<>>, <<>>, 0)
  BY DEF Queue
<1>2. ASSUME NEW s, NEW k, Queue(s, <<>>, k), s = <<>> PROVE k = 0
  <2>1. k \in Nat /\ Len(s) = 3 * k + Len(<<>>) /\ Len(<<>>) = 0
    BY <1>2 DEF Queue
  <2> QED BY <1>2, <2>1
<1>3. ASSUME NEW s, Queue(s, <<>>, 0) PROVE s = <<>>
  <2>1. <<>> \in Seq(Byte)
    OBVIOUS
  <2> QED BY <1>3, <2>1, QueueEnds
<1> QED BY <1>1, <1>2, <1>3

-----------------------------------------------------------------------------
(* A shift as questions and answers. *)

\* A shift of MPJTAG whose first byte count is what it should be.
ProperCall == {c \in MpCall : c.op # "toRTI" /\ Short(c.b)}

\* Bits in all bytes but the last, and how many answers there are to the first two commands.
Before(c) == 8 * (Len(c.b) - 1)
Wholes(c) == IF Len(c.b) > 1 THEN 1 ELSE 0
Parts(c) == IF c.lst > 1 THEN 1 ELSE 0

LastSteps(c) == LastBit(c.b, c.lst)
PartSteps(c) == PartByte(c.b, c.lst) \o LastSteps(c)
AllSteps(c) == WholeBytes(c.b) \o PartSteps(c)

\* A command that asks: how many bits went in and answers were read before it, how many bits
\* it puts in and bytes it brings, what is left to do after it.
WholeAsk(c) ==
    [kind |-> "whole", cmd |-> WholeCommand(c.b), from |-> 0, bits |-> Before(c),
     bytes |-> ReadCount(c.b), answers |-> 0, rest |-> PartSteps(c)]
PartAsk(c) ==
    [kind |-> "part", cmd |-> PartCommand(c.b, c.lst), from |-> Before(c), bits |-> c.lst - 1,
     bytes |-> 1, answers |-> Wholes(c), rest |-> LastSteps(c)]
LastAsk(c) ==
    [kind |-> "last", cmd |-> LastCommand(c.b, c.lst), from |-> Bits(c) - 1, bits |-> 1,
     bytes |-> 1, answers |-> Wholes(c) + Parts(c), rest |-> <<>>]

Asks(c) ==
    (IF Len(c.b) > 1 THEN {WholeAsk(c)} ELSE {})
      \cup (IF c.lst > 1 THEN {PartAsk(c)} ELSE {})
      \cup (IF LastOut(c.b, c.lst) > 255 THEN {} ELSE {LastAsk(c)})

AskSteps(a) == <<WriteStep(a.cmd)>> \o (<<ReadStep(a.bytes)>> \o a.rest)

\* With n bits in and h answers read, these are the steps left.
Continues(c, n, h, s) ==
    \/ s = <<>> /\ n = Bits(c) /\ h = Wholes(c) + Parts(c) + 1
    \/ s = <<RaiseStep>>
    \/ \E a \in Asks(c) : a.from = n /\ a.answers = h /\ s = AskSteps(a)

\* A step before others is the next one, they are left.
LEMMA Prefixed ==
    ASSUME NEW S, NEW x \in S, NEW s \in Seq(S)
    PROVE  /\ <<x>> \o s \in Seq(S) /\ Len(<<x>> \o s) = Len(s) + 1
           /\ Head(<<x>> \o s) = x /\ Tail(<<x>> \o s) = s
<1> DEFINE r == <<x>> \o s
<1>1. PICK n \in Nat : n = Len(s)
  OBVIOUS
<1>2. <<x>> \in Seq(S) /\ Len(<<x>>) = 1 /\ <<x>>[1] = x
  OBVIOUS
<1>3. r \in Seq(S) /\ Len(r) = 1 + n /\ (\A i \in 1 .. 1 : r[i] = <<x>>[i])
      /\ \A i \in 1 .. n : r[1 + i] = s[i]
  <2>1. PICK m \in Nat : m = 1
    OBVIOUS
  <2>2. m = Len(<<x>>) /\ n = Len(s) /\ <<x>> \in Seq(S)
    BY <1>1, <1>2, <2>1
  <2>3. r \in Seq(S) /\ Len(r) = m + n /\ (\A i \in 1 .. m : r[i] = <<x>>[i])
        /\ \A i \in 1 .. n : r[m + i] = s[i]
    BY <2>2, ConcatParts
  <2> QED BY <2>1, <2>3
<1> HIDE DEF r
<1>4. r[1] = x /\ r # <<>>
  BY <1>2, <1>3
<1>5. Head(r) = x
  BY <1>3, <1>4, HeadTailProperties
<1>6. Tail(r) \in Seq(S) /\ Len(Tail(r)) = n /\ \A i \in 1 .. n : Tail(r)[i] = r[i + 1]
  <2>1. Tail(r) \in Seq(S) /\ Len(Tail(r)) = Len(r) - 1
        /\ \A i \in 1 .. Len(Tail(r)) : Tail(r)[i] = r[i + 1]
    BY <1>3, <1>4, HeadTailProperties
  <2> QED BY <1>1, <1>3, <2>1
<1>7. \A i \in 1 .. n : Tail(r)[i] = s[i]
  BY <1>3, <1>6
<1>8. Tail(r) = s
  <2> DEFINE t == Tail(r)
  <2>1. t \in Seq(S) /\ Len(t) = Len(s) /\ \A i \in 1 .. Len(t) : t[i] = s[i]
    BY <1>1, <1>6, <1>7
  <2> HIDE DEF t
  <2>2. t = s
    BY <2>1, SeqEqual
  <2> QED BY <2>2 DEF t
<1>9. Len(r) = Len(s) + 1
  BY <1>1, <1>3
<1> QED BY <1>3, <1>5, <1>8, <1>9 DEF r

\* Two steps are one before another.
LEMMA TwoSteps ==
    ASSUME NEW S, NEW x \in S, NEW y \in S, NEW s \in Seq(S)
    PROVE  <<x, y>> \o s = <<x>> \o (<<y>> \o s)
<1> DEFINE a == <<x>>
<1> DEFINE b == <<y>>
<1>1. a \in Seq(S) /\ b \in Seq(S) /\ Len(a) = 1 /\ Len(b) = 1 /\ a[1] = x /\ b[1] = y
  OBVIOUS
<1>2. <<x, y>> = a \o b
  <2> HIDE DEF a, b
  <2> DEFINE r == a \o b
  <2>0. PICK k \in Nat, m \in Nat : k = 1 /\ m = 1
    OBVIOUS
  <2>1. r \in Seq(S) /\ Len(r) = k + m /\ (\A i \in 1 .. k : r[i] = a[i])
        /\ \A i \in 1 .. m : r[k + i] = b[i]
    <3>1. k = Len(a) /\ m = Len(b) /\ a \in Seq(S) /\ b \in Seq(S)
      BY <1>1, <2>0
    <3> QED BY <3>1, ConcatParts
  <2> HIDE DEF r
  <2>2. r \in Seq(S) /\ Len(r) = 2 /\ r[1] = x /\ r[2] = y
    BY <1>1, <2>0, <2>1
  <2>3. <<x, y>> = r
    BY <2>2
  <2> QED BY <2>3 DEF r
<1> HIDE DEF a, b
<1>3. (a \o b) \o s = a \o (b \o s)
  BY <1>1, ConcatTriple, SMTT(40)
<1> QED BY <1>2, <1>3, Zenon DEF a, b

\* Dividing a byte by the powers that bits stand for leaves a number.
LEMMA ByteShifted ==
    ASSUME NEW x \in Byte, NEW j \in 0 .. 7
    PROVE  x \div 2 ^ j \in Nat
<1>0. x \in 0 .. 255
  BY DEF Byte
<1>1. PICK d \in {1, 2, 4, 8, 16, 32, 64, 128} : d = 2 ^ j
  <2>1. CASE j = 0
    BY <2>1, Powers
  <2>2. CASE j = 1
    BY <2>2, Powers
  <2>3. CASE j = 2
    BY <2>3, Powers
  <2>4. CASE j = 3
    BY <2>4, Powers
  <2>5. CASE j = 4
    BY <2>5, Powers
  <2>6. CASE j = 5
    BY <2>6, Powers
  <2>7. CASE j = 6
    BY <2>7, Powers
  <2>8. CASE j = 7
    BY <2>8, Powers
  <2> QED BY <2>1, <2>2, <2>3, <2>4, <2>5, <2>6, <2>7, <2>8
<1>2. x \div d \in Nat
  BY <1>0
<1> QED BY <1>1, <1>2, Zenon
\* What such a shift is given.
LEMMA ProperType ==
    ASSUME NEW c \in ProperCall
    PROVE  /\ c.op \in {"shiftIR", "shiftDR"} /\ c.b \in Seq(Byte) /\ Len(c.b) \in Nat \ {0}
           /\ c.lst \in 1 .. 8 /\ Short(c.b) /\ LastByte(c.b) \in Byte
           /\ Bits(c) = Before(c) + c.lst /\ Before(c) \in Nat
<1>1. c \in [op : {"shiftIR", "shiftDR"}, b : Seq(Byte) \ {<<>>}, lst : 1 .. 8] /\ Short(c.b)
  <2>1. c \in MpCall /\ c.op # "toRTI" /\ Short(c.b)
    BY DEF ProperCall
  <2>2. c \notin [op : {"toRTI"}]
    BY <2>1
  <2> QED BY <2>1, <2>2, Zenon DEF MpCall
<1>2. c.op \in {"shiftIR", "shiftDR"} /\ c.b \in Seq(Byte) /\ c.b # <<>> /\ c.lst \in 1 .. 8
  BY <1>1
<1>3. Len(c.b) \in Nat \ {0}
  BY <1>2
<1>4. LastByte(c.b) \in Byte
  <2>1. Len(c.b) \in 1 .. Len(c.b)
    BY <1>3
  <2> QED BY <1>2, <2>1, ElementOfSeq DEF LastByte
<1>5. Bits(c) = Before(c) + c.lst /\ Before(c) \in Nat
  BY <1>3 DEF Bits, Before
<1> QED BY <1>1, <1>2, <1>3, <1>4, <1>5

\* The last bit is put into bit 7; if that is all there is, there is no exception.
LEMMA LastOutType ==
    ASSUME NEW c \in ProperCall
    PROVE  /\ LastOut(c.b, c.lst) \in Nat
           /\ LastOut(c.b, c.lst) <= 255 =>
                \/ LastOut(c.b, c.lst) = 0 /\ BitOf(LastByte(c.b), c.lst - 1) = 0
                \/ LastOut(c.b, c.lst) = 128 /\ BitOf(LastByte(c.b), c.lst - 1) = 1
<1>1. LastByte(c.b) \in Byte /\ c.lst - 1 \in 0 .. 7
  BY ProperType
<1>2. PICK q \in Nat : q = LastByte(c.b) \div 2 ^ (c.lst - 1)
  BY <1>1, ByteShifted
<1>3. LastOut(c.b, c.lst) = q * 128 /\ BitOf(LastByte(c.b), c.lst - 1) = q % 2
  BY <1>2, Zenon DEF LastOut, BitOf
<1>4. q * 128 \in Nat /\ (q * 128 <= 255 => q = 0 \/ q = 1)
  BY <1>2
<1>5. 0 % 2 = 0 /\ 1 % 2 = 1
  OBVIOUS
<1> QED BY <1>3, <1>4, <1>5

\* The commands are bytes.
LEMMA CommandTypes ==
    ASSUME NEW c \in ProperCall
    PROVE  /\ Len(c.b) > 1 => WholeCommand(c.b) \in Seq(Byte)
           /\ c.lst > 1 => PartCommand(c.b, c.lst) \in Seq(Byte)
           /\ LastOut(c.b, c.lst) <= 255 => LastCommand(c.b, c.lst) \in Seq(Byte)
<1>0. c.b \in Seq(Byte) /\ c.lst \in 1 .. 8 /\ Short(c.b) /\ LastByte(c.b) \in Byte
  BY ProperType
<1>1. Len(c.b) > 1 => WholeCommand(c.b) \in Seq(Byte)
  BY <1>0, WholeLayout, Zenon
<1>2. \h3b \in Byte /\ \h6b \in Byte /\ 2 \in Byte
  BY DEF Byte
<1>3. \A x, y, z \in Byte : <<x, y, z>> \in Seq(Byte)
  OBVIOUS
<1>4. ASSUME c.lst > 1 PROVE PartCommand(c.b, c.lst) \in Seq(Byte)
  <2>1. BitsField(c.lst) \in Byte
    BY <1>0, <1>4 DEF BitsField, Byte
  <2> QED BY <1>0, <1>2, <1>3, <2>1, Zenon DEF PartCommand
<1>5. ASSUME LastOut(c.b, c.lst) <= 255 PROVE LastCommand(c.b, c.lst) \in Seq(Byte)
  <2>1. LastOut(c.b, c.lst) \in {0, 128}
    BY <1>5, LastOutType
  <2>2. LastOut(c.b, c.lst) + 3 \in Byte
    BY <2>1 DEF Byte
  <2> QED BY <1>2, <1>3, <2>2, Zenon DEF LastCommand
<1> QED BY <1>1, <1>4, <1>5

\* Writes of bytes, reads and exceptions are steps.
LEMMA StepForms ==
    /\ \A s \in Seq(Byte) : WriteStep(s) \in Step
    /\ \A n \in Nat : ReadStep(n) \in Step
    /\ RaiseStep \in Step
    /\ \A s : WriteStep(s).do = "write" /\ WriteStep(s).bytes = s
    /\ \A n : ReadStep(n).do = "read" /\ ReadStep(n).n = n
    /\ RaiseStep.do = "raise"
<1>1. <<>> \in Seq(Byte)
  OBVIOUS
<1> QED BY <1>1 DEF WriteStep, ReadStep, RaiseStep, Step

\* The steps of a shift are its questions, each with what is left after it, or an exception.
LEMMA StepsType ==
    ASSUME NEW c \in ProperCall
    PROVE  /\ LastSteps(c) \in Seq(Step) /\ PartSteps(c) \in Seq(Step)
           /\ AllSteps(c) \in Seq(Step)
           /\ LastSteps(c) = IF LastOut(c.b, c.lst) > 255 THEN <<RaiseStep>>
                             ELSE AskSteps(LastAsk(c))
           /\ PartSteps(c) = IF c.lst > 1 THEN AskSteps(PartAsk(c)) ELSE LastSteps(c)
           /\ AllSteps(c) = IF Len(c.b) > 1 THEN AskSteps(WholeAsk(c)) ELSE PartSteps(c)
<1>0. c.b \in Seq(Byte) /\ Len(c.b) \in Nat \ {0} /\ c.lst \in 1 .. 8
  BY ProperType
<1>1. \A x \in Step : <<x>> \in Seq(Step)
  OBVIOUS
<1>7. Len(c.b) > 1 \/ Len(c.b) = 1
  <2>1. \A n \in Nat \ {0} : n > 1 \/ n = 1
    OBVIOUS
  <2> QED BY <1>0, <2>1, Zenon
<1>8. ~ (1 > 1)
  OBVIOUS
<1>2. \A x, y \in Step, s \in Seq(Step) :
        <<x, y>> \o s = <<x>> \o (<<y>> \o s) /\ <<x>> \o (<<y>> \o s) \in Seq(Step)
  <2> TAKE x \in Step, y \in Step, s \in Seq(Step)
  <2>1. <<y>> \o s \in Seq(Step)
    BY Prefixed, Zenon
  <2>2. <<x>> \o (<<y>> \o s) \in Seq(Step)
    BY <2>1, Prefixed, Zenon
  <2>3. <<x, y>> \o s = <<x>> \o (<<y>> \o s)
    BY TwoSteps
  <2> QED BY <2>2, <2>3, Zenon
<1>3. 1 \in Nat /\ ReadCount(c.b) \in Nat
  BY <1>0 DEF ReadCount
<1>4. LastSteps(c) \in Seq(Step)
      /\ LastSteps(c) = IF LastOut(c.b, c.lst) > 255 THEN <<RaiseStep>>
                        ELSE AskSteps(LastAsk(c))
  <2>1. CASE LastOut(c.b, c.lst) > 255
    BY <1>1, <2>1, StepForms, Zenon DEF LastSteps, LastBit
  <2>2. CASE ~ (LastOut(c.b, c.lst) > 255)
    <3> DEFINE x == WriteStep(LastCommand(c.b, c.lst))
    <3> DEFINE y == ReadStep(1)
    <3>1. LastOut(c.b, c.lst) <= 255
      BY <2>2, LastOutType
    <3>2. x \in Step /\ y \in Step
      BY <1>3, <3>1, CommandTypes, StepForms, Zenon
    <3>3. LastSteps(c) = <<x, y>>
      BY <2>2, Zenon DEF LastSteps, LastBit, LastCommand
    <3>4. AskSteps(LastAsk(c)) = <<x>> \o (<<y>> \o <<>>)
      BY DEF AskSteps, LastAsk
    <3> HIDE DEF x, y
    <3>5. <<x, y>> \o <<>> = <<x, y>> /\ <<>> \in Seq(Step) /\ <<x, y>> \in Seq(Step)
      BY <3>2
    <3>6. <<x, y>> = <<x>> \o (<<y>> \o <<>>)
      BY <1>2, <3>2, <3>5, Zenon
    <3> QED BY <2>2, <3>3, <3>4, <3>5, <3>6, Zenon
  <2> QED BY <2>1, <2>2
<1>5. PartSteps(c) \in Seq(Step)
      /\ PartSteps(c) = IF c.lst > 1 THEN AskSteps(PartAsk(c)) ELSE LastSteps(c)
  <2>1. CASE c.lst > 1
    <3> DEFINE x == WriteStep(PartCommand(c.b, c.lst))
    <3> DEFINE y == ReadStep(1)
    <3>1. c.lst # 1
      BY <1>0, <2>1
    <3>2. x \in Step /\ y \in Step
      BY <1>3, <2>1, CommandTypes, StepForms, Zenon
    <3>3. PartSteps(c) = <<x, y>> \o LastSteps(c)
      BY <3>1, Zenon DEF PartSteps, PartByte, PartCommand
    <3>4. AskSteps(PartAsk(c)) = <<x>> \o (<<y>> \o LastSteps(c))
      BY DEF AskSteps, PartAsk
    <3> HIDE DEF x, y
    <3>5. <<x, y>> \o LastSteps(c) = <<x>> \o (<<y>> \o LastSteps(c))
          /\ <<x>> \o (<<y>> \o LastSteps(c)) \in Seq(Step)
      BY <1>2, <1>4, <3>2, Zenon
    <3> QED BY <2>1, <3>3, <3>4, <3>5, Zenon
  <2>2. CASE ~ (c.lst > 1)
    <3>1. c.lst = 1
      BY <1>0, <2>2
    <3>2. PartSteps(c) = <<>> \o LastSteps(c)
      BY <3>1, Zenon DEF PartSteps, PartByte
    <3>3. \A s \in Seq(Step) : <<>> \o s = s
      OBVIOUS
    <3> QED BY <1>4, <2>2, <3>2, <3>3, Zenon
  <2> QED BY <2>1, <2>2
<1>6. AllSteps(c) \in Seq(Step)
      /\ AllSteps(c) = IF Len(c.b) > 1 THEN AskSteps(WholeAsk(c)) ELSE PartSteps(c)
  <2>1. CASE Len(c.b) > 1
    <3> DEFINE x == WriteStep(WholeCommand(c.b))
    <3> DEFINE y == ReadStep(ReadCount(c.b))
    <3>1. Len(c.b) # 1
      BY <1>8, <2>1, Zenon
    <3>2. x \in Step /\ y \in Step
      BY <1>3, <2>1, CommandTypes, StepForms, Zenon
    <3>3. AllSteps(c) = <<x, y>> \o PartSteps(c)
      BY <3>1, Zenon DEF AllSteps, WholeBytes, WholeCommand
    <3>4. AskSteps(WholeAsk(c)) = <<x>> \o (<<y>> \o PartSteps(c))
      BY DEF AskSteps, WholeAsk
    <3> HIDE DEF x, y
    <3>5. <<x, y>> \o PartSteps(c) = <<x>> \o (<<y>> \o PartSteps(c))
          /\ <<x>> \o (<<y>> \o PartSteps(c)) \in Seq(Step)
      BY <1>2, <1>5, <3>2, Zenon
    <3> QED BY <2>1, <3>3, <3>4, <3>5, Zenon
  <2>2. CASE ~ (Len(c.b) > 1)
    <3>1. Len(c.b) = 1
      BY <1>7, <2>2, Zenon
    <3>2. AllSteps(c) = <<>> \o PartSteps(c)
      BY <3>1, Zenon DEF AllSteps, WholeBytes
    <3>3. \A s \in Seq(Step) : <<>> \o s = s
      OBVIOUS
    <3> QED BY <1>5, <2>2, <3>2, <3>3, Zenon
  <2> QED BY <2>1, <2>2
<1> QED BY <1>4, <1>5, <1>6

\* A question is one of the three.
LEMMA AskForms ==
    ASSUME NEW c \in ProperCall, NEW a \in Asks(c)
    PROVE  \/ a = WholeAsk(c) /\ Len(c.b) > 1
           \/ a = PartAsk(c) /\ c.lst > 1
           \/ a = LastAsk(c) /\ LastOut(c.b, c.lst) <= 255
<1>1. CASE a = WholeAsk(c) /\ Len(c.b) > 1
  BY <1>1
<1>2. CASE a = PartAsk(c) /\ c.lst > 1
  BY <1>2
<1>3. CASE a = LastAsk(c) /\ ~ (LastOut(c.b, c.lst) > 255)
  BY <1>3, LastOutType
<1> QED BY <1>1, <1>2, <1>3, Zenon DEF Asks

\* A question lies within the shift, only the last one reaches its end.
LEMMA AskType ==
    ASSUME NEW c \in ProperCall, NEW a \in Asks(c)
    PROVE  /\ a.cmd \in Seq(Byte) /\ a.from \in Nat /\ a.bits \in Nat /\ a.bytes \in Nat \ {0}
           /\ a.answers \in Nat /\ a.rest \in Seq(Step) /\ Bits(c) \in Nat
           /\ a.from < Bits(c) /\ a.from + a.bits <= Bits(c)
           /\ a.from + a.bits = Bits(c) <=> a.kind = "last"
<1>0. /\ c.lst \in 1 .. 8 /\ Bits(c) = Before(c) + c.lst /\ Before(c) \in Nat
      /\ Len(c.b) \in Nat \ {0}
  BY ProperType
<1>4. PICK k \in Nat, l \in 1 .. 8, n \in Nat :
        k = Before(c) /\ l = c.lst /\ n = Bits(c) /\ n = k + l
  <2>1. \A k \in Nat, l \in 1 .. 8 : k + l \in Nat
    OBVIOUS
  <2> QED BY <1>0, <2>1, Zenon
<1>5. Wholes(c) \in Nat /\ Parts(c) \in Nat /\ Wholes(c) + Parts(c) \in Nat
  BY DEF Wholes, Parts
<1>1. CASE a = WholeAsk(c) /\ Len(c.b) > 1
  <2>1. a.cmd = WholeCommand(c.b) /\ a.from = 0 /\ a.bits = Before(c) /\ a.bytes = ReadCount(c.b)
        /\ a.answers = 0 /\ a.rest = PartSteps(c) /\ a.kind = "whole"
    BY <1>1 DEF WholeAsk
  <2>2. ReadCount(c.b) \in Nat \ {0}
    <3>1. \A len \in Nat : len > 1 => len - 1 \in Nat \ {0}
      OBVIOUS
    <3> QED BY <1>0, <1>1, <3>1, Zenon DEF ReadCount
  <2>3. a.cmd \in Seq(Byte) /\ a.rest \in Seq(Step)
    BY <1>1, <2>1, CommandTypes, StepsType, Zenon
  <2>4. 0 < n /\ 0 + k <= n /\ 0 + k # n /\ 0 \in Nat /\ "whole" # "last"
    BY <1>4
  <2> QED BY <1>4, <2>1, <2>2, <2>3, <2>4, Zenon
<1>2. CASE a = PartAsk(c) /\ c.lst > 1
  <2>1. a.cmd = PartCommand(c.b, c.lst) /\ a.from = Before(c) /\ a.bits = c.lst - 1
        /\ a.bytes = 1 /\ a.answers = Wholes(c) /\ a.rest = LastSteps(c) /\ a.kind = "part"
    BY <1>2 DEF PartAsk
  <2>2. a.cmd \in Seq(Byte) /\ a.rest \in Seq(Step)
    BY <1>2, <2>1, CommandTypes, StepsType, Zenon
  <2>3. k < n /\ k + (l - 1) <= n /\ k + (l - 1) # n /\ l - 1 \in Nat
        /\ 1 \in Nat \ {0} /\ "part" # "last"
    BY <1>4
  <2> QED BY <1>4, <1>5, <2>1, <2>2, <2>3, Zenon
<1>3. CASE a = LastAsk(c) /\ LastOut(c.b, c.lst) <= 255
  <2>1. a.cmd = LastCommand(c.b, c.lst) /\ a.from = Bits(c) - 1 /\ a.bits = 1
        /\ a.bytes = 1 /\ a.answers = Wholes(c) + Parts(c) /\ a.rest = <<>> /\ a.kind = "last"
    BY <1>3 DEF LastAsk
  <2>2. a.cmd \in Seq(Byte) /\ a.rest \in Seq(Step)
    <3>1. <<>> \in Seq(Step)
      OBVIOUS
    <3> QED BY <1>3, <2>1, <3>1, CommandTypes, Zenon
  <2>3. n - 1 < n /\ (n - 1) + 1 <= n /\ (n - 1) + 1 = n /\ n - 1 \in Nat
        /\ 1 \in Nat \ {0} /\ 1 \in Nat
    BY <1>4
  <2> QED BY <1>4, <1>5, <2>1, <2>2, <2>3, Zenon
<1> QED BY <1>1, <1>2, <1>3, AskForms, ZenonT(60)

\* What Continues says of the questions that come.
LEMMA Questions ==
    ASSUME NEW c \in ProperCall
    PROVE  /\ Continues(c, Bits(c) - 1, Wholes(c) + Parts(c), LastSteps(c))
           /\ Continues(c, Before(c), Wholes(c), PartSteps(c))
           /\ Continues(c, 0, 0, AllSteps(c))
<1>0. /\ c.lst \in 1 .. 8 /\ Bits(c) = Before(c) + c.lst /\ Before(c) \in Nat
      /\ Len(c.b) \in Nat \ {0}
  BY ProperType
<1>1. Continues(c, Bits(c) - 1, Wholes(c) + Parts(c), LastSteps(c))
  <2>1. CASE LastOut(c.b, c.lst) > 255
    BY <2>1, StepsType, Zenon DEF Continues
  <2>2. CASE ~ (LastOut(c.b, c.lst) > 255)
    <3>1. LastAsk(c) \in Asks(c)
      BY <2>2, Zenon DEF Asks
    <3>2. LastAsk(c).from = Bits(c) - 1 /\ LastAsk(c).answers = Wholes(c) + Parts(c)
      BY DEF LastAsk
    <3>3. LastSteps(c) = AskSteps(LastAsk(c))
      BY <2>2, StepsType, Zenon
    <3> QED BY <3>1, <3>2, <3>3, Zenon DEF Continues
  <2> QED BY <2>1, <2>2
<1>2. Continues(c, Before(c), Wholes(c), PartSteps(c))
  <2>1. CASE c.lst > 1
    <3>1. PartAsk(c) \in Asks(c)
      BY <2>1, Zenon DEF Asks
    <3>2. PartAsk(c).from = Before(c) /\ PartAsk(c).answers = Wholes(c)
      BY DEF PartAsk
    <3>3. PartSteps(c) = AskSteps(PartAsk(c))
      BY <2>1, StepsType, Zenon
    <3> QED BY <3>1, <3>2, <3>3, Zenon DEF Continues
  <2>2. CASE ~ (c.lst > 1)
    <3>1. Bits(c) - 1 = Before(c) /\ Wholes(c) + Parts(c) = Wholes(c)
      BY <1>0, <2>2 DEF Wholes, Parts
    <3>2. PartSteps(c) = LastSteps(c)
      BY <2>2, StepsType, Zenon
    <3> QED BY <1>1, <3>1, <3>2, Zenon
  <2> QED BY <2>1, <2>2
<1>3. Continues(c, 0, 0, AllSteps(c))
  <2>1. CASE Len(c.b) > 1
    <3>1. WholeAsk(c) \in Asks(c)
      BY <2>1, Zenon DEF Asks
    <3>2. WholeAsk(c).from = 0 /\ WholeAsk(c).answers = 0
      BY DEF WholeAsk
    <3>3. AllSteps(c) = AskSteps(WholeAsk(c))
      BY <2>1, StepsType, Zenon
    <3> QED BY <3>1, <3>2, <3>3, Zenon DEF Continues
  <2>2. CASE ~ (Len(c.b) > 1)
    <3>1. Before(c) = 0 /\ Wholes(c) = 0
      <4>1. \A n \in Nat \ {0} : ~ (n > 1) => 8 * (n - 1) = 0
        OBVIOUS
      <4> QED BY <1>0, <2>2, <4>1, Zenon DEF Wholes, Before
    <3>2. AllSteps(c) = PartSteps(c)
      BY <2>2, StepsType, Zenon
    <3> QED BY <1>2, <3>1, <3>2, Zenon
  <2> QED BY <2>1, <2>2
<1> QED BY <1>1, <1>2, <1>3

\* Once a question is answered, what is left continues from there.
LEMMA AskContinues ==
    ASSUME NEW c \in ProperCall, NEW a \in Asks(c)
    PROVE  Continues(c, a.from + a.bits, a.answers + 1, a.rest)
<1>0. /\ c.lst \in 1 .. 8 /\ Bits(c) = Before(c) + c.lst /\ Before(c) \in Nat
  BY ProperType
<1>1. CASE a = WholeAsk(c) /\ Len(c.b) > 1
  <2>1. a.from = 0 /\ a.bits = Before(c) /\ a.answers = 0 /\ a.rest = PartSteps(c)
    BY <1>1 DEF WholeAsk
  <2>2. Wholes(c) = 1
    BY <1>1, Zenon DEF Wholes
  <2>3. a.from + a.bits = Before(c) /\ a.answers + 1 = Wholes(c)
    BY <1>0, <2>1, <2>2
  <2> QED BY <2>1, <2>3, Questions, Zenon
<1>2. CASE a = PartAsk(c) /\ c.lst > 1
  <2>1. a.from = Before(c) /\ a.bits = c.lst - 1 /\ a.answers = Wholes(c)
        /\ a.rest = LastSteps(c)
    BY <1>2 DEF PartAsk
  <2>2. Parts(c) = 1
    BY <1>2, Zenon DEF Parts
  <2>3. a.from + a.bits = Bits(c) - 1 /\ a.answers + 1 = Wholes(c) + Parts(c)
    BY <1>0, <2>1, <2>2
  <2> QED BY <2>1, <2>3, Questions, Zenon
<1>3. CASE a = LastAsk(c) /\ LastOut(c.b, c.lst) <= 255
  <2>1. a.from = Bits(c) - 1 /\ a.bits = 1 /\ a.answers = Wholes(c) + Parts(c) /\ a.rest = <<>>
    BY <1>3 DEF LastAsk
  <2>2. a.from + a.bits = Bits(c) /\ a.answers + 1 = Wholes(c) + Parts(c) + 1
    BY <1>0, <2>1
  <2> QED BY <2>1, <2>2, Zenon DEF Continues
<1> QED BY <1>1, <1>2, <1>3, AskForms, ZenonT(60)

-----------------------------------------------------------------------------
(* What a question makes of the port. *)

\* The j-th bit a shift puts in; the bits that came out from the one after from on.
InBit(c, j) == BitOf(c.b[((j - 1) \div 8) + 1], (j - 1) % 8)
OutBits(shifted, from, n) == [i \in 1 .. n |-> shifted[from + i].tdo]

\* The answer to command s.
Reply(s, e) == IF Head(s) \in BitOps THEN BitReply(e.reply) ELSE e.reply

\* The device takes the question whole and answers.
Taken(a) ==
    /\ Head(a.cmd) \in Shifts /\ Reads(Head(a.cmd)) /\ Head(a.cmd) # \h4b
    /\ Complete(a.cmd) /\ CommandLen(a.cmd) = Len(a.cmd)

\* As many bytes come as are read; out of a shift state the bits go in that are due, and
\* those that came out are in the answer; after the last one the TAP is idle.
Made(c, a, p, e) ==
    /\ e.port \in LivePort /\ e.port.source = p.source /\ e.trace \in Seq(ShiftBit)
    /\ Reply(a.cmd, e) \in Seq(Byte) /\ Len(Reply(a.cmd, e)) = a.bytes
    /\ p.tap \in Shifting =>
         /\ e.port.tap = (IF a.kind = "last" THEN "RunTestIdle" ELSE p.tap)
         /\ Len(e.trace) = a.bits
         /\ \A i \in 1 .. a.bits : e.trace[i].tdi = InBit(c, a.from + i)
         /\ a.kind # "last" => Hold(Reply(a.cmd, e), OutBits(e.trace, 0, a.bits))

\* What the firmware makes of such a message: a reply for all its pulses.
Answered(p, m, e, n, r) ==
    /\ e.port \in LivePort /\ e.port.source = p.source /\ e.trace \in Seq(ShiftBit)
    /\ e.reply \in Seq(Byte) /\ Len(e.reply) = r
    /\ p.tap \in Shifting /\ m.cmd = CmdJtag => Hold(e.reply, OutBits(e.trace, 0, n))

\* The message of a question gets such a reply.
LEMMA Answering ==
    ASSUME NEW p \in LivePort, p.source = "jtag", NEW m \in Exchanged, NEW n \in Nat, NEW r \in Nat,
           m.cmd \in {CmdJtag, CmdJtag + CmdTms}, Len(PulsesOf(m)) = n, r = (n + 7) \div 8,
           m.want >= r, NEW e \in Performed(p, m)
    PROVE  Answered(p, m, e, n, r)
<1> DEFINE tdo == ShiftOut(p, PulsesOf(m)).tdo
<1>1. ~ SetsPins(m) /\ ~ Bangs(m) /\ CmdJtag # CmdJtag + CmdTms
  BY DEF SetsPins, Bangs, CmdJtag, CmdTms, CmdBB, CmdBBSpi
<1>2. e.port \in LivePort /\ e.port.source = p.source /\ e.trace \in Seq(ShiftBit)
  BY <1>1, PerformedType, ZenonT(60)
<1>3. tdo \in Seq(Bit) /\ Len(tdo) = n /\ Hold(e.reply, tdo)
  BY ShiftReply
<1>4. ASSUME p.tap \in Shifting, m.cmd = CmdJtag
      PROVE  \A i \in 1 .. n : e.trace[i].tdo = tdo[i]
  BY <1>1, <1>4, ShiftsOut
<1> HIDE DEF tdo
<1>5. e.reply \in Seq(Byte) /\ Len(e.reply) = r
  BY <1>3 DEF Hold, Byte
<1>6. ASSUME p.tap \in Shifting, m.cmd = CmdJtag
      PROVE  Hold(e.reply, OutBits(e.trace, 0, n))
  <2>1. \A i \in 1 .. n : e.trace[0 + i].tdo = tdo[i]
    <3>1. \A i \in 1 .. n : 0 + i = i
      OBVIOUS
    <3> QED BY <1>4, <1>6, <3>1, Zenon
  <2>2. tdo = [i \in 1 .. n |-> tdo[i]]
    BY <1>3
  <2>3. OutBits(e.trace, 0, n) = [i \in 1 .. n |-> tdo[i]]
    BY <2>1, Zenon DEF OutBits
  <2> QED BY <1>3, <2>2, <2>3, Zenon
<1> QED BY <1>2, <1>5, <1>6, Zenon DEF Answered

\* All bytes but the last: eight bits each.
LEMMA WholeMakes ==
    ASSUME NEW c \in ProperCall, NEW a, a = WholeAsk(c), Len(c.b) > 1,
           NEW p \in LivePort, p.source = "jtag", NEW e \in Performed(p, AdapterMessage(a.cmd))
    PROVE  Taken(a) /\ Made(c, a, p, e)
<1> DEFINE t == ButLast(c.b)
<1> DEFINE m == AdapterMessage(a.cmd)
<1>0. c.b \in Seq(Byte) /\ Short(c.b) /\ Before(c) = 8 * (Len(c.b) - 1)
  BY ProperType DEF Before
<1>1. PICK r \in Nat \ {0} : Len(c.b) = r + 1 /\ Len(c.b) - 1 = r
  <2>1. \A k \in Nat : k > 1 => \E r \in Nat \ {0} : k = r + 1 /\ k - 1 = r
    BY SMT
  <2>2. Len(c.b) \in Nat
    BY <1>0
  <2> QED BY <2>1, <2>2
<1>2. /\ a.cmd = WholeCommand(c.b) /\ a.from = 0 /\ a.bits = 8 * r /\ a.bytes = r
      /\ a.kind = "whole"
  BY <1>0, <1>1 DEF WholeAsk, ReadCount
<1>3. /\ Head(a.cmd) \in Shifts /\ Head(a.cmd) \notin BitOps /\ Reads(Head(a.cmd))
      /\ Complete(a.cmd) /\ CommandLen(a.cmd) = Len(a.cmd)
      /\ m = [cmd |-> CmdJtag, len |-> 7, tx |-> t, want |-> r]
  BY <1>0, <1>1, <1>2, WholeMessage, Zenon
<1>4. Taken(a)
  <2>1. Head(a.cmd) # \h4b
    <3>1. \h4b \in BitOps
      BY OpClasses
    <3> QED BY <1>3, <3>1, Zenon
  <2> QED BY <1>3, <2>1, Zenon DEF Taken
<1>5. t \in Seq(Byte) /\ Len(t) = r /\ \A i \in 1 .. r : t[i] = c.b[i]
  BY <1>0, <1>1, ButLastType, Zenon
<1> HIDE DEF t, m
<1>6. m \in Exchanged /\ m.cmd = CmdJtag /\ m.tx = t /\ m.len = 7 /\ m.want = r
  BY <1>3, <1>5 DEF Exchanged, CmdJtag, Byte
<1>7. Len(PulsesOf(m)) = 8 * r
      /\ \A i \in 1 .. 8 * r : PulsesOf(m)[i].tdi = BitOf(t[((i - 1) \div 8) + 1], (i - 1) % 8)
  <2>1. t # <<>> /\ m.cmd \in {CmdJtag, CmdJtag + CmdTdiWO}
    BY <1>5, <1>6
  <2>2. 8 * (r - 1) + (7 % 8) + 1 = 8 * r
    OBVIOUS
  <2> QED BY <1>5, <1>6, <2>1, <2>2, WrittenPulses, Zenon
<1>8. Answered(p, m, e, 8 * r, r)
  <2>1. 8 * r \in Nat /\ r \in Nat /\ r = (8 * r + 7) \div 8 /\ r >= r
    OBVIOUS
  <2>2. m.cmd \in {CmdJtag, CmdJtag + CmdTms}
    BY <1>6
  <2> QED BY <1>6, <1>7, <2>1, <2>2, Answering, Zenon DEF m
<1>9. Reply(a.cmd, e) = e.reply
  BY <1>3, Zenon DEF Reply
<1>10. ASSUME p.tap \in Shifting
       PROVE  /\ e.port.tap = p.tap /\ Len(e.trace) = 8 * r
              /\ \A i \in 1 .. 8 * r : e.trace[i].tdi = InBit(c, 0 + i)
  <2>1. m.cmd # CmdJtag + CmdTms /\ ~ SetsPins(m) /\ ~ Bangs(m)
    BY <1>6 DEF SetsPins, Bangs, CmdJtag, CmdTms, CmdBB, CmdBBSpi
  <2>2. e.port.tap = p.tap /\ Len(e.trace) = Len(PulsesOf(m))
        /\ \A i \in 1 .. Len(PulsesOf(m)) : e.trace[i].tdi = PulsesOf(m)[i].tdi
    BY <1>6, <1>10, <2>1, ShiftsIn, Zenon DEF m
  <2>3. ASSUME NEW i \in 1 .. 8 * r PROVE e.trace[i].tdi = InBit(c, 0 + i)
    <3>1. e.trace[i].tdi = BitOf(t[((i - 1) \div 8) + 1], (i - 1) % 8)
      BY <1>7, <2>2, Zenon
    <3>2. ((i - 1) \div 8) + 1 \in 1 .. r /\ 0 + i = i
      OBVIOUS
    <3>3. t[((i - 1) \div 8) + 1] = c.b[((i - 1) \div 8) + 1]
      BY <1>5, <3>2, Zenon
    <3> QED BY <3>1, <3>2, <3>3, Zenon DEF InBit
  <2> QED BY <1>7, <2>2, <2>3, Zenon
<1>11. a.kind # "last"
  BY <1>2
<1>12. Made(c, a, p, e)
  BY <1>2, <1>6, <1>8, <1>9, <1>10, <1>11, Zenon DEF Made, Answered
<1> QED BY <1>4, <1>12

\* A reply of one byte is the answer.
LEMMA OneByteReply ==
    ASSUME NEW s, Head(s) \in BitOps, NEW e, e.reply \in Seq(Byte), Len(e.reply) = 1
    PROVE  Reply(s, e) = e.reply
<1>1. \A r \in Seq(Byte) : Len(r) = 1 => BitReply(r) = r
  <2> TAKE r \in Seq(Byte)
  <2>1. ASSUME Len(r) = 1 PROVE <<Head(r)>> = r /\ r # <<>>
    <3> DEFINE q == <<Head(r)>>
    <3>1. r # <<>> /\ Head(r) = r[1] /\ r[1] \in Byte
      <4>1. 1 \in 1 .. Len(r) /\ r # <<>>
        BY <2>1
      <4> QED BY <4>1, ElementOfSeq, HeadTailProperties
    <3>2. q \in Seq(Byte) /\ Len(q) = 1 /\ q[1] = r[1]
      BY <3>1
    <3> HIDE DEF q
    <3>3. q = r
      BY <2>1, <3>2, SeqEqual
    <3> QED BY <3>1, <3>3 DEF q
  <2> QED BY <2>1, Zenon DEF BitReply
<1> QED BY <1>1, Zenon DEF Reply

\* The bits of the last byte but the last.
LEMMA PartMakes ==
    ASSUME NEW c \in ProperCall, NEW a, a = PartAsk(c), c.lst > 1,
           NEW p \in LivePort, p.source = "jtag", NEW e \in Performed(p, AdapterMessage(a.cmd))
    PROVE  Taken(a) /\ Made(c, a, p, e)
<1> DEFINE m == AdapterMessage(a.cmd)
<1> DEFINE x == LastByte(c.b)
<1>0. x \in Byte /\ c.lst \in 1 .. 8 /\ Before(c) = 8 * (Len(c.b) - 1) /\ Len(c.b) \in Nat \ {0}
  BY ProperType DEF Before
<1>1. PICK k \in Nat, n \in 1 .. 7 : Len(c.b) = k + 1 /\ Before(c) = 8 * k /\ n = c.lst - 1
                                     /\ BitsField(c.lst) = n - 1
  <2>1. \A len \in Nat \ {0} : \E k \in Nat : len = k + 1 /\ 8 * (len - 1) = 8 * k
    <3>1. \A len \in Nat \ {0} : len - 1 \in Nat /\ len = (len - 1) + 1
      OBVIOUS
    <3> QED BY <3>1, Zenon
  <2>2. PICK k \in Nat : Len(c.b) = k + 1 /\ Before(c) = 8 * k
    BY <1>0, <2>1, Zenon
  <2>3. c.lst - 1 \in 1 .. 7 /\ BitsField(c.lst) = (c.lst - 1) - 1
    BY <1>0 DEF BitsField
  <2> QED BY <2>2, <2>3, Zenon
<1>2. /\ a.cmd = <<\h3b, n - 1, x>> /\ a.from = 8 * k /\ a.bits = n /\ a.bytes = 1
      /\ a.kind = "part"
  BY <1>1 DEF PartAsk, PartCommand
<1>3. a.cmd \in Seq(Byte) /\ Len(a.cmd) = 3 /\ a.cmd[1] = \h3b /\ a.cmd[2] = n - 1
      /\ a.cmd[3] = x
  <2>1. a.cmd \in Seq(Byte)
    BY CommandTypes, Zenon DEF PartAsk
  <2> QED BY <1>2, <2>1
<1> HIDE DEF x
<1>4. /\ Head(a.cmd) = \h3b /\ Head(a.cmd) \in Shifts /\ Head(a.cmd) \in BitOps
      /\ Complete(a.cmd) /\ CommandLen(a.cmd) = Len(a.cmd)
  <2>1. Len(a.cmd) >= 3
    BY <1>3
  <2> QED BY <1>3, <2>1, BitCommand
<1>5. Taken(a)
  <2>1. \h3b # \h4b
    OBVIOUS
  <2>2. Reads(\h3b)
    BY OpClasses
  <2> QED BY <1>4, <2>1, <2>2, Zenon DEF Taken
<1>6. m = [cmd |-> CmdJtag, len |-> n - 1, tx |-> <<x>>, want |-> 1]
  <2>1. Len(a.cmd) >= 3 /\ n - 1 \in 0 .. 6
    BY <1>3
  <2> QED BY <1>0, <1>3, <2>1, PartMessage, Zenon
<1> HIDE DEF m
<1>7. m \in Exchanged /\ m.cmd = CmdJtag /\ m.tx = <<x>> /\ m.len = n - 1 /\ m.want = 1
  <2>1. <<x>> \in Seq(0 .. 255) /\ n - 1 \in 0 .. 255
    BY <1>0 DEF Byte
  <2> QED BY <1>6, <2>1 DEF Exchanged, CmdJtag
<1>8. Len(PulsesOf(m)) = n /\ \A i \in 1 .. n : PulsesOf(m)[i].tdi = BitOf(x, i - 1)
  <2>1. m.tx # <<>> /\ Len(m.tx) = 1 /\ m.tx[1] = x /\ m.cmd \in {CmdJtag, CmdJtag + CmdTdiWO}
    BY <1>7
  <2>2. 8 * (1 - 1) + ((n - 1) % 8) + 1 = n
    OBVIOUS
  <2>3. Len(PulsesOf(m)) = n
        /\ \A i \in 1 .. n : PulsesOf(m)[i].tdi = BitOf(m.tx[((i - 1) \div 8) + 1], (i - 1) % 8)
    BY <1>7, <2>1, <2>2, WrittenPulses, Zenon
  <2>4. ASSUME NEW i \in 1 .. n PROVE PulsesOf(m)[i].tdi = BitOf(x, i - 1)
    <3>1. (i - 1) \div 8 = 0 /\ (i - 1) % 8 = i - 1 /\ 0 + 1 = 1
      OBVIOUS
    <3> QED BY <2>1, <2>3, <3>1, Zenon
  <2> QED BY <2>3, <2>4, Zenon
<1>9. Answered(p, m, e, n, 1)
  <2>1. n \in Nat /\ 1 \in Nat /\ 1 = (n + 7) \div 8 /\ 1 >= 1
    OBVIOUS
  <2>2. m.cmd \in {CmdJtag, CmdJtag + CmdTms}
    BY <1>7
  <2> QED BY <1>7, <1>8, <2>1, <2>2, Answering, Zenon DEF m
<1>10. Reply(a.cmd, e) = e.reply
  <2>1. e.reply \in Seq(Byte) /\ Len(e.reply) = 1
    BY <1>9, Zenon DEF Answered
  <2>2. Head(a.cmd) \in BitOps
    BY <1>4
  <2> QED BY <2>1, <2>2, OneByteReply
<1>11. ASSUME p.tap \in Shifting
       PROVE  /\ e.port.tap = p.tap /\ Len(e.trace) = n
              /\ \A i \in 1 .. n : e.trace[i].tdi = InBit(c, 8 * k + i)
  <2>1. m.cmd # CmdJtag + CmdTms /\ ~ SetsPins(m) /\ ~ Bangs(m)
    BY <1>7 DEF SetsPins, Bangs, CmdJtag, CmdTms, CmdBB, CmdBBSpi
  <2>2. e.port.tap = p.tap /\ Len(e.trace) = Len(PulsesOf(m))
        /\ \A i \in 1 .. Len(PulsesOf(m)) : e.trace[i].tdi = PulsesOf(m)[i].tdi
    BY <1>7, <1>11, <2>1, ShiftsIn, Zenon DEF m
  <2>3. ASSUME NEW i \in 1 .. n PROVE e.trace[i].tdi = InBit(c, 8 * k + i)
    <3>1. e.trace[i].tdi = BitOf(x, i - 1)
      BY <1>8, <2>2, Zenon
    <3>2. (((8 * k + i) - 1) \div 8) + 1 = k + 1 /\ ((8 * k + i) - 1) % 8 = i - 1
      OBVIOUS
    <3>3. x = c.b[k + 1]
      BY <1>1, Zenon DEF x, LastByte
    <3> QED BY <3>1, <3>2, <3>3, Zenon DEF InBit
  <2> QED BY <1>8, <2>2, <2>3, Zenon
<1>12. a.kind # "last"
  BY <1>2
<1>13. Made(c, a, p, e)
  BY <1>2, <1>7, <1>9, <1>10, <1>11, <1>12, Zenon DEF Made, Answered
<1> QED BY <1>5, <1>13

\* The last bit, with TMS high: two clocks later the TAP is idle.
LEMMA LastMakes ==
    ASSUME NEW c \in ProperCall, NEW a, a = LastAsk(c), LastOut(c.b, c.lst) <= 255,
           NEW p \in LivePort, p.source = "jtag", NEW e \in Performed(p, AdapterMessage(a.cmd))
    PROVE  Taken(a) /\ Made(c, a, p, e)
<1> DEFINE m == AdapterMessage(a.cmd)
<1> DEFINE x == LastOut(c.b, c.lst) + 3
<1> DEFINE high == IF x >= 128 THEN 128 ELSE 0
<1>0. /\ c.lst \in 1 .. 8 /\ Before(c) = 8 * (Len(c.b) - 1) /\ Len(c.b) \in Nat \ {0}
      /\ Bits(c) = Before(c) + c.lst
  BY ProperType DEF Before
<1>1. PICK k \in Nat, n \in 0 .. 7 : Len(c.b) = k + 1 /\ n = c.lst - 1 /\ Bits(c) - 1 = 8 * k + n
  <2>1. \A len \in Nat \ {0}, l \in 1 .. 8 :
          /\ len - 1 \in Nat /\ l - 1 \in 0 .. 7 /\ len = (len - 1) + 1
          /\ (8 * (len - 1) + l) - 1 = 8 * (len - 1) + (l - 1)
    OBVIOUS
  <2>2. /\ Len(c.b) - 1 \in Nat /\ c.lst - 1 \in 0 .. 7 /\ Len(c.b) = (Len(c.b) - 1) + 1
        /\ (8 * (Len(c.b) - 1) + c.lst) - 1 = 8 * (Len(c.b) - 1) + (c.lst - 1)
    BY <1>0, <2>1, ZenonT(60)
  <2>3. Bits(c) - 1 = 8 * (Len(c.b) - 1) + (c.lst - 1)
    BY <1>0, <2>2, Zenon
  <2> QED BY <2>2, <2>3, Zenon
<1>2. \/ x = 3 /\ BitOf(LastByte(c.b), n) = 0
      \/ x = 131 /\ BitOf(LastByte(c.b), n) = 1
  BY <1>1, LastOutType
<1>3. /\ a.cmd = <<\h6b, 2, x>> /\ a.from = 8 * k + n /\ a.bits = 1 /\ a.bytes = 1
      /\ a.kind = "last"
  BY <1>1 DEF LastAsk, LastCommand
<1> HIDE DEF x
<1>4. a.cmd \in Seq(Byte) /\ Len(a.cmd) = 3 /\ a.cmd[1] = \h6b /\ a.cmd[2] = 2
      /\ a.cmd[3] = x
  <2>1. a.cmd \in Seq(Byte)
    BY CommandTypes, Zenon DEF LastAsk
  <2> QED BY <1>3, <2>1
<1>5. /\ Head(a.cmd) = \h6b /\ Head(a.cmd) \in Shifts /\ Head(a.cmd) \in BitOps
      /\ Complete(a.cmd) /\ CommandLen(a.cmd) = Len(a.cmd)
  <2>1. Len(a.cmd) >= 3
    BY <1>4
  <2> QED BY <1>4, <2>1, BitCommand
<1>6. Taken(a)
  <2>1. \h6b # \h4b
    OBVIOUS
  <2>2. Reads(\h6b)
    BY OpClasses
  <2> QED BY <1>5, <2>1, <2>2, ZenonT(60) DEF Taken
<1>7. x \in Byte
  BY <1>2 DEF Byte
<1>8. m = [cmd |-> CmdJtag + CmdTms, len |-> 2 + high, tx |-> <<x>>, want |-> 1]
  <2>1. Len(a.cmd) >= 3
    BY <1>4
  <2> QED BY <1>4, <1>7, <2>1, LastMessage, ZenonT(60)
<1>9. BitOf(x, 0) = 1 /\ BitOf(x, 1) = 1 /\ BitOf(x, 2) = 0
  BY <1>2, Powers DEF BitOf
<1>10. /\ 2 + high \in 0 .. 255 /\ (2 + high) % 8 = 2
       /\ (IF 2 + high >= TmsTdiHi THEN 1 ELSE 0) = BitOf(LastByte(c.b), n)
  <2>1. CASE x = 3 /\ BitOf(LastByte(c.b), n) = 0
    BY <2>1 DEF TmsTdiHi
  <2>2. CASE x = 131 /\ BitOf(LastByte(c.b), n) = 1
    BY <2>2 DEF TmsTdiHi
  <2> QED BY <1>2, <2>1, <2>2
<1> HIDE DEF m, high
<1>11. m \in Exchanged /\ m.cmd = CmdJtag + CmdTms /\ m.tx = <<x>> /\ m.len = 2 + high /\ m.want = 1
  <2>1. <<x>> \in Seq(0 .. 255)
    BY <1>7 DEF Byte
  <2> QED BY <1>8, <1>10, <2>1 DEF Exchanged, CmdJtag, CmdTms
<1>12. x \in 0 .. 255 /\ 2 + 1 = 3 /\ 3 \in 1 .. 8
  BY <1>7 DEF Byte
<1>13. TmsMessage(m, x, 3)
  BY <1>10, <1>11, <1>12, Zenon DEF TmsMessage
<1>14. Len(PulsesOf(m)) = 3
  BY <1>10, <1>11, <1>12, TmsPulses, ZenonT(60) DEF TmsBits
<1>15. Answered(p, m, e, 3, 1)
  <2>1. 3 \in Nat /\ 1 \in Nat /\ 1 = (3 + 7) \div 8 /\ 1 >= 1
    OBVIOUS
  <2>2. m.cmd \in {CmdJtag, CmdJtag + CmdTms}
    BY <1>11
  <2> QED BY <1>11, <1>14, <2>1, <2>2, Answering, Zenon DEF m
<1>16. Reply(a.cmd, e) = e.reply
  <2>1. e.reply \in Seq(Byte) /\ Len(e.reply) = 1
    BY <1>15, Zenon DEF Answered
  <2>2. Head(a.cmd) \in BitOps
    BY <1>5
  <2> QED BY <2>1, <2>2, OneByteReply
<1>17. ASSUME p.tap \in Shifting
       PROVE  /\ e.port.tap = "RunTestIdle" /\ Len(e.trace) = 1
              /\ \A i \in 1 .. 1 : e.trace[i].tdi = InBit(c, (8 * k + n) + i)
  <2>1. /\ e.port.tap = "RunTestIdle" /\ Len(e.trace) = 1
        /\ e.trace[1].tdi = IF m.len >= TmsTdiHi THEN 1 ELSE 0
    BY <1>9, <1>13, <1>17, LeavesShift, ZenonT(60) DEF m
  <2>2. ASSUME NEW i \in 1 .. 1 PROVE e.trace[i].tdi = InBit(c, (8 * k + n) + i)
    <3>1. i = 1
      OBVIOUS
    <3>2. (((8 * k + n) + i) - 1) \div 8 + 1 = k + 1 /\ (((8 * k + n) + i) - 1) % 8 = n
      BY <3>1
    <3>3. LastByte(c.b) = c.b[k + 1]
      BY <1>1, Zenon DEF LastByte
    <3>4. e.trace[1].tdi = BitOf(LastByte(c.b), n)
      BY <1>10, <1>11, <2>1, Zenon
    <3> QED BY <3>1, <3>2, <3>3, <3>4, Zenon DEF InBit
  <2> QED BY <2>1, <2>2, Zenon
<1>18. Made(c, a, p, e)
  BY <1>3, <1>15, <1>16, <1>17, Zenon DEF Made, Answered
<1> QED BY <1>6, <1>18

\* Every question is taken and answered.
LEMMA AskMakes ==
    ASSUME NEW c \in ProperCall, NEW a \in Asks(c),
           NEW p \in LivePort, p.source = "jtag", NEW e \in Performed(p, AdapterMessage(a.cmd))
    PROVE  Taken(a) /\ Made(c, a, p, e)
BY AskForms, WholeMakes, PartMakes, LastMakes, ZenonT(60)

-----------------------------------------------------------------------------
(* What a call begins with. *)

\* A call of the script that shifts.
LEMMA ShiftsProper ==
    ASSUME ShortShifts, NEW c \in Calls, c.op # "toRTI"
    PROVE  c \in ProperCall
BY CallsAssumption DEF ShortShifts, ProperCall

\* First a path is written, for a shift its questions follow.
LEMMA StartSteps ==
    ASSUME ShortShifts, NEW c \in Calls
    PROVE  \E path \in Paths, rest \in Seq(Step) :
             /\ Steps(c) = <<WriteStep(path)>> \o rest
             /\ c.op = "toRTI" => path = IdlePath /\ rest = <<>>
             /\ c.op # "toRTI" => rest = AllSteps(c)
<1>0. IdlePath \in Paths /\ IRPath \in Paths /\ DRPath \in Paths
  BY DEF Paths
<1>1. CASE c.op = "toRTI"
  <2> DEFINE x == WriteStep(IdlePath)
  <2>1. Steps(c) = <<x>>
    BY <1>1, Zenon DEF Steps
  <2>2. x \in Step
    BY <1>0, PathForms, StepForms, Zenon
  <2> HIDE DEF x
  <2>3. <<x>> = <<x>> \o <<>> /\ <<>> \in Seq(Step)
    BY <2>2
  <2> QED BY <1>0, <1>1, <2>1, <2>3, Zenon DEF x
<1>2. CASE c.op # "toRTI"
  <2>1. c \in ProperCall
    BY <1>2, ShiftsProper
  <2>2. c.op \in {"shiftIR", "shiftDR"} /\ c.b \in Seq(Byte) /\ Len(c.b) \in Nat \ {0}
    BY <2>1, ProperType
  <2>3. PICK path \in Paths : Steps(c) = ShiftSteps(path, c.b, c.lst)
    <3>1. "shiftIR" # "toRTI" /\ "shiftDR" # "toRTI" /\ "shiftIR" # "shiftDR"
      OBVIOUS
    <3>2. CASE c.op = "shiftIR"
      <4>1. Steps(c) = ShiftSteps(IRPath, c.b, c.lst)
        BY <3>1, <3>2, SMT DEF Steps
      <4> QED BY <1>0, <4>1
    <3>3. CASE c.op = "shiftDR"
      <4>1. Steps(c) = ShiftSteps(DRPath, c.b, c.lst)
        BY <3>1, <3>3, SMT DEF Steps
      <4> QED BY <1>0, <4>1
    <3> QED BY <2>2, <3>2, <3>3
  <2> DEFINE x == <<WriteStep(path)>>
  <2> DEFINE w == WholeBytes(c.b)
  <2> DEFINE p == PartByte(c.b, c.lst)
  <2> DEFINE l == LastBit(c.b, c.lst)
  <2>4. x \in Seq(Step)
    <3>1. WriteStep(path) \in Step
      BY PathForms, StepForms, Zenon
    <3> QED BY <3>1
  <2>5. \A y, z \in Step : <<y, z>> \in Seq(Step)
    OBVIOUS
  <2>6. \A n \in Nat \ {0} : n > 1 \/ n = 1
    OBVIOUS
  <2>7. ReadStep(1) \in Step /\ <<>> \in Seq(Step)
    BY StepForms
  <2>8. w \in Seq(Step)
    <3>1. CASE Len(c.b) = 1
      BY <2>7, <3>1, Zenon DEF WholeBytes
    <3>2. CASE Len(c.b) # 1
      <4>1. WholeCommand(c.b) \in Seq(Byte) /\ ReadCount(c.b) \in Nat
        <5>1. \A n \in Nat \ {0} : n - 1 \in Nat
          OBVIOUS
        <5> QED BY <2>1, <2>2, <2>6, <3>2, <5>1, CommandTypes, Zenon DEF ReadCount
      <4>2. WriteStep(WholeCommand(c.b)) \in Step /\ ReadStep(ReadCount(c.b)) \in Step
        BY <4>1, StepForms, Zenon
      <4> QED BY <2>5, <3>2, <4>2, ZenonT(60) DEF WholeBytes, WholeCommand
    <3> QED BY <3>1, <3>2
  <2>9. p \in Seq(Step)
    <3>1. CASE c.lst = 1
      BY <2>7, <3>1, Zenon DEF PartByte
    <3>2. CASE c.lst # 1
      <4>1. c.lst > 1
        BY <2>1, <3>2, ProperType
      <4>2. WriteStep(PartCommand(c.b, c.lst)) \in Step
        BY <2>1, <4>1, CommandTypes, StepForms, Zenon
      <4> QED BY <2>5, <2>7, <3>2, <4>2, Zenon DEF PartByte, PartCommand
    <3> QED BY <3>1, <3>2
  <2>10. l \in Seq(Step) /\ AllSteps(c) \in Seq(Step) /\ AllSteps(c) = w \o (p \o l)
    BY <2>1, StepsType, Zenon DEF LastSteps, AllSteps, PartSteps
  <2>11. Steps(c) = ((x \o w) \o p) \o l
    BY <2>3, Zenon DEF ShiftSteps
  <2> HIDE DEF x, w, p, l
  <2>12. ((x \o w) \o p) \o l = x \o (w \o (p \o l))
    <3>1. x \o w \in Seq(Step) /\ p \o l \in Seq(Step)
      BY <2>4, <2>8, <2>9, <2>10
    <3>2. \A r, s, t \in Seq(Step) : (r \o s) \o t = r \o (s \o t)
      BY ConcatTriple
    <3>3. ((x \o w) \o p) \o l = (x \o w) \o (p \o l)
      BY <2>9, <2>10, <3>1, <3>2, ZenonT(60)
    <3>4. (x \o w) \o (p \o l) = x \o (w \o (p \o l))
      BY <2>4, <2>8, <3>1, <3>2, Zenon
    <3> QED BY <3>3, <3>4, Zenon
  <2>13. Steps(c) = <<WriteStep(path)>> \o AllSteps(c)
    BY <2>10, <2>11, <2>12, Zenon DEF x
  <2> QED BY <1>2, <2>10, <2>13, Zenon
<1> QED BY <1>1, <1>2

\* Steps are left of a shift that has not put all bits in.
LEMMA AllStepsNonEmpty ==
    ASSUME NEW c \in ProperCall
    PROVE  AllSteps(c) # <<>>
<1>1. Continues(c, 0, 0, AllSteps(c)) /\ 0 # Bits(c)
  <2>1. 0 # Bits(c)
    <3>1. \A k \in Nat, l \in 1 .. 8 : 0 # k + l
      OBVIOUS
    <3> QED BY <3>1, ProperType, Zenon
  <2> QED BY <2>1, Questions, Zenon
<1>2. <<RaiseStep>> # <<>>
  OBVIOUS
<1>3. ASSUME NEW a \in Asks(c) PROVE AskSteps(a) # <<>>
  <2>1. a.rest \in Seq(Step) /\ a.cmd \in Seq(Byte) /\ a.bytes \in Nat
    BY AskType, Zenon
  <2>2. WriteStep(a.cmd) \in Step /\ ReadStep(a.bytes) \in Step
    BY <2>1, StepForms, Zenon
  <2>3. <<ReadStep(a.bytes)>> \o a.rest \in Seq(Step)
    BY <2>1, <2>2, Prefixed, Zenon
  <2>4. AskSteps(a) \in Seq(Step) /\ Len(AskSteps(a)) = Len(<<ReadStep(a.bytes)>> \o a.rest) + 1
    BY <2>2, <2>3, Prefixed, Zenon DEF AskSteps
  <2>5. \A s \in Seq(Step) : Len(s) + 1 # 0
    OBVIOUS
  <2>6. Len(<<>>) = 0
    OBVIOUS
  <2> QED BY <2>3, <2>4, <2>5, <2>6, Zenon
<1> QED BY <1>1, <1>2, <1>3, Zenon DEF Continues

-----------------------------------------------------------------------------
(* The inductive invariant. *)

\* The first n bits of the shift are in; the TAP is where the shift found it, or idle once
\* they are all.
PutIn(c, n, shifted) == Len(shifted) = n /\ \A i \in 1 .. n : shifted[i].tdi = InBit(c, i)
Reached(c, n, begun, tap, shifted) ==
    begun \in Shifting =>
      tap = (IF n = Bits(c) THEN "RunTestIdle" ELSE begun) /\ PutIn(c, n, shifted)
Shifted(c, n) == Reached(c, n, start, port.tap, trace)

\* What came for a question of a shift that began at begun, and for each of those before.
Answer(a, bytes, begun, shifted) ==
    /\ bytes \in Seq(Byte) /\ Len(bytes) = a.bytes
    /\ begun \in Shifting /\ a.kind # "last" => Hold(bytes, OutBits(shifted, a.from, a.bits))
Had(c, h, got, begun, shifted) ==
    /\ Len(got) = h
    /\ \A a \in Asks(c) : a.answers < h => Answer(a, got[a.answers + 1], begun, shifted)
HadSoFar(c, h) == Had(c, h, reads, start, trace)

\* Nothing is asked: paths may be under way, but only before the first question.
Quiet(c, n, h) ==
    /\ toHost = <<>>
    /\ \E k : /\ Queue(toDevice, <<>>, k)
              /\ k # 0 => n = 0 /\ h = 0
              /\ k = 0 => Shifted(c, n)

\* A question is under way, or its answer.
Pending(c, a) ==
    /\ toHost = <<>>
    /\ \E k : /\ Queue(toDevice, a.cmd, k)
              /\ k # 0 => a.from = 0 /\ a.answers = 0
              /\ k = 0 => Shifted(c, a.from)
Arrived(c, a) == toDevice = <<>> /\ Answer(a, toHost, start, trace) /\ Shifted(c, a.from + a.bits)

OnlyPaths == toHost = <<>> /\ \E k : Queue(toDevice, <<>>, k)

Starting == steps = Steps(call) /\ reads = <<>> /\ OnlyPaths
Writing ==
    /\ call \in ProperCall /\ steps # <<>>
    /\ \E n, h : Continues(call, n, h, steps) /\ Quiet(call, n, h) /\ HadSoFar(call, h)
Awaiting ==
    /\ call \in ProperCall
    /\ \E a \in Asks(call) : /\ steps = <<ReadStep(a.bytes)>> \o a.rest
                             /\ HadSoFar(call, a.answers)
                             /\ Pending(call, a) \/ Arrived(call, a)

\* What a call leaves: the way to run-test-idle, or a shift that is complete.
WillIdle ==
    \/ \E k : Queue(toDevice, IdlePath, k)
    \/ toDevice = <<>> /\ port.tap = "RunTestIdle"
Complied ==
    /\ call \in ProperCall /\ toDevice = <<>> /\ Shifted(call, Bits(call))
    /\ LastOut(call.b, call.lst) <= 255 /\ HadSoFar(call, Wholes(call) + Parts(call) + 1)
    /\ result = Assembled(call, reads)
Returned == IF call.op = "toRTI" THEN WillIdle ELSE Complied

Typed ==
    /\ steps \in Seq(Step) /\ reads \in Seq(Seq(Byte)) /\ calls \in 0 .. MaxCalls
    /\ toDevice \in Seq(Byte) /\ toHost \in Seq(Byte) /\ result \in Seq(Byte)
    /\ port \in LivePort /\ port.source = "jtag"
    /\ start \in TapStates /\ trace \in Seq(ShiftBit)

Framed ==
    /\ Typed
    /\ status \in {"idle", "busy", "ok", "error"}
    /\ status = "busy" => call \in Calls /\ (Starting \/ Writing \/ Awaiting)
    /\ status # "busy" => steps = <<>> /\ OnlyPaths
    /\ status = "ok" => call \in Calls /\ Returned

-----------------------------------------------------------------------------
(* Steps of the device. *)

\* A command that is executed.
Executed(s, e) ==
    /\ toDevice' = Drop(s, CommandLen(s)) /\ port' = e.port
    /\ toHost' = (IF ~ Reads(Head(s)) THEN toHost ELSE toHost \o Reply(s, e))
    /\ start' = (IF Head(s) = \h4b THEN e.port.tap ELSE start)
    /\ trace' = (IF Head(s) = \h4b THEN <<>> ELSE trace \o e.trace)

ScriptRests == UNCHANGED <<call, calls, steps, reads, status, result>>

\* What Execute does with what is to be executed.
LEMMA ExecuteForms ==
    ASSUME Execute
    PROVE  /\ Complete(toDevice) /\ ScriptRests
           /\ \E e \in Performed(port, AdapterMessage(toDevice)) : Executed(toDevice, e)
BY Zenon DEF Execute, Executed, ScriptRests, Reply

\* A path is a command for TMS.
LEMMA PathTms ==
    ASSUME NEW s \in Seq(Byte), Len(s) >= 3, PathAt(s, 1)
    PROVE  /\ TmsMessage(AdapterMessage(s), s[3], s[2] + 1)
           /\ AdapterMessage(s) \in Exchanged /\ ~ SetsPins(AdapterMessage(s))
           /\ Head(s) = \h4b /\ ~ Reads(\h4b) /\ CommandLen(s) = 3
<1> DEFINE n == s[2]
<1> DEFINE b == s[3]
<1> DEFINE m == AdapterMessage(s)
<1>1. s[1] = \h4b /\ s[2] = n /\ s[3] = b /\ n \in 0 .. 7 /\ b \in 0 .. 127
  <2>1. 1 + 1 = 2 /\ 1 + 2 = 3
    OBVIOUS
  <2> QED BY <2>1, Zenon DEF PathAt
<1> HIDE DEF n, b
<1>2. m = [cmd |-> CmdJtag + CmdTms, len |-> n, tx |-> <<b>>, want |-> 1]
  BY <1>1, PathMessage, ZenonT(120)
<1>3. Head(s) = \h4b /\ CommandLen(s) = 3
  BY <1>1, BitCommand
<1>4. ~ Reads(\h4b)
  BY OpClasses
<1> HIDE DEF m
<1>5. m \in Exchanged /\ m.cmd = CmdJtag + CmdTms /\ m.len = n /\ m.tx = <<b>>
  <2>1. <<b>> \in Seq(0 .. 255) /\ n \in 0 .. 255
    BY <1>1
  <2> QED BY <1>2, <2>1 DEF Exchanged, CmdJtag, CmdTms
<1>6. ~ SetsPins(m)
  BY <1>5 DEF SetsPins, CmdJtag, CmdTms, CmdBB
<1>7. b \in 0 .. 255 /\ n + 1 = (n % 8) + 1 /\ n + 1 \in 1 .. 8
  BY <1>1
<1>8. TmsMessage(m, b, n + 1)
  BY <1>5, <1>7, Zenon DEF TmsMessage
<1> QED BY <1>1, <1>3, <1>4, <1>5, <1>6, <1>8, Zenon DEF m, n, b

\* A path is executed: the call's shift begins where it leads.
LEMMA PathStep ==
    ASSUME Typed, Execute, NEW c \in Seq(Byte), NEW k, Queue(toDevice, c, k), k # 0
    PROVE  /\ Queue(toDevice', c, k - 1) /\ ScriptRests /\ k - 1 \in Nat
           /\ port' \in LivePort /\ port'.source = "jtag"
           /\ toHost' = toHost /\ start' = port'.tap /\ start' \in TapStates /\ trace' = <<>>
           /\ TmsMessage(AdapterMessage(toDevice), toDevice[3], toDevice[2] + 1)
           /\ port' \in {e.port : e \in Performed(port, AdapterMessage(toDevice))}
<1> DEFINE s == toDevice
<1> DEFINE m == AdapterMessage(s)
<1>1. /\ s \in Seq(Byte) /\ Len(s) >= 3 /\ PathAt(s, 1) /\ Queue(Drop(s, 3), c, k - 1)
  BY QueueHead
<1>2. PICK e \in Performed(port, m) : Executed(s, e)
  BY ExecuteForms
<1>3. ScriptRests /\ k - 1 \in Nat
  BY ExecuteForms DEF Queue
<1>4. /\ TmsMessage(m, s[3], s[2] + 1) /\ m \in Exchanged /\ ~ SetsPins(m)
      /\ Head(s) = \h4b /\ ~ Reads(\h4b) /\ CommandLen(s) = 3
  BY <1>1, PathTms, ZenonT(60)
<1>5. port \in LivePort /\ port.source = "jtag"
  BY DEF Typed
<1>6. e.port \in LivePort /\ e.port.source = "jtag"
  BY <1>4, <1>5, PerformedType, ZenonT(60)
<1>7. e.port.tap \in TapStates
  BY <1>6 DEF LivePort, Port
<1>8. toDevice' = Drop(s, 3) /\ port' = e.port /\ toHost' = toHost /\ start' = e.port.tap
       /\ trace' = <<>>
  BY <1>2, <1>4, Zenon DEF Executed
<1>9. e \in Performed(port, AdapterMessage(toDevice))
  OBVIOUS
<1> QED BY <1>1, <1>3, <1>4, <1>6, <1>7, <1>8, <1>9, Zenon

\* The last of them leads to run-test-idle.
LEMMA IdleStep ==
    ASSUME Typed, Execute, toDevice = IdlePath
    PROVE  toDevice' = <<>> /\ port'.tap = "RunTestIdle"
<1>1. Queue(<<>>, <<>>, 0)
  BY QueueEmpty
<1>2. Queue(<<>> \o IdlePath, <<>>, 0 + 1) /\ <<>> \o IdlePath = IdlePath
  <2>1. IdlePath \in Paths
    BY DEF Paths
  <2>2. IdlePath \in Seq(Byte)
    BY <2>1, PathForms
  <2>3. Queue(<<>> \o IdlePath, <<>>, 0 + 1)
    BY <1>1, <2>1, QueuePath, Zenon
  <2>4. \A s \in Seq(Byte) : <<>> \o s = s
    OBVIOUS
  <2> QED BY <2>2, <2>3, <2>4, Zenon
<1>3. Queue(toDevice, <<>>, 1) /\ <<>> \in Seq(Byte) /\ 1 # 0 /\ 1 - 1 = 0
  BY <1>2
<1>4. /\ Queue(toDevice', <<>>, 0)
      /\ TmsMessage(AdapterMessage(toDevice), toDevice[3], toDevice[2] + 1)
      /\ port' \in {e.port : e \in Performed(port, AdapterMessage(toDevice))}
  BY <1>3, PathStep
<1>5. toDevice[3] = \h3f /\ toDevice[2] + 1 = 7
  BY DEF IdlePath
<1>6. Leads(AdapterMessage(toDevice), TapStates, {"RunTestIdle"})
  <2>1. 7 \in 6 .. 8 /\ BitOf(\h3f, 7 - 1) = 0 /\ \A i \in 0 .. 7 - 2 : BitOf(\h3f, i) = 1
    BY PathBits
  <2>2. TmsMessage(AdapterMessage(toDevice), \h3f, 7)
    BY <1>4, <1>5, Zenon
  <2> QED BY <2>1, <2>2, ToIdleLeads, Zenon
<1>7. port \in LivePort /\ port.source = "jtag" /\ port.tap \in TapStates
  BY DEF Typed, LivePort, Port
<1>8. port'.tap \in {"RunTestIdle"}
  BY <1>4, <1>6, <1>7, Zenon DEF Leads
<1> QED BY <1>4, <1>8, QueueEmpty

\* A question is answered.
LEMMA AskStep ==
    ASSUME Typed, Execute, NEW c \in ProperCall, NEW a \in Asks(c),
           toDevice = a.cmd, toHost = <<>>
    PROVE  /\ toDevice' = <<>> /\ start' = start /\ ScriptRests
           /\ \E e \in Performed(port, AdapterMessage(a.cmd)) :
                /\ Made(c, a, port, e) /\ port' = e.port
                /\ toHost' = Reply(a.cmd, e) /\ trace' = trace \o e.trace
<1>1. PICK e \in Performed(port, AdapterMessage(a.cmd)) : Executed(a.cmd, e)
  BY ExecuteForms
<1>2. port \in LivePort /\ port.source = "jtag"
  BY DEF Typed
<1>3. Taken(a) /\ Made(c, a, port, e)
  BY <1>2, AskMakes, Zenon
<1>4. Reads(Head(a.cmd)) /\ Head(a.cmd) # \h4b /\ CommandLen(a.cmd) = Len(a.cmd)
  BY <1>3, Zenon DEF Taken
<1>5. toDevice' = Drop(a.cmd, Len(a.cmd)) /\ port' = e.port /\ start' = start
      /\ toHost' = toHost \o Reply(a.cmd, e) /\ trace' = trace \o e.trace
  BY <1>1, <1>4, Zenon DEF Executed
<1>6. Drop(a.cmd, Len(a.cmd)) = <<>>
  <2>1. a.cmd \in Seq(Byte)
    BY AskType
  <2>2. \A s \in Seq(Byte) : SubSeq(s, Len(s) + 1, Len(s)) = <<>>
    OBVIOUS
  <2> QED BY <2>1, <2>2, Zenon DEF Drop
<1>7. toHost \o Reply(a.cmd, e) = Reply(a.cmd, e)
  <2>1. Reply(a.cmd, e) \in Seq(Byte)
    BY <1>3, Zenon DEF Made
  <2>2. \A s \in Seq(Byte) : <<>> \o s = s
    OBVIOUS
  <2> QED BY <2>1, <2>2, Zenon
<1> QED BY <1>1, <1>3, <1>5, <1>6, <1>7, ExecuteForms, Zenon

-----------------------------------------------------------------------------
(* Answers and bits of several questions. *)

\* Of two questions one comes before the other, and its bits as well.
LEMMA AskOrder ==
    ASSUME NEW c \in ProperCall, NEW a \in Asks(c), NEW b \in Asks(c), b.answers < a.answers + 1
    PROVE  b = a \/ (b.answers < a.answers /\ b.from + b.bits <= a.from)
<1>1. PICK k \in Nat, l \in 1 .. 8 : k = Before(c) /\ l = c.lst /\ Bits(c) = k + l
  BY ProperType, Zenon
<1>2. PICK w \in {0, 1}, p \in {0, 1} :
        /\ w = Wholes(c) /\ p = Parts(c)
        /\ Len(c.b) > 1 => w = 1
        /\ c.lst > 1 => p = 1
  BY DEF Wholes, Parts
<1>3. a = WholeAsk(c) => a.from = 0 /\ a.bits = k /\ a.answers = 0
  BY <1>1 DEF WholeAsk
<1>4. a = PartAsk(c) => a.from = k /\ a.bits = l - 1 /\ a.answers = w
  BY <1>1, <1>2 DEF PartAsk
<1>5. a = LastAsk(c) => a.from = (k + l) - 1 /\ a.bits = 1 /\ a.answers = w + p
  BY <1>1, <1>2 DEF LastAsk
<1>6. b = WholeAsk(c) => b.from = 0 /\ b.bits = k /\ b.answers = 0
  BY <1>1 DEF WholeAsk
<1>7. b = PartAsk(c) => b.from = k /\ b.bits = l - 1 /\ b.answers = w
  BY <1>1, <1>2 DEF PartAsk
<1>8. b = LastAsk(c) => b.from = (k + l) - 1 /\ b.bits = 1 /\ b.answers = w + p
  BY <1>1, <1>2 DEF LastAsk
<1>9. /\ 0 + k <= k /\ 0 + k <= (k + l) - 1 /\ k + (l - 1) <= (k + l) - 1
      /\ 0 < 1 /\ 1 < 1 + 1 /\ ~ (1 < 0 + 1) /\ ~ (1 + 1 < 1 + 1)
      /\ w < w + 1 /\ ~ (w + 1 < w + 1) /\ ~ (w + 1 < 0 + 1) /\ (w = 1 => 0 < w + p)
      /\ (w = 1 => ~ (w + p < 0 + 1)) /\ (w = 1 => ~ (w < 0 + 1))
      /\ (p = 1 => ~ (w + p < w + 1)) /\ (p = 1 => w < w + p)
  OBVIOUS
<1>10. CASE a = WholeAsk(c) /\ Len(c.b) > 1
  <2>1. CASE b = PartAsk(c) /\ c.lst > 1
    BY <1>2, <1>3, <1>7, <1>9, <1>10, <2>1, Zenon
  <2>2. CASE b = LastAsk(c)
    BY <1>2, <1>3, <1>8, <1>9, <1>10, <2>2, Zenon
  <2> QED BY <1>10, <2>1, <2>2, AskForms, Zenon
<1>11. CASE a = PartAsk(c) /\ c.lst > 1
  <2>1. CASE b = WholeAsk(c) /\ Len(c.b) > 1
    BY <1>2, <1>4, <1>6, <1>9, <1>11, <2>1, Zenon
  <2>2. CASE b = LastAsk(c)
    BY <1>2, <1>4, <1>8, <1>9, <1>11, <2>2, Zenon
  <2> QED BY <1>11, <2>1, <2>2, AskForms, Zenon
<1>12. CASE a = LastAsk(c)
  <2>1. CASE b = WholeAsk(c) /\ Len(c.b) > 1
    BY <1>2, <1>5, <1>6, <1>9, <1>12, <2>1, Zenon
  <2>2. CASE b = PartAsk(c) /\ c.lst > 1
    BY <1>2, <1>5, <1>7, <1>9, <1>12, <2>2, Zenon
  <2> QED BY <1>12, <2>1, <2>2, AskForms, Zenon
<1> QED BY <1>10, <1>11, <1>12, AskForms, Zenon

\* An answer more.
LEMMA HadNext ==
    ASSUME NEW c \in ProperCall, NEW a \in Asks(c), NEW got \in Seq(Seq(Byte)), NEW begun,
           NEW shifted, Had(c, a.answers, got, begun, shifted),
           NEW bytes, Answer(a, bytes, begun, shifted)
    PROVE  Had(c, a.answers + 1, Append(got, bytes), begun, shifted)
<1> DEFINE r == Append(got, bytes)
<1>1. a.answers \in Nat /\ Len(got) = a.answers /\ bytes \in Seq(Byte)
  BY AskType, Zenon DEF Had, Answer
<1>2. Len(r) = a.answers + 1 /\ r[a.answers + 1] = bytes
      /\ \A i \in 1 .. a.answers : r[i] = got[i]
  BY <1>1, AppendProperties
<1> HIDE DEF r
<1>3. ASSUME NEW b \in Asks(c), b.answers < a.answers + 1
      PROVE  Answer(b, r[b.answers + 1], begun, shifted)
  <2>1. CASE b = a
    BY <1>2, <2>1, Zenon
  <2>2. CASE b # a
    <3>1. b.answers < a.answers /\ b.answers \in Nat
      BY <1>3, <2>2, AskOrder, AskType, Zenon
    <3>2. b.answers + 1 \in 1 .. a.answers
      <4>1. \A x, y \in Nat : x < y => x + 1 \in 1 .. y
        OBVIOUS
      <4> QED BY <1>1, <3>1, <4>1, Zenon
    <3>3. Answer(b, got[b.answers + 1], begun, shifted)
      BY <3>1, Zenon DEF Had
    <3> QED BY <1>2, <3>2, <3>3, Zenon
  <2> QED BY <2>1, <2>2
<1> QED BY <1>2, <1>3, Zenon DEF Had, r

\* What was shifted more is not in answers to questions before.
LEMMA HadStill ==
    ASSUME NEW c \in ProperCall, NEW a \in Asks(c), NEW got, NEW begun,
           NEW s \in Seq(ShiftBit), NEW t \in Seq(ShiftBit), begun \in Shifting => Len(s) = a.from,
           Had(c, a.answers, got, begun, s)
    PROVE  Had(c, a.answers, got, begun, s \o t)
<1>1. ASSUME begun \in Shifting, NEW b \in Asks(c), b.answers < a.answers
      PROVE  OutBits(s \o t, b.from, b.bits) = OutBits(s, b.from, b.bits)
  <2>1. a.answers \in Nat /\ b.answers \in Nat /\ a.from \in Nat /\ b.from \in Nat /\ b.bits \in Nat
    BY AskType, Zenon
  <2>2. b.from + b.bits <= a.from
    <3>1. \A x, y \in Nat : x < y => x < y + 1 /\ x # y
      OBVIOUS
    <3>2. b.answers < a.answers + 1 /\ b.answers # a.answers
      BY <1>1, <2>1, <3>1, Zenon
    <3> QED BY <3>2, AskOrder, Zenon
  <2>3. PICK k \in Nat, m \in Nat : k = Len(s) /\ m = Len(t)
    OBVIOUS
  <2>4. \A i \in 1 .. k : (s \o t)[i] = s[i]
    BY <2>3, ConcatParts
  <2>5. k = a.from
    BY <1>1, <2>3
  <2>6. ASSUME NEW i \in 1 .. b.bits PROVE (s \o t)[b.from + i] = s[b.from + i]
    <3>1. \A x, y, z \in Nat : x + y <= z => \A j \in 1 .. y : x + j \in 1 .. z
      OBVIOUS
    <3>2. b.from + i \in 1 .. k
      BY <2>1, <2>2, <2>5, <3>1, Zenon
    <3> QED BY <2>4, <3>2, Zenon
  <2> QED BY <2>6, Zenon DEF OutBits
<1> QED BY <1>1, Zenon DEF Had, Answer

\* What two shifts in a row leave is what each leaves.
JoinedShifts(r, s, t, k, n) ==
    /\ r \in Seq(ShiftBit) /\ Len(r) = k + n
    /\ \A i \in 1 .. k : r[i] = s[i]
    /\ \A i \in 1 .. n : r[k + i] = t[i]

\* It is their concatenation.
LEMMA ShiftsJoined ==
    ASSUME NEW s \in Seq(ShiftBit), NEW t \in Seq(ShiftBit), NEW k \in Nat, NEW n \in Nat,
           Len(s) = k, Len(t) = n
    PROVE  JoinedShifts(s \o t, s, t, k, n)
<1> DEFINE r == s \o t
<1>1. k = Len(s) /\ n = Len(t)
  OBVIOUS
<1>2. /\ r \in Seq(ShiftBit) /\ Len(r) = k + n
      /\ \A i \in 1 .. k : r[i] = s[i]
      /\ \A i \in 1 .. n : r[k + i] = t[i]
  BY <1>1, ConcatParts
<1> HIDE DEF r
<1>3. JoinedShifts(r, s, t, k, n)
  BY <1>2, Zenon DEF JoinedShifts
<1> QED BY <1>3 DEF r

\* The bits of a question follow those before.
LEMMA BitsFollow ==
    ASSUME NEW s \in Seq(ShiftBit), NEW t \in Seq(ShiftBit), NEW k \in Nat, NEW n \in Nat,
           Len(s) = k, Len(t) = n
    PROVE  /\ s \o t \in Seq(ShiftBit) /\ Len(s \o t) = k + n
           /\ OutBits(s \o t, k, n) = OutBits(t, 0, n)
<1> DEFINE r == s \o t
<1>1. r \in Seq(ShiftBit) /\ Len(r) = k + n /\ \A i \in 1 .. n : r[k + i] = t[i]
  <2>1. JoinedShifts(r, s, t, k, n)
    BY ShiftsJoined, Zenon
  <2> HIDE DEF r
  <2> QED BY <2>1, Zenon DEF JoinedShifts
<1> HIDE DEF r
<1>2. OutBits(r, k, n) = OutBits(t, 0, n)
  <2>1. \A i \in 1 .. n : r[k + i] = t[0 + i]
    BY <1>1
  <2> QED BY <2>1, Zenon DEF OutBits
<1> QED BY <1>1, <1>2, Zenon DEF r

\* With the bits that are due next more are in.
LEMMA PutMore ==
    ASSUME NEW c, NEW s \in Seq(ShiftBit), NEW t \in Seq(ShiftBit), NEW k \in Nat, NEW n \in Nat,
           PutIn(c, k, s), Len(t) = n, \A i \in 1 .. n : t[i].tdi = InBit(c, k + i)
    PROVE  PutIn(c, k + n, s \o t)
<1> DEFINE r == s \o t
<1>1. Len(s) = k /\ \A i \in 1 .. k : s[i].tdi = InBit(c, i)
  BY Zenon DEF PutIn
<1>2. /\ Len(r) = k + n /\ (\A i \in 1 .. k : r[i] = s[i])
      /\ \A i \in 1 .. n : r[k + i] = t[i]
  <2>1. JoinedShifts(r, s, t, k, n)
    BY <1>1, ShiftsJoined, Zenon
  <2> HIDE DEF r
  <2> QED BY <2>1, Zenon DEF JoinedShifts
<1> HIDE DEF r
<1>3. ASSUME NEW i \in 1 .. k + n
      PROVE  r[i].tdi = InBit(c, i)
  <2>1. CASE i \in 1 .. k
    BY <1>1, <1>2, <2>1, Zenon
  <2>2. CASE i \notin 1 .. k
    <3>1. PICK j \in 1 .. n : i = k + j
      <4>1. i - k \in 1 .. n /\ i = k + (i - k)
        BY <2>2
      <4> QED BY <4>1
    <3> QED BY <1>2, <3>1, Zenon
  <2> QED BY <2>1, <2>2
<1> QED BY <1>2, <1>3, Zenon DEF PutIn, r

\* An answer arrives: the bits it tells of are in, nothing else has changed.
LEMMA AskArrives ==
    ASSUME NEW c \in ProperCall, NEW a \in Asks(c), NEW p, NEW e, Made(c, a, p, e),
           NEW begun, NEW shifted \in Seq(ShiftBit), NEW got,
           Reached(c, a.from, begun, p.tap, shifted), Had(c, a.answers, got, begun, shifted)
    PROVE  /\ shifted \o e.trace \in Seq(ShiftBit)
           /\ Answer(a, Reply(a.cmd, e), begun, shifted \o e.trace)
           /\ Reached(c, a.from + a.bits, begun, e.port.tap, shifted \o e.trace)
           /\ Had(c, a.answers, got, begun, shifted \o e.trace)
<1> DEFINE t == e.trace
<1> DEFINE r == shifted \o t
<1>1. PICK k \in Nat, n \in Nat : k = a.from /\ n = a.bits
  BY AskType
<1>2. /\ t \in Seq(ShiftBit) /\ Reply(a.cmd, e) \in Seq(Byte) /\ Len(Reply(a.cmd, e)) = a.bytes
  BY Zenon DEF Made
<1>3. k # Bits(c) /\ (k + n = Bits(c) <=> a.kind = "last")
  <2>1. \A x, y \in Nat : x < y => x # y
    OBVIOUS
  <2> QED BY <1>1, <2>1, AskType, Zenon
<1>4. ASSUME begun \in Shifting
      PROVE  /\ Len(shifted) = k /\ (\A i \in 1 .. k : shifted[i].tdi = InBit(c, i))
             /\ e.port.tap = (IF a.kind = "last" THEN "RunTestIdle" ELSE begun)
             /\ Len(t) = n /\ (\A i \in 1 .. n : t[i].tdi = InBit(c, k + i))
             /\ a.kind # "last" => Hold(Reply(a.cmd, e), OutBits(t, 0, n))
  <2>1. p.tap = begun /\ PutIn(c, k, shifted)
    BY <1>1, <1>3, <1>4, Zenon DEF Reached
  <2> QED BY <1>1, <1>4, <2>1, Zenon DEF Made, PutIn
<1> HIDE DEF t
<1>5. r \in Seq(ShiftBit)
  BY <1>2
<1>6. Answer(a, Reply(a.cmd, e), begun, r)
  <2>1. ASSUME begun \in Shifting, a.kind # "last"
        PROVE  Hold(Reply(a.cmd, e), OutBits(r, k, n))
    <3>1. OutBits(r, k, n) = OutBits(t, 0, n)
      BY <1>2, <1>4, <2>1, BitsFollow, Zenon
    <3> QED BY <1>4, <2>1, <3>1, Zenon
  <2> QED BY <1>1, <1>2, <2>1, Zenon DEF Answer
<1>7. Reached(c, k + n, begun, e.port.tap, r)
  <2>1. ASSUME begun \in Shifting PROVE PutIn(c, k + n, r)
    <3>1. PutIn(c, k, shifted)
      BY <1>4, <2>1, Zenon DEF PutIn
    <3>2. Len(t) = n /\ \A i \in 1 .. n : t[i].tdi = InBit(c, k + i)
      BY <1>4, <2>1, Zenon
    <3> QED BY <1>2, <3>1, <3>2, PutMore, Zenon
  <2> QED BY <1>3, <1>4, <2>1, Zenon DEF Reached
<1>8. Had(c, a.answers, got, begun, r)
  <2>1. begun \in Shifting => Len(shifted) = a.from
    BY <1>1, <1>4, Zenon
  <2> QED BY <1>2, <2>1, HadStill, Zenon
<1> QED BY <1>1, <1>5, <1>6, <1>7, <1>8, Zenon DEF t

\* Before the first question there is nothing to be told of.
LEMMA NothingYet ==
    ASSUME NEW c \in ProperCall, NEW begun, NEW shifted
    PROVE  /\ Had(c, 0, <<>>, begun, shifted)
           /\ \A got : Len(got) = 0 => Had(c, 0, got, begun, shifted)
           /\ Reached(c, 0, begun, begun, <<>>)
<1>1. \A a \in Asks(c) : ~ (a.answers < 0)
  <2>1. \A x \in Nat : ~ (x < 0)
    OBVIOUS
  <2> QED BY <2>1, AskType, Zenon
<1>2. Len(<<>>) = 0 /\ 1 .. 0 = {}
  OBVIOUS
<1>3. 0 # Bits(c)
  <2>1. \A k \in Nat, l \in 1 .. 8 : 0 # k + l
    OBVIOUS
  <2> QED BY <2>1, ProperType, Zenon
<1> QED BY <1>1, <1>2, <1>3, Zenon DEF Had, Reached, PutIn

-----------------------------------------------------------------------------
(* Steps of the script. *)

\* The rest of a call once its first step is made.
LEMMA ProceedForms ==
    ASSUME NEW x \in Step, NEW rest \in Seq(Step), steps = <<x>> \o rest
    PROVE  /\ Head(steps) = x
           /\ \A got : Proceed(got) =>
                /\ steps' = rest
                /\ status' = (IF rest = <<>> THEN "ok" ELSE "busy")
                /\ result' = (IF rest = <<>> /\ call.op # "toRTI" THEN Assembled(call, got)
                              ELSE result)
<1>1. Head(steps) = x /\ Tail(steps) = rest /\ Len(steps) = Len(rest) + 1
  BY Prefixed, Zenon
<1>2. Len(steps) = 1 <=> rest = <<>>
  <2>1. \A s \in Seq(Step) : Len(s) + 1 = 1 <=> s = <<>>
    <3> SUFFICES ASSUME NEW s \in Seq(Step) PROVE Len(s) + 1 = 1 <=> s = <<>>
      OBVIOUS
    <3>1. Len(s) \in Nat
      OBVIOUS
    <3>2. Len(s) = 0 <=> s = <<>>
      BY EmptySeq
    <3> QED BY <3>1, <3>2
  <2> QED BY <1>1, <2>1, Zenon
<1> QED BY <1>1, <1>2, Zenon DEF Proceed

\* A call is begun.
LEMMA CallKeeps ==
    ASSUME ShortShifts, Framed, NEW c \in Calls, Call(c)
    PROVE  Framed'
<1>1. status # "busy" /\ calls < MaxCalls /\ Typed /\ OnlyPaths
  BY Zenon DEF Call, Framed
<1>2. call' = c /\ calls' = calls + 1 /\ steps' = Steps(c) /\ status' = "busy"
      /\ reads' = <<>> /\ result' = <<>>
      /\ toDevice' = toDevice /\ toHost' = toHost /\ port' = port /\ start' = start
      /\ trace' = trace
  BY Zenon DEF Call
<1>3. Steps(c) \in Seq(Step)
  <2>1. PICK path \in Paths, rest \in Seq(Step) : Steps(c) = <<WriteStep(path)>> \o rest
    BY StartSteps, Zenon
  <2>2. WriteStep(path) \in Step
    BY PathForms, StepForms, Zenon
  <2> QED BY <2>1, <2>2, Prefixed, Zenon
<1>4. calls + 1 \in 0 .. MaxCalls
  BY <1>1, MaxCallsAssumption DEF Typed
<1>5. <<>> \in Seq(Seq(Byte)) /\ <<>> \in Seq(Byte)
  OBVIOUS
<1>6. Typed'
  BY <1>1, <1>2, <1>3, <1>4, <1>5, Zenon DEF Typed
<1>7. OnlyPaths'
  BY <1>1, <1>2, Zenon DEF OnlyPaths
<1>8. Starting'
  BY <1>2, <1>7, Zenon DEF Starting
<1>9. "busy" \in {"idle", "busy", "ok", "error"} /\ "busy" # "ok"
  OBVIOUS
<1> QED BY <1>2, <1>6, <1>8, <1>9, Zenon DEF Framed

\* A question is written first, then its answer is read.
LEMMA AskHead ==
    ASSUME NEW c \in ProperCall, NEW a \in Asks(c)
    PROVE  LET rest == <<ReadStep(a.bytes)>> \o a.rest IN
           /\ a.cmd \in Seq(Byte) /\ a.rest \in Seq(Step)
           /\ WriteStep(a.cmd) \in Step /\ ReadStep(a.bytes) \in Step
           /\ rest \in Seq(Step) /\ rest # <<>>
           /\ Head(rest) = ReadStep(a.bytes) /\ Tail(rest) = a.rest
           /\ Head(AskSteps(a)) = WriteStep(a.cmd) /\ AskSteps(a) # <<>>
<1> DEFINE rest == <<ReadStep(a.bytes)>> \o a.rest
<1>1. a.rest \in Seq(Step) /\ a.cmd \in Seq(Byte) /\ a.bytes \in Nat
  BY AskType
<1>2. WriteStep(a.cmd) \in Step /\ ReadStep(a.bytes) \in Step
  BY <1>1, StepForms, Zenon
<1>3. /\ rest \in Seq(Step) /\ Len(rest) = Len(a.rest) + 1
      /\ Head(rest) = ReadStep(a.bytes) /\ Tail(rest) = a.rest
  BY <1>1, <1>2, Prefixed, Zenon
<1> HIDE DEF rest
<1>4. Len(AskSteps(a)) = Len(rest) + 1 /\ Head(AskSteps(a)) = WriteStep(a.cmd)
  BY <1>2, <1>3, Prefixed, Zenon DEF AskSteps, rest
<1>5. \A s \in Seq(Step) : Len(s) + 1 # 0
  OBVIOUS
<1>6. Len(<<>>) = 0
  OBVIOUS
<1>7. rest # <<>> /\ AskSteps(a) # <<>>
  BY <1>1, <1>3, <1>4, <1>5, <1>6, Zenon
<1> QED BY <1>1, <1>2, <1>3, <1>4, <1>7, Zenon DEF rest

\* What a step of the script is, from what is left of the call.
LEMMA NextOfStart ==
    ASSUME ShortShifts, call \in Calls, steps = Steps(call), NEW do, NextStep(do)
    PROVE  do = "write"
<1>1. PICK path \in Paths, rest \in Seq(Step) : steps = <<WriteStep(path)>> \o rest
  BY StartSteps, Zenon
<1>2. WriteStep(path) \in Step /\ WriteStep(path).do = "write"
  BY PathForms, StepForms, Zenon
<1>3. Head(steps) = WriteStep(path)
  BY <1>1, <1>2, Prefixed, Zenon
<1> QED BY <1>2, <1>3, Zenon DEF NextStep

Asking(c, n, h, s) == \E a \in Asks(c) : a.from = n /\ a.answers = h /\ s = AskSteps(a)

\* It is a question, or the exception ...
LEMMA NextOfQuestion ==
    ASSUME NEW c \in ProperCall, NEW n, NEW h, Continues(c, n, h, steps), steps # <<>>,
           NEW do, NextStep(do)
    PROVE  do = "raise" \/ (do = "write" /\ Asking(c, n, h, steps))
<1>1. CASE steps = <<RaiseStep>>
  <2>1. Head(steps) = RaiseStep
    BY <1>1
  <2> QED BY <2>1, StepForms, Zenon DEF NextStep
<1>2. CASE \E a \in Asks(c) : a.from = n /\ a.answers = h /\ steps = AskSteps(a)
  <2>1. PICK a \in Asks(c) : a.from = n /\ a.answers = h /\ steps = AskSteps(a)
    BY <1>2
  <2>2. Head(steps) = WriteStep(a.cmd)
    BY <2>1, AskHead, Zenon
  <2> QED BY <2>1, <2>2, StepForms, Zenon DEF NextStep, Asking
<1> QED BY <1>1, <1>2, Zenon DEF Continues

\* ... or a read.
LEMMA NextOfAnswer ==
    ASSUME NEW c \in ProperCall, NEW a \in Asks(c), steps = <<ReadStep(a.bytes)>> \o a.rest,
           NEW do, NextStep(do)
    PROVE  do = "read"
<1>1. Head(steps) = ReadStep(a.bytes)
  BY AskHead, Prefixed, Zenon
<1> QED BY <1>1, StepForms, Zenon DEF NextStep

\* A write.
LEMMA WriteKeeps ==
    ASSUME ShortShifts, Framed, Write
    PROVE  Framed'
<1>1. Typed /\ status = "busy" /\ call \in Calls /\ (Starting \/ Writing \/ Awaiting)
  BY Zenon DEF Write, NextStep, Framed
<1>2. /\ NextStep("write") /\ toDevice' = toDevice \o Head(steps).bytes /\ Proceed(reads)
      /\ call' = call /\ calls' = calls /\ reads' = reads /\ toHost' = toHost /\ port' = port
      /\ start' = start /\ trace' = trace
  BY Zenon DEF Write
<1>3. "write" # "read" /\ "write" # "raise" /\ "ok" # "busy"
      /\ {"ok", "busy"} \subseteq {"idle", "busy", "ok", "error"}
  OBVIOUS
<1>4. toDevice \in Seq(Byte) /\ result \in Seq(Byte) /\ <<>> \in Seq(Step)
  <2>1. <<>> \in Seq(Step)
    OBVIOUS
  <2> QED BY <1>1, <2>1, Zenon DEF Typed
<1>5. \A r, s \in Seq(Byte) : r \o s \in Seq(Byte)
  OBVIOUS
<1>6. CASE Starting
  <2>1. PICK path \in Paths, rest \in Seq(Step) :
          /\ Steps(call) = <<WriteStep(path)>> \o rest
          /\ call.op = "toRTI" => path = IdlePath /\ rest = <<>>
          /\ call.op # "toRTI" => rest = AllSteps(call)
    BY <1>1, StartSteps, Zenon
  <2>2. path \in Seq(Byte) /\ WriteStep(path) \in Step /\ WriteStep(path).bytes = path
    BY PathForms, StepForms, Zenon
  <2>3. steps = <<WriteStep(path)>> \o rest /\ reads = <<>> /\ OnlyPaths
    BY <1>6, <2>1, Zenon DEF Starting
  <2>4. /\ toDevice' = toDevice \o path /\ steps' = rest
        /\ status' = (IF rest = <<>> THEN "ok" ELSE "busy")
        /\ rest = <<>> => call.op = "toRTI" \/ AllSteps(call) = <<>>
        /\ result' = (IF rest = <<>> /\ call.op # "toRTI" THEN Assembled(call, reads) ELSE result)
    <3>1. Head(steps) = WriteStep(path)
      BY <2>2, <2>3, ProceedForms, Zenon
    <3>2. /\ steps' = rest
          /\ status' = (IF rest = <<>> THEN "ok" ELSE "busy")
          /\ result' = (IF rest = <<>> /\ call.op # "toRTI" THEN Assembled(call, reads)
                        ELSE result)
      BY <1>2, <2>2, <2>3, ProceedForms, Zenon
    <3>3. rest = <<>> => call.op = "toRTI" \/ AllSteps(call) = <<>>
      BY <2>1, Zenon
    <3> QED BY <1>2, <2>2, <3>1, <3>2, <3>3, Zenon
  <2>5. PICK k \in Nat : Queue(toDevice, <<>>, k) /\ toHost = <<>>
    BY <2>3, Zenon DEF OnlyPaths, Queue
  <2>6. Queue(toDevice', <<>>, k + 1) /\ k + 1 # 0
    <3>1. \A x \in Nat : x + 1 # 0
      OBVIOUS
    <3> QED BY <2>4, <2>5, <3>1, QueuePath, Zenon
  <2>7. toDevice' \in Seq(Byte)
    BY <1>4, <1>5, <2>2, <2>4, Zenon
  <2>8. CASE call.op = "toRTI"
    <3>1. path = IdlePath /\ steps' = <<>> /\ status' = "ok" /\ result' = result
      BY <2>1, <2>4, <2>8, Zenon
    <3>2. Queue(toDevice', IdlePath, k)
      BY <2>2, <2>4, <2>5, <3>1, QueueCommand, Zenon
    <3>3. Returned'
      BY <1>2, <2>8, <3>2, Zenon DEF Returned, WillIdle
    <3>4. OnlyPaths'
      BY <1>2, <2>5, <2>6, Zenon DEF OnlyPaths
    <3>5. Typed'
      BY <1>1, <1>2, <1>4, <2>7, <3>1, Zenon DEF Typed
    <3> QED BY <1>1, <1>2, <1>3, <3>1, <3>3, <3>4, <3>5, Zenon DEF Framed
  <2>9. CASE call.op # "toRTI"
    <3>1. call \in ProperCall
      BY <1>1, <2>9, ShiftsProper
    <3>2. rest = AllSteps(call) /\ rest # <<>>
      BY <2>1, <2>9, <3>1, AllStepsNonEmpty, Zenon
    <3>3. steps' = AllSteps(call) /\ status' = "busy" /\ result' = result
      BY <2>4, <3>2, Zenon
    <3>4. Continues(call, 0, 0, steps')
      BY <3>1, <3>3, Questions, Zenon
    <3>5. Quiet(call, 0, 0)'
      BY <1>2, <2>5, <2>6, Zenon DEF Quiet
    <3>6. Had(call, 0, reads', start', trace')
      BY <1>2, <2>3, <3>1, NothingYet, Zenon
    <3>7. Writing'
      BY <1>2, <3>1, <3>2, <3>3, <3>4, <3>5, <3>6, Zenon DEF Writing, HadSoFar, Quiet
    <3>8. Typed'
      BY <1>1, <1>2, <2>7, <3>2, <3>3, Zenon DEF Typed
    <3> QED BY <1>1, <1>2, <1>3, <3>3, <3>7, <3>8, Zenon DEF Framed
  <2> QED BY <2>8, <2>9
<1>7. CASE Writing
  <2>1. PICK n, h : Continues(call, n, h, steps) /\ Quiet(call, n, h) /\ HadSoFar(call, h)
    BY <1>7, Zenon DEF Writing
  <2>2. call \in ProperCall /\ steps # <<>>
    BY <1>7, Zenon DEF Writing
  <2>3. PICK a \in Asks(call) : a.from = n /\ a.answers = h /\ steps = AskSteps(a)
    <3>1. "write" = "raise" \/ Asking(call, n, h, steps)
      BY <1>2, <2>1, <2>2, NextOfQuestion, Zenon
    <3> QED BY <1>3, <3>1, Zenon DEF Asking
  <2> DEFINE rest == <<ReadStep(a.bytes)>> \o a.rest
  <2>4. /\ a.cmd \in Seq(Byte) /\ WriteStep(a.cmd) \in Step /\ WriteStep(a.cmd).bytes = a.cmd
        /\ rest \in Seq(Step) /\ rest # <<>> /\ steps = <<WriteStep(a.cmd)>> \o rest
    BY <2>2, <2>3, AskHead, StepForms, Zenon DEF AskSteps
  <2> HIDE DEF rest
  <2>5. toDevice' = toDevice \o a.cmd /\ steps' = rest /\ status' = "busy" /\ result' = result
    BY <1>2, <2>4, ProceedForms, Zenon
  <2>6. PICK k : /\ Queue(toDevice, <<>>, k) /\ toHost = <<>>
                 /\ k # 0 => n = 0 /\ h = 0
                 /\ k = 0 => Shifted(call, n)
    BY <2>1, Zenon DEF Quiet
  <2>7. Queue(toDevice', a.cmd, k)
    BY <2>4, <2>5, <2>6, QueueCommand, Zenon
  <2>8. Pending(call, a)'
    BY <1>2, <2>3, <2>6, <2>7, Zenon DEF Pending, Shifted
  <2>9. Had(call, a.answers, reads', start', trace')
    BY <1>2, <2>1, <2>3, Zenon DEF HadSoFar
  <2>10. Awaiting'
    BY <1>2, <2>2, <2>5, <2>8, <2>9, Zenon DEF Awaiting, HadSoFar, Pending, rest
  <2>11. toDevice' \in Seq(Byte)
    BY <1>4, <1>5, <2>4, <2>5, Zenon
  <2>12. Typed'
    BY <1>1, <1>2, <2>4, <2>5, <2>11, Zenon DEF Typed
  <2> QED BY <1>1, <1>2, <1>3, <2>5, <2>10, <2>12, Zenon DEF Framed
<1>8. CASE Awaiting
  BY <1>2, <1>3, <1>8, NextOfAnswer, Zenon DEF Awaiting
<1> QED BY <1>1, <1>6, <1>7, <1>8

\* A write fails, or there are bits too many.
LEMMA RaiseKeeps ==
    ASSUME ShortShifts, Framed, Raise
    PROVE  Framed'
<1>1. Typed /\ status = "busy" /\ call \in Calls /\ (Starting \/ Writing \/ Awaiting)
  BY Zenon DEF Raise, NextStep, Framed
<1>2. /\ NextStep("raise") \/ NextStep("write")
      /\ status' = "error" /\ steps' = <<>>
      /\ call' = call /\ calls' = calls /\ reads' = reads /\ toHost' = toHost /\ port' = port
      /\ start' = start /\ trace' = trace /\ toDevice' = toDevice /\ result' = result
  BY Zenon DEF Raise
<1>3. "read" # "raise" /\ "read" # "write" /\ "error" # "busy" /\ "error" # "ok"
      /\ "error" \in {"idle", "busy", "ok", "error"} /\ <<>> \in Seq(Step)
  OBVIOUS
<1>4. OnlyPaths
  <2>1. CASE Starting
    BY <2>1, Zenon DEF Starting
  <2>2. CASE Writing
    BY <2>2, Zenon DEF Writing, Quiet, OnlyPaths
  <2>3. CASE Awaiting
    BY <1>2, <1>3, <2>3, NextOfAnswer, Zenon DEF Awaiting
  <2> QED BY <1>1, <2>1, <2>2, <2>3
<1>5. OnlyPaths'
  BY <1>2, <1>4, Zenon DEF OnlyPaths
<1>6. Typed'
  BY <1>1, <1>2, <1>3, Zenon DEF Typed
<1> QED BY <1>2, <1>3, <1>5, <1>6, Zenon DEF Framed

-----------------------------------------------------------------------------
(* What a shift returns. *)

\* Halving a byte moves its bits down by one.
LEMMA HalfBits ==
    ASSUME NEW y \in 0 .. 255
    PROVE  y \div 2 \in 0 .. 255 /\ \A q \in 0 .. 6 : BitOf(y \div 2, q) = BitOf(y, q + 1)
<1>1. y \div 2 \in 0 .. 255 /\ y \div 2 + 128 * 0 = y \div 2
  OBVIOUS
<1>2. 0 \in Bit
  BY DEF Bit
<1>3. \A q \in 0 .. 6 : BitOf(y \div 2 + 128 * 0, q) = BitOf(y, q + 1)
  BY <1>2, EnteredBits, ZenonT(60)
<1> HIDE DEF BitOf
<1> QED BY <1>1, <1>3, Zenon

\* Dividing it by a power of two moves them down by the exponent.
MovedDown(y, j) ==
    /\ y \div 2 ^ j \in 0 .. 255
    /\ \A q \in 0 .. 7 - j : BitOf(y \div 2 ^ j, q) = BitOf(y, j + q)

\* It does so for every exponent.
LEMMA DownBits ==
    ASSUME NEW y \in 0 .. 255, NEW j \in 0 .. 7
    PROVE  MovedDown(y, j)
<1>1. MovedDown(y, 0)
  <2>1. y \div 2 ^ 0 = y
    BY Powers
  <2>2. ASSUME NEW q \in 0 .. 7 - 0 PROVE BitOf(y \div 2 ^ 0, q) = BitOf(y, 0 + q)
    <3>1. 0 + q = q
      OBVIOUS
    <3> QED BY <2>1, <3>1, Zenon
  <2> QED BY <2>1, <2>2, Zenon DEF MovedDown
<1>2. \A x \in 0 .. 255 :
        /\ x \div 2 = (x \div 1) \div 2 /\ x \div 4 = (x \div 2) \div 2
        /\ x \div 8 = (x \div 4) \div 2 /\ x \div 16 = (x \div 8) \div 2
        /\ x \div 32 = (x \div 16) \div 2 /\ x \div 64 = (x \div 32) \div 2
        /\ x \div 128 = (x \div 64) \div 2
  OBVIOUS
<1>3. ASSUME NEW i \in 0 .. 6, MovedDown(y, i), y \div 2 ^ (i + 1) = (y \div 2 ^ i) \div 2
      PROVE  MovedDown(y, i + 1)
  <2> DEFINE z == y \div 2 ^ i
  <2>1. z \in 0 .. 255 /\ \A q \in 0 .. 7 - i : BitOf(z, q) = BitOf(y, i + q)
    BY <1>3, Zenon DEF MovedDown
  <2>2. y \div 2 ^ (i + 1) = z \div 2
    BY <1>3
  <2> HIDE DEF z
  <2>3. z \div 2 \in 0 .. 255 /\ \A q \in 0 .. 6 : BitOf(z \div 2, q) = BitOf(z, q + 1)
    BY <2>1, HalfBits, Zenon
  <2>4. ASSUME NEW q \in 0 .. 7 - (i + 1)
        PROVE  BitOf(z \div 2, q) = BitOf(y, (i + 1) + q)
    <3>1. q \in 0 .. 6 /\ q + 1 \in 0 .. 7 - i /\ i + (q + 1) = (i + 1) + q
      OBVIOUS
    <3> QED BY <2>1, <2>3, <3>1, Zenon
  <2> QED BY <2>2, <2>3, <2>4, Zenon DEF MovedDown
<1>4. MovedDown(y, 1)
  <2>1. y \div 2 ^ (0 + 1) = (y \div 2 ^ 0) \div 2
    BY <1>2, Powers
  <2>2. 0 + 1 = 1 /\ 0 \in 0 .. 6
    OBVIOUS
  <2> QED BY <1>1, <1>3, <2>1, <2>2, Zenon
<1>5. MovedDown(y, 2)
  <2>1. y \div 2 ^ (1 + 1) = (y \div 2 ^ 1) \div 2
    BY <1>2, Powers
  <2>2. 1 + 1 = 2 /\ 1 \in 0 .. 6
    OBVIOUS
  <2> QED BY <1>4, <1>3, <2>1, <2>2, Zenon
<1>6. MovedDown(y, 3)
  <2>1. y \div 2 ^ (2 + 1) = (y \div 2 ^ 2) \div 2
    BY <1>2, Powers
  <2>2. 2 + 1 = 3 /\ 2 \in 0 .. 6
    OBVIOUS
  <2> QED BY <1>5, <1>3, <2>1, <2>2, Zenon
<1>7. MovedDown(y, 4)
  <2>1. y \div 2 ^ (3 + 1) = (y \div 2 ^ 3) \div 2
    BY <1>2, Powers
  <2>2. 3 + 1 = 4 /\ 3 \in 0 .. 6
    OBVIOUS
  <2> QED BY <1>6, <1>3, <2>1, <2>2, Zenon
<1>8. MovedDown(y, 5)
  <2>1. y \div 2 ^ (4 + 1) = (y \div 2 ^ 4) \div 2
    BY <1>2, Powers
  <2>2. 4 + 1 = 5 /\ 4 \in 0 .. 6
    OBVIOUS
  <2> QED BY <1>7, <1>3, <2>1, <2>2, Zenon
<1>9. MovedDown(y, 6)
  <2>1. y \div 2 ^ (5 + 1) = (y \div 2 ^ 5) \div 2
    BY <1>2, Powers
  <2>2. 5 + 1 = 6 /\ 5 \in 0 .. 6
    OBVIOUS
  <2> QED BY <1>8, <1>3, <2>1, <2>2, Zenon
<1>10. MovedDown(y, 7)
  <2>1. y \div 2 ^ (6 + 1) = (y \div 2 ^ 6) \div 2
    BY <1>2, Powers
  <2>2. 6 + 1 = 7 /\ 6 \in 0 .. 6
    OBVIOUS
  <2> QED BY <1>9, <1>3, <2>1, <2>2, Zenon
<1>11. j = 0 \/ j = 1 \/ j = 2 \/ j = 3 \/ j = 4 \/ j = 5 \/ j = 6 \/ j = 7
  OBVIOUS
<1> QED BY <1>1, <1>4, <1>5, <1>6, <1>7, <1>8, <1>9, <1>10, <1>11, Zenon

\* The last byte, from the part that came before its last bit.
Combined(part, bit, lst) == (PartIn(part) + 128 * bit) \div 2 ^ (8 - lst)

\* It has the bits of that part, those that came first lowest.
LEMMA CombinedBits ==
    ASSUME NEW part \in 0 .. 255, NEW bit \in Bit, NEW lst \in 1 .. 8
    PROVE  /\ Combined(part, bit, lst) \in 0 .. 255
           /\ \A q \in 1 .. lst - 1 :
                BitOf(Combined(part, bit, lst), q - 1) = BitOf(part, (8 - lst) + q)
<1> DEFINE y == part \div 2 + 128 * bit
<1> DEFINE j == 8 - lst
<1>1. y \in 0 .. 255
  BY EnteredType, Zenon
<1>2. \A q \in 0 .. 6 : BitOf(y, q) = BitOf(part, q + 1)
  BY EnteredBits, ZenonT(60)
<1>3. j \in 0 .. 7 /\ \A q \in 1 .. lst - 1 :
        /\ q - 1 \in 0 .. 7 - j /\ j + (q - 1) \in 0 .. 6 /\ (j + (q - 1)) + 1 = j + q
  OBVIOUS
<1>4. Combined(part, bit, lst) = y \div 2 ^ j
  BY Zenon DEF Combined, PartIn
<1> HIDE DEF y, j
<1>5. MovedDown(y, j)
  BY <1>1, <1>3, DownBits, Zenon
<1>6. ASSUME NEW q \in 1 .. lst - 1
      PROVE  BitOf(y \div 2 ^ j, q - 1) = BitOf(part, j + q)
  <2>1. q - 1 \in 0 .. 7 - j /\ j + (q - 1) \in 0 .. 6 /\ (j + (q - 1)) + 1 = j + q
    BY <1>3, Zenon
  <2>2. BitOf(y \div 2 ^ j, q - 1) = BitOf(y, j + (q - 1))
    BY <1>5, <2>1, Zenon DEF MovedDown
  <2>3. BitOf(y, j + (q - 1)) = BitOf(part, (j + (q - 1)) + 1)
    BY <1>2, <2>1, Zenon
  <2> QED BY <2>1, <2>2, <2>3, Zenon
<1>7. y \div 2 ^ j \in 0 .. 255
  BY <1>5, Zenon DEF MovedDown
<1> QED BY <1>4, <1>6, <1>7, Zenon DEF j

\* All that was asked for has come.
HadAll(c, got, begun, shifted) == Had(c, Wholes(c) + Parts(c) + 1, got, begun, shifted)

\* That is an answer to each question.
LEMMA HadEach ==
    ASSUME NEW c \in ProperCall, LastOut(c.b, c.lst) <= 255, NEW got, NEW begun, NEW shifted,
           HadAll(c, got, begun, shifted)
    PROVE  /\ Len(got) = Wholes(c) + Parts(c) + 1
           /\ Len(c.b) > 1 => Answer(WholeAsk(c), got[1], begun, shifted)
           /\ c.lst > 1 => Answer(PartAsk(c), got[Wholes(c) + 1], begun, shifted)
           /\ Answer(LastAsk(c), got[Wholes(c) + Parts(c) + 1], begun, shifted)
<1>1. PICK w \in {0, 1}, p \in {0, 1} : w = Wholes(c) /\ p = Parts(c) /\ (c.lst > 1 => p = 1)
  BY DEF Wholes, Parts
<1>2. 0 < w + p + 1 /\ 0 + 1 = 1 /\ (p = 1 => w < w + p + 1) /\ w + p < w + p + 1
  OBVIOUS
<1>3. \A a \in Asks(c) : a.answers < w + p + 1 => Answer(a, got[a.answers + 1], begun, shifted)
  BY <1>1, Zenon DEF HadAll, Had
<1>4. ASSUME Len(c.b) > 1 PROVE Answer(WholeAsk(c), got[1], begun, shifted)
  <2>1. WholeAsk(c) \in Asks(c)
    BY <1>4, Zenon DEF Asks
  <2>2. WholeAsk(c).answers = 0
    BY DEF WholeAsk
  <2> QED BY <1>2, <1>3, <2>1, <2>2, Zenon
<1>5. ASSUME c.lst > 1 PROVE Answer(PartAsk(c), got[w + 1], begun, shifted)
  <2>1. PartAsk(c) \in Asks(c)
    BY <1>5, Zenon DEF Asks
  <2>2. PartAsk(c).answers = w
    BY <1>1 DEF PartAsk
  <2> QED BY <1>1, <1>2, <1>3, <1>5, <2>1, <2>2, Zenon
<1>6. Answer(LastAsk(c), got[w + p + 1], begun, shifted)
  <2>1. LastAsk(c) \in Asks(c)
    <3>1. \A x \in Nat : x <= 255 => ~ (x > 255)
      OBVIOUS
    <3> QED BY <3>1, LastOutType, ZenonT(60) DEF Asks
  <2>2. LastAsk(c).answers = w + p
    BY <1>1 DEF LastAsk
  <2> QED BY <1>2, <1>3, <2>1, <2>2, Zenon
<1>7. Len(got) = w + p + 1
  BY <1>1, Zenon DEF HadAll, Had
<1> QED BY <1>1, <1>4, <1>5, <1>6, <1>7, Zenon

\* What is returned: the whole bytes as they came, and a last one from the two other answers.
PartOf(c, got) == IF c.lst > 1 THEN got[Wholes(c) + 1][1] ELSE 0
Assembly(c, got, r) ==
    /\ r \in Seq(Byte)
    /\ \A i \in 1 .. Len(c.b) - 1 : r[i] = got[1][i]
    /\ PartOf(c, got) \in 0 .. 255
    /\ \E bit \in Bit : r[Len(c.b)] = Combined(PartOf(c, got), bit, c.lst)

\* It is as long as what was given.
LEMMA AssembledForm ==
    ASSUME NEW c \in ProperCall, LastOut(c.b, c.lst) <= 255, NEW got \in Seq(Seq(Byte)),
           NEW begun, NEW shifted, HadAll(c, got, begun, shifted)
    PROVE  Assembly(c, got, Assembled(c, got))
<1>1. PICK k \in Nat, l \in 1 .. 8, w \in {0, 1}, p \in {0, 1} :
        /\ k + 1 = Len(c.b) /\ l = c.lst /\ w = Wholes(c) /\ p = Parts(c)
        /\ (Len(c.b) > 1 <=> k # 0) /\ (w = 1 <=> k # 0) /\ (p = 1 <=> l > 1)
  <2>1. Len(c.b) \in Nat \ {0} /\ c.lst \in 1 .. 8
    BY ProperType
  <2>2. PICK k \in Nat : k + 1 = Len(c.b)
    <3>1. \A x \in Nat \ {0} : x - 1 \in Nat /\ (x - 1) + 1 = x
      OBVIOUS
    <3> QED BY <2>1, <3>1, Zenon
  <2>3. Len(c.b) > 1 <=> k # 0
    <3>1. \A x \in Nat : x + 1 > 1 <=> x # 0
      OBVIOUS
    <3> QED BY <2>2, <3>1, Zenon
  <2> QED BY <2>1, <2>2, <2>3 DEF Wholes, Parts
<1>2. /\ Len(got) = w + p + 1
      /\ k # 0 => Answer(WholeAsk(c), got[1], begun, shifted)
      /\ l > 1 => Answer(PartAsk(c), got[w + 1], begun, shifted)
      /\ Answer(LastAsk(c), got[w + p + 1], begun, shifted)
  BY <1>1, HadEach, Zenon
<1>3. k # 0 => got[1] \in Seq(Byte) /\ Len(got[1]) = k
  <2>1. \A x \in Nat : (x + 1) - 1 = x
    OBVIOUS
  <2>2. WholeAsk(c).bytes = k
    BY <1>1, <2>1 DEF WholeAsk, ReadCount
  <2> QED BY <1>2, <2>2, Zenon DEF Answer
<1>4. l > 1 => got[w + 1] \in Seq(Byte) /\ Len(got[w + 1]) = 1
  <2>1. PartAsk(c).bytes = 1
    BY DEF PartAsk
  <2> QED BY <1>2, <2>1, Zenon DEF Answer
<1>5. got[w + p + 1] \in Seq(Byte) /\ Len(got[w + p + 1]) = 1
  <2>1. LastAsk(c).bytes = 1
    BY DEF LastAsk
  <2> QED BY <1>2, <2>1, Zenon DEF Answer
<1>6. \A s \in Seq(Byte) : Len(s) = 1 => s[1] \in 0 .. 255
  <2> TAKE s \in Seq(Byte)
  <2>1. Len(s) = 1 => 1 \in 1 .. Len(s)
    OBVIOUS
  <2>2. \A i \in 1 .. Len(s) : s[i] \in Byte
    BY ElementOfSeq
  <2> QED BY <2>1, <2>2, Zenon DEF Byte
<1> DEFINE part == PartOf(c, got)
<1> DEFINE bit == BitOf(got[w + p + 1][1], 7)
<1> DEFINE z == Combined(part, bit, l)
<1>7. part \in 0 .. 255 /\ bit \in Bit
  <2>1. l > 1 => got[w + 1][1] \in 0 .. 255
    BY <1>4, <1>6, Zenon
  <2>2. got[w + p + 1][1] \in 0 .. 255
    BY <1>5, <1>6, Zenon
  <2>3. bit \in Bit
    <3>1. \A x \in 0 .. 255 : x \in Nat
      OBVIOUS
    <3>2. 7 \in 0 .. 7
      OBVIOUS
    <3> QED BY <2>2, <3>1, <3>2, BitOfType, Zenon
  <2>4. 0 \in 0 .. 255
    OBVIOUS
  <2>5. part \in 0 .. 255
    BY <1>1, <2>1, <2>4, Zenon DEF PartOf
  <2> QED BY <2>3, <2>5
<1>8. z \in Byte
  BY <1>7, CombinedBits, Zenon DEF Byte
<1>9. /\ LastByte(got) = got[w + p + 1]
      /\ l > 1 => got[Len(got) - 1] = got[w + 1]
  <2>1. p = 1 => (w + p + 1) - 1 = w + 1
    OBVIOUS
  <2> QED BY <1>1, <1>2, <2>1, Zenon DEF LastByte
<1> DEFINE whole == IF Len(c.b) > 1 THEN got[1] ELSE <<>>
<1>10. whole \in Seq(Byte) /\ Len(whole) = k /\ \A i \in 1 .. k : whole[i] = got[1][i]
  <2>1. CASE k # 0
    BY <1>1, <1>3, <2>1, Zenon
  <2>2. CASE k = 0
    <3>1. <<>> \in Seq(Byte) /\ Len(<<>>) = 0 /\ 1 .. 0 = {}
      OBVIOUS
    <3>2. whole = <<>>
      BY <1>1, <2>2, Zenon
    <3> HIDE DEF whole
    <3> QED BY <2>2, <3>1, <3>2, Zenon
  <2> QED BY <2>1, <2>2
<1>11. Assembled(c, got) = whole \o <<z>>
  <2>1. (IF c.lst > 1 THEN PartIn(got[Len(got) - 1][1]) ELSE 0) = PartIn(part)
    <3>1. 0 \div 2 = 0
      OBVIOUS
    <3>2. CASE l > 1
      BY <1>1, <1>9, <3>2, Zenon DEF PartOf
    <3>3. CASE ~ (l > 1)
      BY <1>1, <3>1, <3>3, Zenon DEF PartOf, PartIn
    <3> QED BY <3>2, <3>3
  <2> HIDE DEF part, whole
  <2>2. 128 * BitOf(LastByte(got)[1], 7) = 128 * bit
    BY <1>9, Zenon
  <2> HIDE DEF bit
  <2> QED BY <1>1, <2>1, <2>2, Zenon DEF Assembled, Combined, whole
<1> DEFINE r == whole \o <<z>>
<1> HIDE DEF whole, z
<1>12. /\ r \in Seq(Byte) /\ (\A i \in 1 .. k : r[i] = whole[i]) /\ r[k + 1] = z
  <2> DEFINE t == <<z>>
  <2>1. t \in Seq(Byte) /\ Len(t) = 1 /\ t[1] = z
    BY <1>8
  <2> HIDE DEF t
  <2>2. PICK m \in Nat : m = 1
    OBVIOUS
  <2>3. /\ whole \o t \in Seq(Byte) /\ (\A i \in 1 .. k : (whole \o t)[i] = whole[i])
        /\ \A i \in 1 .. m : (whole \o t)[k + i] = t[i]
    <3>1. whole \in Seq(Byte) /\ t \in Seq(Byte) /\ Len(whole) = k /\ Len(t) = m
      BY <1>10, <2>1, <2>2, Zenon
    <3> QED BY <3>1, ConcatParts
  <2>4. 1 \in 1 .. m
    BY <2>2
  <2> QED BY <2>1, <2>3, <2>4, Zenon DEF t
<1> HIDE DEF r
<1>13. Len(c.b) - 1 = k
  BY <1>1
<1>14. /\ \A i \in 1 .. Len(c.b) - 1 : r[i] = got[1][i]
       /\ r[Len(c.b)] = Combined(part, bit, c.lst)
  <2>1. r[Len(c.b)] = z
    BY <1>1, <1>12, Zenon
  <2>2. \A i \in 1 .. k : r[i] = got[1][i]
    BY <1>10, <1>12, Zenon
  <2> QED BY <1>1, <1>13, <2>1, <2>2, Zenon DEF z
<1> QED BY <1>7, <1>11, <1>12, <1>14, Zenon DEF Assembly, r

\* A bit of all but the last byte, or one of those before the last bit.
LEMMA BitsPlace ==
    ASSUME NEW k \in Nat, NEW l \in 1 .. 8, NEW i \in 1 .. (8 * k + l) - 1
    PROVE  \/ \E j \in 1 .. k, q \in 1 .. 8 :
                /\ i = 8 * (j - 1) + q /\ i \in 1 .. 8 * k
                /\ ((i - 1) \div 8) + 1 = j /\ (i - 1) % 8 = q - 1
           \/ \E q \in 1 .. l - 1 :
                i = 8 * k + q /\ ((i - 1) \div 8) + 1 = k + 1 /\ (i - 1) % 8 = q - 1
<1> DEFINE d == (i - 1) \div 8
<1> DEFINE m == (i - 1) % 8
<1>1. d \in Nat /\ m \in 0 .. 7 /\ i - 1 = 8 * d + m
  OBVIOUS
<1> HIDE DEF d, m
<1>2. CASE d < k
  <2>1. d + 1 \in 1 .. k /\ m + 1 \in 1 .. 8 /\ i = 8 * ((d + 1) - 1) + (m + 1)
        /\ i \in 1 .. 8 * k /\ m = (m + 1) - 1
    BY <1>1, <1>2
  <2> QED BY <2>1, Zenon DEF d, m
<1>3. CASE ~ (d < k)
  <2>1. d = k
    BY <1>1, <1>3
  <2>2. m + 1 \in 1 .. l - 1 /\ i = 8 * k + (m + 1) /\ m = (m + 1) - 1
    BY <1>1, <2>1
  <2> QED BY <2>1, <2>2, Zenon DEF d, m
<1> QED BY <1>2, <1>3

WholeHeld(bytes, k, out) ==
    \A j \in 1 .. k, q \in 1 .. 8 : BitOf(bytes[j], q - 1) = out[8 * (j - 1) + q].tdo
PartHeld(bytes, from, n, out) ==
    \A q \in 1 .. n : BitOf(bytes[1], 7 - n + q) = out[from + q].tdo

\* Whole bytes hold eight bits each ...
LEMMA WholeHold ==
    ASSUME NEW k \in Nat, NEW bytes, NEW out, Hold(bytes, OutBits(out, 0, 8 * k))
    PROVE  WholeHeld(bytes, k, out)
<1> SUFFICES ASSUME NEW j \in 1 .. k, NEW q \in 1 .. 8
             PROVE  BitOf(bytes[j], q - 1) = out[8 * (j - 1) + q].tdo
  BY Zenon DEF WholeHeld
<1> DEFINE bits == OutBits(out, 0, 8 * k)
<1>1. Len(bits) = 8 * k /\ bits[8 * (j - 1) + q] = out[0 + (8 * (j - 1) + q)].tdo
  <2>1. 8 * k \in Nat /\ 8 * (j - 1) + q \in 1 .. 8 * k
    OBVIOUS
  <2>2. bits = [i \in 1 .. 8 * k |-> out[0 + i].tdo]
    BY Zenon DEF OutBits
  <2>3. \A n \in Nat : \A f : f = [i \in 1 .. n |-> out[0 + i].tdo] => Len(f) = n
    OBVIOUS
  <2> HIDE DEF bits
  <2>4. Len(bits) = 8 * k
    BY <2>1, <2>2, <2>3, Zenon
  <2> QED BY <2>1, <2>2, <2>4, Zenon
<1>2. (8 * k + 7) \div 8 = k /\ 7 - 8 + q = q - 1 /\ 0 + (8 * (j - 1) + q) = 8 * (j - 1) + q
  OBVIOUS
<1> DEFINE filled == IF j < k THEN 8 ELSE 8 * k - 8 * (k - 1)
<1>3. filled = 8
  <2>1. 8 * k - 8 * (k - 1) = 8
    OBVIOUS
  <2> QED BY <2>1, Zenon
<1> HIDE DEF bits
<1>4. \A h \in 1 .. filled : BitOf(bytes[j], 7 - filled + h) = bits[8 * (j - 1) + h]
  BY <1>1, <1>2, ZenonT(60) DEF Hold, bits
<1> HIDE DEF filled
<1> QED BY <1>1, <1>2, <1>3, <1>4, Zenon

\* ... a single one has what it holds at the top.
LEMMA PartHold ==
    ASSUME NEW from \in Nat, NEW n \in 1 .. 7, NEW bytes, NEW out,
           Hold(bytes, OutBits(out, from, n))
    PROVE  PartHeld(bytes, from, n, out)
<1> SUFFICES ASSUME NEW q \in 1 .. n
             PROVE  BitOf(bytes[1], 7 - n + q) = out[from + q].tdo
  BY Zenon DEF PartHeld
<1> DEFINE bits == OutBits(out, from, n)
<1>1. Len(bits) = n /\ bits[q] = out[from + q].tdo
  <2>1. bits = [i \in 1 .. n |-> out[from + i].tdo]
    BY Zenon DEF OutBits
  <2>2. \A m \in 1 .. 7 : \A f : f = [i \in 1 .. m |-> out[from + i].tdo] => Len(f) = m
    OBVIOUS
  <2> HIDE DEF bits
  <2>3. Len(bits) = n
    BY <2>1, <2>2, Zenon
  <2> QED BY <2>1, <2>3, Zenon
<1>2. (n + 7) \div 8 = 1 /\ 1 \in 1 .. 1 /\ ~ (1 < 1) /\ n - 8 * (1 - 1) = n
      /\ 8 * (1 - 1) + q = q
  OBVIOUS
<1> HIDE DEF bits
<1>3. \A j \in 1 .. 1 : \A h \in 1 .. (IF j < 1 THEN 8 ELSE n - 8 * (1 - 1)) :
        BitOf(bytes[j], 7 - (IF j < 1 THEN 8 ELSE n - 8 * (1 - 1)) + h) = bits[8 * (j - 1) + h]
  BY <1>1, <1>2, Zenon DEF Hold, bits
<1> DEFINE filled == IF 1 < 1 THEN 8 ELSE n - 8 * (1 - 1)
<1>4. filled = n
  BY <1>2, Zenon
<1>5. \A h \in 1 .. filled : BitOf(bytes[1], 7 - filled + h) = bits[8 * (1 - 1) + h]
  BY <1>2, <1>3, Zenon
<1> HIDE DEF filled
<1> QED BY <1>1, <1>2, <1>4, <1>5, Zenon

BitsBack(c, r, shifted) == \A i \in 1 .. Bits(c) - 1 : BitsOf(r, Bits(c))[i] = shifted[i].tdo

\* The bits of what is returned, but the last, are those that came out.
LEMMA ReadsBits ==
    ASSUME NEW c \in ProperCall, LastOut(c.b, c.lst) <= 255, NEW got, NEW begun \in Shifting,
           NEW shifted, HadAll(c, got, begun, shifted), NEW r, Assembly(c, got, r)
    PROVE  BitsBack(c, r, shifted)
<1> SUFFICES ASSUME NEW i \in 1 .. Bits(c) - 1
             PROVE  BitsOf(r, Bits(c))[i] = shifted[i].tdo
  BY Zenon DEF BitsBack
<1>1. PICK k \in Nat, l \in 1 .. 8, n \in Nat :
        /\ k + 1 = Len(c.b) /\ Len(c.b) - 1 = k /\ l = c.lst /\ n = Bits(c) /\ n = 8 * k + l
        /\ Before(c) = 8 * k
  <2>1. Len(c.b) \in Nat \ {0} /\ c.lst \in 1 .. 8 /\ Bits(c) = Before(c) + c.lst
    BY ProperType
  <2>2. \A x \in Nat \ {0} : x - 1 \in Nat /\ (x - 1) + 1 = x
    OBVIOUS
  <2>3. \A x \in Nat, y \in 1 .. 8 : 8 * x + y \in Nat
    OBVIOUS
  <2> QED BY <2>1, <2>2, <2>3, Zenon DEF Before
<1>2. i \in 1 .. (8 * k + l) - 1 /\ i \in 1 .. n
  BY <1>1
<1>3. BitsOf(r, n)[i] = BitOf(r[((i - 1) \div 8) + 1], (i - 1) % 8)
  BY <1>2, Zenon DEF BitsOf
<1>4. /\ Len(c.b) > 1 => Answer(WholeAsk(c), got[1], begun, shifted)
      /\ c.lst > 1 => Answer(PartAsk(c), got[Wholes(c) + 1], begun, shifted)
  BY HadEach, Zenon
<1>5. CASE \E j \in 1 .. k, q \in 1 .. 8 :
             /\ i = 8 * (j - 1) + q /\ i \in 1 .. 8 * k
             /\ ((i - 1) \div 8) + 1 = j /\ (i - 1) % 8 = q - 1
  <2>1. PICK j \in 1 .. k, q \in 1 .. 8 :
          /\ i = 8 * (j - 1) + q
          /\ ((i - 1) \div 8) + 1 = j /\ (i - 1) % 8 = q - 1
    BY <1>5
  <2>2. r[j] = got[1][j]
    BY <1>1, <2>1, Zenon DEF Assembly
  <2>3. Hold(got[1], OutBits(shifted, 0, 8 * k))
    <3>1. Len(c.b) > 1
      BY <1>1, <2>1
    <3>2. WholeAsk(c).kind # "last" /\ WholeAsk(c).from = 0 /\ WholeAsk(c).bits = 8 * k
      BY <1>1 DEF WholeAsk
    <3> QED BY <1>4, <3>1, <3>2, Zenon DEF Answer
  <2>4. BitOf(got[1][j], q - 1) = shifted[8 * (j - 1) + q].tdo
    <3> DEFINE bytes == got[1]
    <3>1. Hold(bytes, OutBits(shifted, 0, 8 * k))
      BY <2>3
    <3> HIDE DEF bytes
    <3>2. BitOf(bytes[j], q - 1) = shifted[8 * (j - 1) + q].tdo
      <4>1. WholeHeld(bytes, k, shifted)
        BY <3>1, WholeHold, Zenon
      <4> QED BY <4>1, Zenon DEF WholeHeld
    <3> QED BY <3>2 DEF bytes
  <2> QED BY <1>1, <1>3, <2>1, <2>2, <2>4, Zenon
<1>6. CASE \E q \in 1 .. l - 1 :
             i = 8 * k + q /\ ((i - 1) \div 8) + 1 = k + 1 /\ (i - 1) % 8 = q - 1
  <2>1. PICK q \in 1 .. l - 1 :
          i = 8 * k + q /\ ((i - 1) \div 8) + 1 = k + 1 /\ (i - 1) % 8 = q - 1
    BY <1>6
  <2>2. l > 1 /\ l - 1 \in 1 .. 7 /\ 7 - (l - 1) + q = (8 - l) + q
    BY <2>1
  <2> DEFINE part == got[Wholes(c) + 1]
  <2>3. Hold(part, OutBits(shifted, 8 * k, l - 1))
    <3>1. PartAsk(c).kind # "last" /\ PartAsk(c).from = 8 * k /\ PartAsk(c).bits = l - 1
      BY <1>1 DEF PartAsk
    <3> QED BY <1>1, <1>4, <2>2, <3>1, Zenon DEF Answer
  <2>4. PICK bit \in Bit : r[k + 1] = Combined(PartOf(c, got), bit, l)
    BY <1>1, Zenon DEF Assembly
  <2>5. PartOf(c, got) = part[1] /\ part[1] \in 0 .. 255
    BY <1>1, <2>2, Zenon DEF Assembly, PartOf
  <2> HIDE DEF part
  <2>6. BitOf(Combined(part[1], bit, l), q - 1) = BitOf(part[1], (8 - l) + q)
    BY <2>5, CombinedBits, ZenonT(60)
  <2>7. BitOf(part[1], 7 - (l - 1) + q) = shifted[8 * k + q].tdo
    <3>1. 8 * k \in Nat
      OBVIOUS
    <3> DEFINE from == 8 * k
    <3> DEFINE m == l - 1
    <3>2. Hold(part, OutBits(shifted, from, m)) /\ from \in Nat /\ m \in 1 .. 7 /\ q \in 1 .. m
      BY <2>2, <2>3, <3>1, Zenon
    <3> HIDE DEF from, m
    <3>3. BitOf(part[1], 7 - m + q) = shifted[from + q].tdo
      <4>1. PartHeld(part, from, m, shifted)
        BY <3>2, PartHold, Zenon
      <4> QED BY <3>2, <4>1, Zenon DEF PartHeld
    <3> QED BY <3>3, Zenon DEF from, m
  <2> QED BY <1>1, <1>3, <2>1, <2>2, <2>4, <2>5, <2>6, <2>7, Zenon
<1> QED BY <1>2, <1>5, <1>6, BitsPlace, Zenon

-----------------------------------------------------------------------------
(* An answer is read. *)

\* The script goes on with the next question, or it has all.
LEMMA ReadKeeps ==
    ASSUME ShortShifts, Framed, Read
    PROVE  Framed'
<1>1. Typed /\ status = "busy" /\ call \in Calls /\ (Starting \/ Writing \/ Awaiting)
  BY Zenon DEF Read, NextStep, Framed
<1>2. /\ NextStep("read")
      /\ Len(toHost) >= Head(steps).n
      /\ reads' = Append(reads, SubSeq(toHost, 1, Head(steps).n))
      /\ toHost' = Drop(toHost, Head(steps).n)
      /\ Proceed(reads')
      /\ call' = call /\ calls' = calls /\ toDevice' = toDevice /\ port' = port
      /\ start' = start /\ trace' = trace
  BY Zenon DEF Read
<1>3. /\ "read" # "write" /\ "read" # "raise" /\ "ok" # "busy"
      /\ {"ok", "busy"} \subseteq {"idle", "busy", "ok", "error"}
  OBVIOUS
<1>4. ~ Starting
  BY <1>1, <1>2, <1>3, NextOfStart, Zenon DEF Starting
<1>5. ~ Writing
  <2> SUFFICES ASSUME Writing PROVE FALSE
    OBVIOUS
  <2>1. PICK n, h : call \in ProperCall /\ steps # <<>> /\ Continues(call, n, h, steps)
    BY Zenon DEF Writing
  <2>2. "read" = "raise" \/ ("read" = "write" /\ Asking(call, n, h, steps))
    BY <1>2, <2>1, NextOfQuestion, Zenon
  <2> QED BY <1>3, <2>2
<1>6. PICK a \in Asks(call) : /\ call \in ProperCall /\ steps = <<ReadStep(a.bytes)>> \o a.rest
                              /\ HadSoFar(call, a.answers)
                              /\ Pending(call, a) \/ Arrived(call, a)
  BY <1>1, <1>4, <1>5, Zenon DEF Awaiting
<1>7. a.rest \in Seq(Step) /\ ReadStep(a.bytes) \in Step /\ Head(steps) = ReadStep(a.bytes)
      /\ Head(steps).n = a.bytes
  BY <1>6, AskHead, StepForms, Zenon
<1>8. a.bytes \in Nat \ {0}
  BY <1>6, AskType
<1>9. Arrived(call, a)
  <2>1. ASSUME toHost = <<>> PROVE FALSE
    <3>1. Len(<<>>) = 0 /\ \A n \in Nat \ {0} : ~ (0 >= n)
      OBVIOUS
    <3> QED BY <1>2, <1>7, <1>8, <2>1, <3>1, Zenon
  <2> QED BY <1>6, <2>1, Zenon DEF Pending
<1>10. /\ toDevice = <<>> /\ toHost \in Seq(Byte) /\ Len(toHost) = a.bytes
       /\ Answer(a, toHost, start, trace) /\ Shifted(call, a.from + a.bits)
  BY <1>9, Zenon DEF Arrived, Answer
<1>11. /\ SubSeq(toHost, 1, a.bytes) = toHost /\ Drop(toHost, a.bytes) = <<>>
  <2>1. \A s \in Seq(Byte) : SubSeq(s, 1, Len(s)) = s
    <3> TAKE s \in Seq(Byte)
    <3> DEFINE u == SubSeq(s, 1, Len(s))
    <3>1. u \in Seq(Byte) /\ Len(u) = Len(s) /\ \A i \in 1 .. Len(s) : u[i] = s[i]
      OBVIOUS
    <3> HIDE DEF u
    <3>2. u = s
      BY <3>1, SeqEqual
    <3> QED BY <3>2 DEF u
  <2>2. \A s \in Seq(Byte) : SubSeq(s, Len(s) + 1, Len(s)) = <<>>
    OBVIOUS
  <2> QED BY <1>10, <2>1, <2>2, Zenon DEF Drop
<1>12. reads' = Append(reads, toHost) /\ toHost' = <<>>
  BY <1>2, <1>7, <1>11, Zenon
<1>13. reads \in Seq(Seq(Byte)) /\ <<>> \in Seq(Byte) /\ reads' \in Seq(Seq(Byte))
  <2>1. \A S : \A s \in Seq(S) : \A x \in S : Append(s, x) \in Seq(S)
    OBVIOUS
  <2>2. <<>> \in Seq(Byte)
    OBVIOUS
  <2>3. reads \in Seq(Seq(Byte))
    BY <1>1, Zenon DEF Typed
  <2> QED BY <1>10, <1>12, <2>1, <2>2, <2>3, Zenon
<1> DEFINE n == a.from + a.bits
<1> DEFINE h == a.answers + 1
<1>14. Had(call, h, reads', start, trace)
  <2>1. Had(call, a.answers, reads, start, trace)
    BY <1>6, Zenon DEF HadSoFar
  <2> QED BY <1>6, <1>10, <1>12, <1>13, <2>1, HadNext, Zenon
<1>15. Continues(call, n, h, a.rest)
  BY <1>6, AskContinues, Zenon
<1>16. /\ steps' = a.rest
       /\ status' = (IF a.rest = <<>> THEN "ok" ELSE "busy")
       /\ result' = (IF a.rest = <<>> /\ call.op # "toRTI" THEN Assembled(call, reads')
                     ELSE result)
  BY <1>2, <1>6, <1>7, ProceedForms, Zenon
<1>17. call.op # "toRTI"
  BY <1>6 DEF ProperCall
<1>18. Queue(<<>>, <<>>, 0)
  BY QueueEmpty
<1>19. CASE a.rest # <<>>
  <2>1. status' = "busy" /\ steps' = a.rest /\ result' = result
    BY <1>16, <1>19, Zenon
  <2>2. Quiet(call, n, h)'
    <3>1. Shifted(call, n)'
      BY <1>2, <1>10, Zenon DEF Shifted
    <3> QED BY <1>2, <1>10, <1>12, <1>18, <3>1, Zenon DEF Quiet
  <2>3. Writing'
    <3> HIDE DEF n, h
    <3> QED BY <1>2, <1>6, <1>14, <1>15, <1>19, <2>1, <2>2, Zenon DEF Writing, HadSoFar, Quiet, Shifted
  <2>4. Typed'
    BY <1>1, <1>2, <1>7, <1>12, <1>13, <2>1, Zenon DEF Typed
  <2> QED BY <1>1, <1>2, <1>3, <2>1, <2>3, <2>4, Zenon DEF Framed
<1>20. CASE a.rest = <<>>
  <2>1. status' = "ok" /\ steps' = <<>> /\ result' = Assembled(call, reads')
    BY <1>16, <1>17, <1>20, Zenon
  <2>2. n = Bits(call) /\ h = Wholes(call) + Parts(call) + 1
    <3>1. <<RaiseStep>> # <<>>
      OBVIOUS
    <3>2. \A d \in Asks(call) : AskSteps(d) # <<>>
      BY <1>6, AskHead, Zenon
    <3> QED BY <1>15, <1>20, <3>1, <3>2, Zenon DEF Continues
  <2>3. LastOut(call.b, call.lst) <= 255
    <3>1. a.kind = "last"
      BY <1>6, <2>2, AskType, Zenon
    <3>2. WholeAsk(call).kind # "last" /\ PartAsk(call).kind # "last"
      BY DEF WholeAsk, PartAsk
    <3> QED BY <1>6, <3>1, <3>2, AskForms, Zenon
  <2>4. HadAll(call, reads', start, trace)
    BY <1>14, <2>2, Zenon DEF HadAll
  <2>5. result' \in Seq(Byte)
    BY <1>6, <1>13, <2>1, <2>3, <2>4, AssembledForm, Zenon DEF Assembly
  <2>6. Shifted(call, Bits(call))'
    BY <1>2, <1>10, <2>2, Zenon DEF Shifted
  <2>7. Complied'
    BY <1>2, <1>6, <1>10, <2>1, <2>3, <2>4, <2>6, Zenon DEF Complied, HadSoFar, HadAll, Shifted
  <2>8. Returned'
    BY <1>2, <1>17, <2>7, Zenon DEF Returned
  <2>9. OnlyPaths'
    BY <1>2, <1>10, <1>12, <1>18, Zenon DEF OnlyPaths
  <2>10. Typed'
    BY <1>1, <1>2, <1>7, <1>12, <1>13, <1>20, <2>1, <2>5, Zenon DEF Typed
  <2> QED BY <1>1, <1>2, <1>3, <2>1, <2>8, <2>9, <2>10, Zenon DEF Framed
<1> QED BY <1>19, <1>20

-----------------------------------------------------------------------------
(* The device executes what is at the head. *)

\* What a path leaves of everything but the queue.
PathDone ==
    /\ ScriptRests /\ port' \in LivePort /\ port'.source = "jtag"
    /\ toHost' = toHost /\ start' = port'.tap /\ start' \in TapStates /\ trace' = <<>>
    /\ toDevice' \in Seq(Byte)

\* It leaves what is typed typed, and no question is begun.
LEMMA PathDoneKeeps ==
    ASSUME Typed, PathDone
    PROVE  /\ Typed' /\ toHost' = toHost /\ start' = port'.tap /\ trace' = <<>>
           /\ call' = call /\ steps' = steps /\ reads' = reads /\ status' = status
           /\ result' = result
           /\ \A c \in ProperCall : Reached(c, 0, start', port'.tap, trace')
           /\ \A c \in ProperCall : \A s : Had(c, 0, reads, s, trace) => Had(c, 0, reads', start', trace')
<1>1. /\ toHost' = toHost /\ start' = port'.tap /\ trace' = <<>> /\ start' \in TapStates
      /\ port' \in LivePort /\ port'.source = "jtag" /\ toDevice' \in Seq(Byte)
      /\ call' = call /\ steps' = steps /\ reads' = reads /\ status' = status
      /\ result' = result /\ calls' = calls
  BY Zenon DEF PathDone, ScriptRests
<1>2. <<>> \in Seq(ShiftBit)
  OBVIOUS
<1>3. Typed'
  BY <1>1, <1>2, Zenon DEF Typed
<1>4. \A c \in ProperCall : Reached(c, 0, start', port'.tap, trace')
  BY <1>1, NothingYet, Zenon
<1>5. ASSUME NEW c \in ProperCall, NEW s, Had(c, 0, reads, s, trace)
      PROVE  Had(c, 0, reads', start', trace')
  <2>1. Len(reads) = 0
    BY <1>5, Zenon DEF Had
  <2> QED BY <1>1, <2>1, NothingYet, Zenon
<1> QED BY <1>1, <1>3, <1>4, <1>5, Zenon

\* A queue that begins with a path: the path is done.
LEMMA PathTaken ==
    ASSUME Typed, Execute, NEW c \in Seq(Byte), NEW k, Queue(toDevice, c, k), k # 0
    PROVE  PathDone /\ Queue(toDevice', c, k - 1)
BY PathStep, Zenon DEF PathDone, Queue

\* One that is empty: there is nothing to do.
LEMMA NothingToDo ==
    ASSUME Execute
    PROVE  toDevice # <<>> /\ ~ Queue(toDevice, <<>>, 0)
<1>1. toDevice # <<>>
  BY ExecuteForms, Zenon DEF Complete
<1> QED BY <1>1, QueueEmpty, Zenon

\* Between calls.
LEMMA ExecuteIdle ==
    ASSUME Framed, Execute, status # "busy"
    PROVE  Framed'
<1>1. /\ Typed /\ steps = <<>> /\ OnlyPaths /\ status \in {"idle", "busy", "ok", "error"}
      /\ status = "ok" => call \in Calls /\ Returned
  BY Zenon DEF Framed
<1>2. PICK k : Queue(toDevice, <<>>, k) /\ toHost = <<>>
  BY <1>1, Zenon DEF OnlyPaths
<1>3. k # 0
  BY <1>2, NothingToDo, Zenon
<1>4. <<>> \in Seq(Byte)
  OBVIOUS
<1>5. PathDone /\ Queue(toDevice', <<>>, k - 1)
  BY <1>1, <1>2, <1>3, <1>4, PathTaken, Zenon
<1>6. /\ Typed' /\ toHost' = toHost /\ steps' = steps /\ status' = status /\ call' = call
  BY <1>1, <1>5, PathDoneKeeps, Zenon
<1>7. OnlyPaths'
  BY <1>2, <1>5, <1>6, Zenon DEF OnlyPaths
<1>8. ASSUME status = "ok" PROVE call' \in Calls /\ Returned'
  <2>1. call.op = "toRTI" /\ WillIdle
    BY <1>1, <1>8, NothingToDo, Zenon DEF Returned, Complied
  <2>2. PICK j : Queue(toDevice, IdlePath, j)
    BY <2>1, NothingToDo, Zenon DEF WillIdle
  <2>3. IdlePath \in Seq(Byte)
    BY PathForms DEF Paths
  <2>4. CASE j = 0
    <3>1. toDevice = IdlePath
      BY <2>2, <2>3, <2>4, QueueEnds, Zenon
    <3>2. toDevice' = <<>> /\ port'.tap = "RunTestIdle"
      BY <1>1, <3>1, IdleStep, Zenon
    <3> QED BY <1>1, <1>6, <1>8, <2>1, <3>2, Zenon DEF Returned, WillIdle
  <2>5. CASE j # 0
    <3>1. Queue(toDevice', IdlePath, j - 1)
      BY <1>1, <2>2, <2>3, <2>5, PathTaken, Zenon
    <3> QED BY <1>1, <1>6, <1>8, <2>1, <3>1, Zenon DEF Returned, WillIdle
  <2> QED BY <2>4, <2>5
<1> QED BY <1>1, <1>6, <1>7, <1>8, Zenon DEF Framed

\* Before the first question.
LEMMA ExecuteStarting ==
    ASSUME Typed, Starting, Execute
    PROVE  Typed' /\ Starting' /\ status' = status /\ call' = call
<1>1. PICK k : Queue(toDevice, <<>>, k) /\ toHost = <<>> /\ steps = Steps(call) /\ reads = <<>>
  BY Zenon DEF Starting, OnlyPaths
<1>2. <<>> \in Seq(Byte) /\ k # 0
  BY <1>1, NothingToDo
<1>3. PathDone /\ Queue(toDevice', <<>>, k - 1)
  BY <1>1, <1>2, PathTaken, Zenon
<1>4. /\ Typed' /\ toHost' = toHost /\ steps' = steps /\ status' = status /\ call' = call
      /\ reads' = reads
  BY <1>3, PathDoneKeeps, Zenon
<1> QED BY <1>1, <1>3, <1>4, Zenon DEF Starting, OnlyPaths

\* With nothing asked.
LEMMA ExecuteWriting ==
    ASSUME Typed, Writing, Execute
    PROVE  Typed' /\ Writing' /\ status' = status /\ call' = call
<1>1. PICK n, h, k :
        /\ call \in ProperCall /\ steps # <<>> /\ Continues(call, n, h, steps)
        /\ Had(call, h, reads, start, trace) /\ toHost = <<>> /\ Queue(toDevice, <<>>, k)
        /\ k # 0 => n = 0 /\ h = 0
  BY Zenon DEF Writing, Quiet, HadSoFar
<1>2. <<>> \in Seq(Byte) /\ k # 0
  BY <1>1, NothingToDo
<1>3. PathDone /\ Queue(toDevice', <<>>, k - 1) /\ n = 0 /\ h = 0
  BY <1>1, <1>2, PathTaken, Zenon
<1>4. /\ Typed' /\ toHost' = toHost /\ steps' = steps /\ status' = status /\ call' = call
      /\ reads' = reads
      /\ Reached(call, 0, start', port'.tap, trace') /\ Had(call, 0, reads', start', trace')
  BY <1>1, <1>3, PathDoneKeeps, Zenon
<1>5. Quiet(call, 0, 0)'
  BY <1>1, <1>3, <1>4, Zenon DEF Quiet, Shifted
<1>6. HadSoFar(call, 0)'
  BY <1>4, Zenon DEF HadSoFar
<1>7. Continues(call', 0, 0, steps')
  BY <1>1, <1>3, <1>4, Zenon
<1> QED BY <1>1, <1>4, <1>5, <1>6, <1>7, Zenon DEF Writing, Quiet, HadSoFar, Shifted

\* With a question on its way.
LEMMA ExecuteAwaiting ==
    ASSUME Typed, Awaiting, Execute
    PROVE  Typed' /\ Awaiting' /\ status' = status /\ call' = call
<1>1. PICK a \in Asks(call) :
        /\ call \in ProperCall /\ steps = <<ReadStep(a.bytes)>> \o a.rest
        /\ Had(call, a.answers, reads, start, trace)
        /\ Pending(call, a) \/ Arrived(call, a)
  BY Zenon DEF Awaiting, HadSoFar
<1>2. ~ Arrived(call, a)
  BY NothingToDo, Zenon DEF Arrived
<1>3. PICK k : /\ toHost = <<>> /\ Queue(toDevice, a.cmd, k)
               /\ k # 0 => a.from = 0 /\ a.answers = 0
               /\ k = 0 => Reached(call, a.from, start, port.tap, trace)
  BY <1>1, <1>2, Zenon DEF Pending, Shifted
<1>4. a.cmd \in Seq(Byte)
  BY <1>1, AskType
<1>5. CASE k # 0
  <2>1. PathDone /\ Queue(toDevice', a.cmd, k - 1) /\ a.from = 0 /\ a.answers = 0
    BY <1>3, <1>4, <1>5, PathTaken, Zenon
  <2>2. /\ Typed' /\ toHost' = toHost /\ steps' = steps /\ status' = status /\ call' = call
        /\ reads' = reads
        /\ Reached(call, 0, start', port'.tap, trace') /\ Had(call, 0, reads', start', trace')
    BY <1>1, <2>1, PathDoneKeeps, Zenon
  <2>3. Pending(call, a)'
    BY <1>3, <2>1, <2>2, Zenon DEF Pending, Shifted
  <2>4. HadSoFar(call, a.answers)'
    BY <2>1, <2>2, Zenon DEF HadSoFar
  <2> QED BY <1>1, <2>2, <2>3, <2>4, Zenon DEF Awaiting, Pending, HadSoFar, Shifted
<1>6. CASE k = 0
  <2>1. toDevice = a.cmd
    BY <1>3, <1>4, <1>6, QueueEnds, Zenon
  <2>2. PICK e : /\ toDevice' = <<>> /\ start' = start /\ ScriptRests
                 /\ Made(call, a, port, e) /\ port' = e.port
                 /\ toHost' = Reply(a.cmd, e) /\ trace' = trace \o e.trace
    BY <1>1, <1>3, <2>1, AskStep, Zenon
  <2>3. /\ call' = call /\ steps' = steps /\ reads' = reads /\ status' = status
        /\ result' = result /\ calls' = calls
    BY <2>2, Zenon DEF ScriptRests
  <2>4. trace \in Seq(ShiftBit)
    BY Zenon DEF Typed
  <2>5. /\ trace' \in Seq(ShiftBit) /\ Answer(a, toHost', start', trace')
        /\ Reached(call, a.from + a.bits, start', port'.tap, trace')
        /\ Had(call, a.answers, reads', start', trace')
    <3>1. Reached(call, a.from, start, port.tap, trace)
      BY <1>3, <1>6
    <3> QED BY <1>1, <2>2, <2>3, <2>4, <3>1, AskArrives, Zenon
  <2>6. Arrived(call, a)'
    BY <2>2, <2>3, <2>5, Zenon DEF Arrived, Shifted
  <2>7. HadSoFar(call, a.answers)'
    BY <2>3, <2>5, Zenon DEF HadSoFar
  <2>8. Awaiting'
    BY <1>1, <2>3, <2>6, <2>7, Zenon DEF Awaiting, Arrived, HadSoFar, Shifted
  <2>9. Typed'
    <3>1. port' \in LivePort /\ port'.source = "jtag"
      BY <2>2, Zenon DEF Made, Typed
    <3>2. toHost' \in Seq(Byte) /\ toDevice' \in Seq(Byte)
      <4>1. <<>> \in Seq(Byte)
        OBVIOUS
      <4> QED BY <2>2, <2>5, <4>1, Zenon DEF Answer
    <3> QED BY <2>2, <2>3, <2>5, <3>1, <3>2, Zenon DEF Typed
  <2> QED BY <2>3, <2>8, <2>9
<1> QED BY <1>5, <1>6

\* In a call.
LEMMA ExecuteKeeps ==
    ASSUME Framed, Execute
    PROVE  Framed'
<1>1. CASE status = "busy"
  <2>1. Typed /\ call \in Calls /\ (Starting \/ Writing \/ Awaiting)
    BY <1>1, Zenon DEF Framed
  <2>2. /\ Typed' /\ status' = status /\ call' = call
        /\ Starting' \/ Writing' \/ Awaiting'
    BY <2>1, ExecuteStarting, ExecuteWriting, ExecuteAwaiting, Zenon
  <2>3. "busy" # "ok" /\ "busy" \in {"idle", "busy", "ok", "error"}
    OBVIOUS
  <2> QED BY <1>1, <2>1, <2>2, <2>3, Zenon DEF Framed
<1> QED BY <1>1, ExecuteIdle, Zenon

-----------------------------------------------------------------------------
(* The theorems. *)

\* As the script finds it: toRTI's path is under way, nothing was called.
LEMMA FramedInit == ASSUME Init PROVE Framed
<1>1. /\ steps = <<>> /\ reads = <<>> /\ status = "idle" /\ result = <<>> /\ calls = 0
      /\ toDevice = IdlePath /\ toHost = <<>>
      /\ port = PowerUp /\ start = "TestLogicReset" /\ trace = <<>>
  BY Zenon DEF Init
<1>2. IdlePath \in Seq(Byte) /\ Len(IdlePath) = 3 /\ IdlePath \in Paths
  BY PathForms DEF Paths
<1>3. Queue(IdlePath, <<>>, 0 + 1)
  <2>1. Queue(<<>> \o IdlePath, <<>>, 0 + 1)
    BY <1>2, QueueEmpty, QueuePath, Zenon
  <2>2. \A s \in Seq(Byte) : <<>> \o s = s
    OBVIOUS
  <2> QED BY <1>2, <2>1, <2>2, Zenon
<1>4. <<>> \in Seq(Step) /\ <<>> \in Seq(Seq(Byte)) /\ <<>> \in Seq(Byte) /\ <<>> \in Seq(ShiftBit)
  OBVIOUS
<1>5. 0 \in 0 .. MaxCalls
  BY MaxCallsAssumption
<1>6. PowerUp \in LivePort /\ PowerUp.source = "jtag"
  <2>1. PowerUp.source = "jtag" /\ [PowerUp EXCEPT !.source = "jtag"] = PowerUp
    BY DEF PowerUp
  <2>2. "jtag" \in Sources
    BY DEF Sources
  <2>3. [PowerUp EXCEPT !.source = "jtag"] \in LivePort
    BY <2>2, PowerUpType, Zenon
  <2> QED BY <2>1, <2>3, Zenon
<1>7. "TestLogicReset" \in TapStates
  BY DEF TapStates, TapPaths
<1>8. Typed
  BY <1>1, <1>2, <1>4, <1>5, <1>6, <1>7, Zenon DEF Typed
<1>9. OnlyPaths
  BY <1>1, <1>3, Zenon DEF OnlyPaths
<1>10. "idle" # "busy" /\ "idle" # "ok" /\ "idle" \in {"idle", "busy", "ok", "error"}
  OBVIOUS
<1> QED BY <1>1, <1>8, <1>9, <1>10, Zenon DEF Framed

\* A step in which nothing changes.
LEMMA FramedStutters == ASSUME Framed, UNCHANGED vars PROVE Framed'
<1>1. /\ call' = call /\ steps' = steps /\ reads' = reads /\ status' = status
      /\ result' = result /\ calls' = calls /\ toDevice' = toDevice /\ toHost' = toHost
      /\ port' = port /\ start' = start /\ trace' = trace
  BY Zenon DEF vars
<1>2. Typed => Typed'
  BY <1>1, Zenon DEF Typed
<1>3. OnlyPaths => OnlyPaths'
  BY <1>1, Zenon DEF OnlyPaths
<1>4. Starting => Starting'
  BY <1>1, <1>3, Zenon DEF Starting
<1>5. Writing => Writing'
  <2> SUFFICES ASSUME Writing PROVE Writing'
    OBVIOUS
  <2>1. PICK n, h : /\ call \in ProperCall /\ steps # <<>> /\ Continues(call, n, h, steps)
                    /\ Quiet(call, n, h) /\ HadSoFar(call, h)
    BY Zenon DEF Writing
  <2>2. Quiet(call, n, h)' /\ HadSoFar(call, h)'
    BY <1>1, <2>1, Zenon DEF Quiet, Shifted, HadSoFar
  <2> QED BY <1>1, <2>1, <2>2, Zenon DEF Writing, Quiet, Shifted, HadSoFar
<1>6. Awaiting => Awaiting'
  <2> SUFFICES ASSUME Awaiting PROVE Awaiting'
    OBVIOUS
  <2>1. PICK a \in Asks(call) :
          /\ call \in ProperCall /\ steps = <<ReadStep(a.bytes)>> \o a.rest
          /\ HadSoFar(call, a.answers)
          /\ Pending(call, a) \/ Arrived(call, a)
    BY Zenon DEF Awaiting
  <2>2. HadSoFar(call, a.answers)'
    BY <1>1, <2>1, Zenon DEF HadSoFar
  <2>3. Pending(call, a)' \/ Arrived(call, a)'
    BY <1>1, <2>1, Zenon DEF Pending, Arrived, Shifted
  <2> QED BY <1>1, <2>1, <2>2, <2>3, Zenon DEF Awaiting, Pending, Arrived, Shifted, HadSoFar
<1>7. Returned => Returned'
  <2>1. WillIdle => WillIdle'
    BY <1>1, Zenon DEF WillIdle
  <2>2. Complied => Complied'
    BY <1>1, Zenon DEF Complied, Shifted, HadSoFar
  <2> QED BY <1>1, <2>1, <2>2, Zenon DEF Returned
<1> QED BY <1>1, <1>2, <1>3, <1>4, <1>5, <1>6, <1>7, Zenon DEF Framed

\* What a call has under way is what its steps say, whatever write fails and however fast the
\* device is: paths before the first question, one question or its answer, then nothing.
THEOREM FramedAlways == ASSUME ShortShifts PROVE Spec => []Framed
<1>1. Init => Framed
  BY FramedInit
<1>2. Framed /\ [Next]_vars => Framed'
  <2> SUFFICES ASSUME Framed, [Next]_vars PROVE Framed'
    OBVIOUS
  <2>1. ASSUME NEW c \in Calls, Call(c) PROVE Framed'
    BY <2>1, CallKeeps
  <2>2. CASE Write
    BY <2>2, WriteKeeps
  <2>3. CASE Read
    BY <2>3, ReadKeeps
  <2>4. CASE Raise
    BY <2>4, RaiseKeeps
  <2>5. CASE Execute
    BY <2>5, ExecuteKeeps
  <2>6. CASE UNCHANGED vars
    BY <2>6, FramedStutters
  <2> QED BY <2>1, <2>2, <2>3, <2>4, <2>5, <2>6, Zenon DEF Next, Script
<1> QED BY <1>1, <1>2, PTL DEF Spec

\* Every byte written is a byte, every step a step, a call is busy while it has steps left.
THEOREM TypesKept == ASSUME ShortShifts PROVE Spec => []TypeOK
<1>1. Framed => TypeOK
  <2> SUFFICES ASSUME Framed PROVE TypeOK
    OBVIOUS
  <2>1. /\ Typed /\ status \in {"idle", "busy", "ok", "error"}
        /\ status = "busy" => call \in Calls /\ (Starting \/ Writing \/ Awaiting)
        /\ status # "busy" => steps = <<>>
    BY Zenon DEF Framed
  <2>2. ASSUME status = "busy" PROVE steps # <<>>
    <3>1. CASE Starting
      <4>1. PICK path \in Paths, rest \in Seq(Step) : steps = <<WriteStep(path)>> \o rest
        BY <2>1, <2>2, <3>1, StartSteps, Zenon DEF Starting
      <4>2. WriteStep(path) \in Step
        BY PathForms, StepForms, Zenon
      <4>3. Len(steps) = Len(rest) + 1
        BY <4>1, <4>2, Prefixed, Zenon
      <4>4. Len(<<>>) = 0 /\ \A s \in Seq(Step) : Len(s) + 1 # 0
        OBVIOUS
      <4> QED BY <4>3, <4>4, Zenon
    <3>2. CASE Writing
      BY <3>2, Zenon DEF Writing
    <3>3. CASE Awaiting
      BY <3>3, AskHead, Zenon DEF Awaiting
    <3> QED BY <2>1, <2>2, <3>1, <3>2, <3>3
  <2>3. port \in Port
    BY <2>1 DEF Typed, LivePort
  <2>4. trace \in Seq([tdi : Bit, tdo : Bit])
    BY <2>1, Zenon DEF Typed, ShiftBit
  <2> QED BY <2>1, <2>2, <2>3, <2>4, Zenon DEF TypeOK, Typed
<1> QED BY <1>1, FramedAlways, PTL

\* The answers stay in step with the questions: between calls nothing is left to be read, and
\* what the device still has to do brings nothing.
THEOREM StaysInStep == ASSUME ShortShifts PROVE Spec => []InStep
<1>1. Framed => InStep
  <2> SUFFICES ASSUME Framed, status # "busy" PROVE toHost = <<>> /\ (toDevice # <<>> => Head(toDevice) = \h4b)
    BY Zenon DEF InStep
  <2>1. PICK k : Queue(toDevice, <<>>, k) /\ toHost = <<>>
    BY Zenon DEF Framed, OnlyPaths
  <2>2. ASSUME toDevice # <<>> PROVE Head(toDevice) = \h4b
    <3>1. k # 0 /\ <<>> \in Seq(Byte)
      BY <2>1, <2>2, QueueEmpty
    <3>2. toDevice \in Seq(Byte) /\ Len(toDevice) >= 3 /\ PathAt(toDevice, 1)
      BY <2>1, <3>1, QueueHead, Zenon
    <3> QED BY <3>2, PathTms, Zenon
  <2> QED BY <2>1, <2>2
<1> QED BY <1>1, FramedAlways, PTL

\* toRTI leads to run-test-idle from wherever the TAP was, also after an exception; a shift
\* that returns leads there too.
THEOREM AlwaysLands == ASSUME ShortShifts PROVE Spec => []Lands
<1>1. Framed => Lands
  <2> SUFFICES ASSUME Framed, toDevice = <<>>, ProperShift \/ (status = "ok" /\ call.op = "toRTI")
               PROVE  port.tap = "RunTestIdle"
    BY Zenon DEF Lands
  <2>1. status = "ok" /\ Returned
    BY Zenon DEF Framed, ProperShift
  <2>2. CASE call.op = "toRTI"
    <3>1. ~ \E k : Queue(<<>>, IdlePath, k)
      <4> SUFFICES ASSUME NEW k, Queue(<<>>, IdlePath, k) PROVE FALSE
        OBVIOUS
      <4>1. k \in Nat /\ Len(<<>>) = 3 * k + Len(IdlePath) /\ Len(IdlePath) = 3
        BY PathForms DEF Queue, Paths
      <4> QED BY <4>1
    <3> QED BY <2>1, <2>2, <3>1, Zenon DEF Returned, WillIdle
  <2>3. CASE call.op # "toRTI"
    BY <2>1, <2>3, Zenon DEF Returned, Complied, Shifted, Reached, ProperShift
  <2> QED BY <2>2, <2>3
<1> QED BY <1>1, FramedAlways, PTL

\* What a shift that returned has done.
LEMMA ShiftDone ==
    ASSUME Framed, ProperShift
    PROVE  /\ call \in ProperCall /\ start \in Shifting /\ LastOut(call.b, call.lst) <= 255
           /\ HadAll(call, reads, start, trace) /\ reads \in Seq(Seq(Byte))
           /\ result = Assembled(call, reads)
           /\ PutIn(call, Bits(call), trace)
<1>1. call.op # "toRTI" /\ start \in Shifting /\ status = "ok"
  <2>1. "shiftIR" # "toRTI" /\ "shiftDR" # "toRTI"
    OBVIOUS
  <2> QED BY <2>1 DEF ProperShift, IsShift
<1>2. Complied /\ reads \in Seq(Seq(Byte))
  BY <1>1, Zenon DEF Framed, Returned, Typed
<1> QED BY <1>1, <1>2, Zenon DEF Complied, HadAll, HadSoFar, Shifted, Reached

\* A shift that returns has put every bit of b into the register, once and in order.
THEOREM ShiftsEveryBit == ASSUME ShortShifts PROVE Spec => []ShiftsAll
<1>1. Framed => ShiftsAll
  <2> SUFFICES ASSUME Framed, ProperShift
               PROVE  [i \in DOMAIN trace |-> trace[i].tdi] = BitsOf(call.b, Bits(call))
    BY Zenon DEF ShiftsAll
  <2>1. call \in ProperCall /\ PutIn(call, Bits(call), trace)
    BY ShiftDone, Zenon
  <2>2. PICK n \in Nat : n = Bits(call)
    BY <2>1, AskType, ProperType
  <2>3. Len(trace) = n /\ trace \in Seq(ShiftBit) /\ \A i \in 1 .. n : trace[i].tdi = InBit(call, i)
    BY <2>1, <2>2, Zenon DEF PutIn, Framed, Typed
  <2>4. DOMAIN trace = 1 .. n
    BY <2>3
  <2>5. \A i \in 1 .. n : trace[i].tdi = BitOf(call.b[((i - 1) \div 8) + 1], (i - 1) % 8)
    BY <2>3, Zenon DEF InBit
  <2> QED BY <2>2, <2>4, <2>5, Zenon DEF BitsOf
<1> QED BY <1>1, FramedAlways, PTL

\* All bits it returns but the last are those that came out of the register.
THEOREM ReadsEveryBitButLast == ASSUME ShortShifts PROVE Spec => []ReadsAllButLast
<1>1. Framed => ReadsAllButLast
  <2> SUFFICES ASSUME Framed, ProperShift
               PROVE  BitsBack(call, result, trace)
    BY Zenon DEF ReadsAllButLast, BitsBack
  <2>1. /\ call \in ProperCall /\ start \in Shifting /\ LastOut(call.b, call.lst) <= 255
        /\ HadAll(call, reads, start, trace) /\ reads \in Seq(Seq(Byte))
        /\ result = Assembled(call, reads)
    BY ShiftDone, Zenon
  <2>2. Assembly(call, reads, result)
    BY <2>1, AssembledForm, Zenon
  <2> QED BY <2>1, <2>2, ReadsBits, Zenon
<1> QED BY <1>1, FramedAlways, PTL
=============================================================================
