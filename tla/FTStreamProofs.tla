--------------------------- MODULE FTStreamProofs ---------------------------
(***************************************************************************)
(* Proofs about FTStream, for every chain, whatever is called and whatever *)
(* fails: messages and answers are well formed, a call that returns leaves *)
(* the TAP where its name says, a shift puts in every bit once and brings  *)
(* back what came out, bit-banging makes one pulse of each byte; devices   *)
(* are counted and their identifiers found on chains that allow it.        *)
(***************************************************************************)
EXTENDS FTStream, JtagProofs

-----------------------------------------------------------------------------
(* The messages of the calls. *)

\* A message of the class: one that sets pins says which.
OkMsg == {m \in Msg : SetsPins(m) => m.tx # <<>>}

\* It may be exchanged.
LEMMA OkMsgExchanged ==
    ASSUME NEW m \in OkMsg
    PROVE  m \in Exchanged /\ (SetsPins(m) => m.tx # <<>>)
<1>1. m.cmd \in Nat /\ m.len \in 0 .. 255 /\ m.tx \in Seq(0 .. 255) /\ m.want \in Nat
  BY DEF OkMsg, Msg, CmdJtag, CmdTms, CmdBB, CmdTdiWO, CmdTdiRO, CmdBBSpi
<1>2. m = [cmd |-> m.cmd, len |-> m.len, tx |-> m.tx, want |-> m.want]
  BY DEF OkMsg, Msg
<1> QED BY <1>1, <1>2 DEF OkMsg, Exchanged

\* x() makes messages of requests that say in front how many bits there are.
LEMMA XType ==
    ASSUME NEW req \in Seq(0 .. 255), req # <<>>, Head(req) \in 0 .. 7 \cup 128 .. 135,
           NEW tms \in BOOLEAN
    PROVE  X(req, tms) \in OkMsg
<1>1. Tail(req) \in Seq(0 .. 255) /\ Len(req) \in Nat
  OBVIOUS
<1> QED BY <1>1 DEF X, OkMsg, Msg, SetsPins, CmdJtag, CmdTms, CmdBB, CmdTdiWO, CmdTdiRO, CmdBBSpi

\* ft() makes messages of every request.
LEMMA MessageType ==
    ASSUME NEW tx \in Seq(0 .. 255), NEW bits \in Nat, NEW tms \in Int, NEW n \in Nat
    PROVE  Message(tx, bits, tms, n) \in OkMsg
<1> DEFINE cmd == Message(tx, bits, tms, n).cmd
<1>1. LengthByte(bits, tms) \in 0 .. 7 \cup 128 .. 135
  BY DEF LengthByte, TmsTdiHi
<1>2. [i \in 1 .. n |-> 0] \in Seq(0 .. 255)
  OBVIOUS
<1>3. Message(tx, bits, tms, n).want \in Nat /\ Message(tx, bits, tms, n).tx \in Seq(0 .. 255)
  BY <1>2 DEF Message
<1>4. /\ cmd \in {CmdJtag, CmdJtag + CmdTms, CmdJtag + CmdTdiWO, CmdJtag + CmdTdiRO,
                  CmdJtag + CmdTdiRO + CmdTdiWO}
      /\ cmd # CmdJtag + CmdBB
  BY DEF Message, CmdJtag, CmdTms, CmdBB, CmdTdiWO, CmdTdiRO
<1>5. Message(tx, bits, tms, n).len = LengthByte(bits, tms)
  BY DEF Message
<1>6. Message(tx, bits, tms, n) =
        [cmd |-> cmd, len |-> Message(tx, bits, tms, n).len,
         tx |-> Message(tx, bits, tms, n).tx, want |-> Message(tx, bits, tms, n).want]
  BY DEF Message
<1> DEFINE m == Message(tx, bits, tms, n)
<1>7. m \in Msg
  <2> HIDE DEF m
  <2> SUFFICES m = [cmd |-> m.cmd, len |-> m.len, tx |-> m.tx, want |-> m.want]
               /\ m.cmd \in {CmdJtag, CmdJtag + CmdTms, CmdJtag + CmdTdiWO, CmdJtag + CmdTdiRO,
                             CmdJtag + CmdTdiRO + CmdTdiWO}
               /\ m.len \in 0 .. 7 \cup 128 .. 135 /\ m.tx \in Seq(0 .. 255) /\ m.want \in Nat
    BY DEF Msg
  <2> QED BY <1>1, <1>3, <1>4, <1>5, <1>6, Zenon DEF m
<1> QED BY <1>4, <1>7 DEF OkMsg, SetsPins

\* A byte with the clock low and with the clock high.
LEMMA ClockedType ==
    ASSUME NEW b \in 0 .. 255
    PROVE  Clocked(b) \in Seq(0 .. 255)
<1>1. PICK q \in 0 .. 31 : q = b \div 8 /\ 8 * q <= b /\ b < 8 * q + 8
  OBVIOUS
<1>2. BitOf(b, 3) = q % 2
  BY <1>1, Powers DEF BitOf
<1>3. b - 8 * (q % 2) \in 0 .. 247
  <2>1. CASE q % 2 = 0
    <3>1. q <= 30
      BY <2>1
    <3> QED BY <1>1, <2>1, <3>1
  <2>2. CASE q % 2 = 1
    <3>1. q >= 1
      BY <2>2
    <3> QED BY <1>1, <2>2, <3>1
  <2>3. q % 2 = 0 \/ q % 2 = 1
    OBVIOUS
  <2> QED BY <2>1, <2>2, <2>3
<1>4. PICK low \in 0 .. 247 : low = b - 8 * BitOf(b, 3)
  BY <1>2, <1>3
<1>5. Clocked(b) = <<low, low + 8>>
  BY <1>4 DEF Clocked
<1> QED BY <1>5

\* The message of bb().
LEMMA BangMessageType ==
    ASSUME NEW tx \in Seq(0 .. 255), NEW n \in Nat
    PROVE  BangMessage(tx, n) \in OkMsg
<1> DEFINE q == [i \in DOMAIN tx |-> Clocked(tx[i])]
<1>1. q \in Seq(Seq(0 .. 255))
  <2>1. PICK k \in Nat : k = Len(tx) /\ DOMAIN tx = 1 .. k
    OBVIOUS
  <2>2. \A i \in 1 .. k : Clocked(tx[i]) \in Seq(0 .. 255)
    BY <2>1, ElementOfSeq, ClockedType, ZenonT(60)
  <2>3. q = [i \in 1 .. k |-> Clocked(tx[i])]
    BY <2>1
  <2> HIDE DEF q
  <2> QED BY <2>2, <2>3
<1>2. FlattenSeq(q) \in Seq(0 .. 255)
  <2> HIDE DEF q
  <2> QED BY <1>1, FlattenType
<1>3. BangMessage(tx, n) = [cmd |-> CmdBBSpi, len |-> 0, tx |-> FlattenSeq(q), want |-> 2 * n]
  BY Zenon DEF BangMessage
<1> DEFINE bytes == FlattenSeq(q)
<1> HIDE DEF bytes
<1> QED BY <1>2, <1>3 DEF bytes, OkMsg, Msg, SetsPins, CmdJtag, CmdBB, CmdBBSpi

\* Requests of the paths and the fillers.
LEMMA PathMessages ==
    /\ X(<<\h07, \hff>>, TRUE) \in OkMsg /\ X(IdlePath, TRUE) \in OkMsg
    /\ X(<<\h03, \h03>>, TRUE) \in OkMsg /\ X(<<\h02, \h01>>, TRUE) \in OkMsg
    /\ X(Filler, TRUE) \in OkMsg
    /\ X(<<\h07, \hff, \hff, \hff, \hff>>, FALSE) \in OkMsg
    /\ X(<<\h07, \h00, \hff>>, FALSE) \in OkMsg
<1>1. ASSUME NEW a \in 0 .. 7 \cup 128 .. 135, NEW b \in 0 .. 255 PROVE X(<<a, b>>, TRUE) \in OkMsg
  <2>1. <<a, b>> \in Seq(0 .. 255) /\ <<a, b>> # <<>> /\ Head(<<a, b>>) = a
    OBVIOUS
  <2> QED BY <2>1, XType
<1>2. ASSUME NEW a \in 0 .. 7, NEW b \in 0 .. 255, NEW c \in 0 .. 255
      PROVE  X(<<a, b, c>>, FALSE) \in OkMsg
  <2>1. <<a, b, c>> \in Seq(0 .. 255) /\ <<a, b, c>> # <<>> /\ Head(<<a, b, c>>) = a
    OBVIOUS
  <2>2. a \in 0 .. 7 \cup 128 .. 135
    OBVIOUS
  <2> QED BY <2>1, <2>2, XType, ZenonT(60)
<1>3. ASSUME NEW a \in 0 .. 7, NEW b \in 0 .. 255
      PROVE  X(<<a, b, b, b, b>>, FALSE) \in OkMsg
  <2>1. <<a, b, b, b, b>> \in Seq(0 .. 255)
    OBVIOUS
  <2>2. <<a, b, b, b, b>> # <<>> /\ Head(<<a, b, b, b, b>>) = a
    OBVIOUS
  <2>3. a \in 0 .. 7 \cup 128 .. 135
    OBVIOUS
  <2> QED BY <2>1, <2>2, <2>3, XType, ZenonT(60)
<1>4. 7 \in 0 .. 7 /\ 3 \in 0 .. 7 /\ 2 \in 0 .. 7 /\ 132 \in 128 .. 135 /\ 255 \in 0 .. 255
      /\ 127 \in 0 .. 255 /\ 3 \in 0 .. 255 /\ 1 \in 0 .. 255 /\ 7 \in 0 .. 255 /\ 0 \in 0 .. 255
  OBVIOUS
<1>5. X(<<7, 255>>, TRUE) \in OkMsg
  BY <1>1, <1>4, ZenonT(90)
<1>6. X(<<7, 127>>, TRUE) \in OkMsg
  BY <1>1, <1>4, ZenonT(90)
<1>7. X(<<3, 3>>, TRUE) \in OkMsg
  BY <1>1, <1>4, ZenonT(90)
<1>8. X(<<2, 1>>, TRUE) \in OkMsg
  BY <1>1, <1>4, ZenonT(90)
<1>9. X(<<132, 7>>, TRUE) \in OkMsg
  BY <1>1, <1>4, ZenonT(90)
<1>10. X(<<7, 255, 255, 255, 255>>, FALSE) \in OkMsg
  BY <1>3, <1>4, ZenonT(90)
<1>11. X(<<7, 0, 255>>, FALSE) \in OkMsg
  BY <1>2, <1>4, ZenonT(90)
<1> QED BY <1>5, <1>6, <1>7, <1>8, <1>9, <1>10, <1>11, ZenonT(60) DEF IdlePath, Filler

\* A request that brings n identifiers out.
LEMMA IDMessage ==
    ASSUME NEW n \in Nat
    PROVE  X(<<\h07>> \o [i \in 1 .. 4 * n |-> 0], FALSE) \in OkMsg
<1> DEFINE zeros == [i \in 1 .. 4 * n |-> 0]
<1>1. zeros \in Seq(0 .. 255) /\ <<7>> \in Seq(0 .. 255) /\ Len(<<7>>) = 1
  OBVIOUS
<1> HIDE DEF zeros
<1> DEFINE req == <<\h07>> \o zeros
<1>2. req \in Seq(0 .. 255) /\ Len(req) = 1 + Len(zeros) /\ Len(zeros) \in Nat /\ req[1] = <<7>>[1]
  BY <1>1, ConcatProperties
<1> HIDE DEF req
<1>3. req # <<>> /\ Head(req) = 7
  BY <1>2
<1>4. X(req, FALSE) \in OkMsg
  <2>1. Head(req) \in 0 .. 7 \cup 128 .. 135
    BY <1>3
  <2> QED BY <1>2, <1>3, <2>1, XType
<1> QED BY <1>4 DEF req, zeros

\* Short sequences one behind the other.
LEMMA OneAndOne ==
    ASSUME NEW a, NEW b
    PROVE  <<a>> \o <<b>> = <<a, b>>
<1> DEFINE S == {a, b}
<1> DEFINE s == <<a>>
<1> DEFINE t == <<b>>
<1> DEFINE r == <<a, b>>
<1>1. PICK k \in Nat, m \in Nat : k = 1 /\ m = 1
  OBVIOUS
<1>2. s \in Seq(S) /\ t \in Seq(S) /\ r \in Seq(S)
  OBVIOUS
<1>3. k = Len(s) /\ m = Len(t) /\ Len(r) = k + m
  BY <1>1
<1>4. \A i \in 1 .. k : r[i] = s[i]
  BY <1>1
<1>5. \A i \in 1 .. m : r[k + i] = t[i]
  BY <1>1
<1> HIDE DEF S, s, t, r
<1>6. Glue(r, s, t, k, m)
  BY <1>3, <1>4, <1>5, Zenon DEF Glue
<1>7. s \o t = r
  BY <1>2, <1>6, Glued, Zenon
<1> QED BY <1>7 DEF s, t, r

\* Two messages and one are three.
LEMMA TwoAndOne ==
    ASSUME NEW a, NEW b, NEW c
    PROVE  <<a, b>> \o <<c>> = <<a, b, c>>
<1> DEFINE S == {a, b, c}
<1> DEFINE s == <<a, b>>
<1> DEFINE t == <<c>>
<1> DEFINE r == <<a, b, c>>
<1>1. PICK k \in Nat, m \in Nat : k = 2 /\ m = 1
  OBVIOUS
<1>2. s \in Seq(S) /\ t \in Seq(S) /\ r \in Seq(S)
  OBVIOUS
<1>3. k = Len(s) /\ m = Len(t) /\ Len(r) = k + m
  BY <1>1
<1>4. \A i \in 1 .. k : r[i] = s[i]
  BY <1>1
<1>5. \A i \in 1 .. m : r[k + i] = t[i]
  BY <1>1
<1> HIDE DEF S, s, t, r
<1>6. Glue(r, s, t, k, m)
  BY <1>3, <1>4, <1>5, Zenon DEF Glue
<1>7. s \o t = r
  BY <1>2, <1>6, Glued, Zenon
<1> QED BY <1>7 DEF s, t, r

\* Two messages and three are five, as in counting the devices.
LEMMA TwoAndThree ==
    ASSUME NEW a, NEW b, NEW c, NEW d, NEW e
    PROVE  <<a, b>> \o <<c, d, e>> = <<a, b, c, d, e>>
<1> DEFINE S == {a, b, c, d, e}
<1> DEFINE s == <<a, b>>
<1> DEFINE t == <<c, d, e>>
<1> DEFINE r == <<a, b, c, d, e>>
<1>1. PICK k \in Nat, m \in Nat : k = 2 /\ m = 3
  OBVIOUS
<1>2. s \in Seq(S) /\ t \in Seq(S) /\ r \in Seq(S)
  OBVIOUS
<1>3. k = Len(s) /\ m = Len(t) /\ Len(r) = k + m
  BY <1>1
<1>4. \A i \in 1 .. k : r[i] = s[i]
  BY <1>1
<1>5. \A i \in 1 .. m : r[k + i] = t[i]
  BY <1>1
<1> HIDE DEF S, s, t, r
<1>6. Glue(r, s, t, k, m)
  BY <1>3, <1>4, <1>5, Zenon DEF Glue
<1>7. s \o t = r
  BY <1>2, <1>6, Glued, Zenon
<1> QED BY <1>7 DEF s, t, r

\* What the multi-message calls send, message by message.
LEMMA Plans ==
    /\ ToRunTestIdle = <<X(IdlePath, TRUE)>>
    /\ ToShiftIR(TRUE) = <<X(IdlePath, TRUE), X(<<\h03, \h03>>, TRUE)>>
    /\ ToShiftIR(FALSE) = <<X(<<\h03, \h03>>, TRUE)>>
    /\ ToShiftDR(TRUE) = <<X(IdlePath, TRUE), X(<<\h02, \h01>>, TRUE)>>
    /\ ToShiftDR(FALSE) = <<X(<<\h02, \h01>>, TRUE)>>
    /\ CountChain = <<X(IdlePath, TRUE), X(<<\h03, \h03>>, TRUE),
                      X(<<\h07, \hff, \hff, \hff, \hff>>, FALSE), X(Filler, TRUE),
                      X(<<\h07, \h00, \hff>>, FALSE)>>
    /\ \A n \in Nat : GetIDs(n) = <<X(IdlePath, TRUE), X(<<\h02, \h01>>, TRUE),
                                    X(<<\h07>> \o [i \in 1 .. 4 * n |-> 0], FALSE)>>
<1>2. ToRunTestIdle = <<X(IdlePath, TRUE)>>
  BY DEF ToRunTestIdle
<1>3. ToShiftIR(TRUE) = <<X(IdlePath, TRUE), X(<<\h03, \h03>>, TRUE)>>
      /\ ToShiftIR(FALSE) = <<X(<<\h03, \h03>>, TRUE)>>
  <2>1. \A x : <<>> \o <<x>> = <<x>>
    OBVIOUS
  <2> QED BY <1>2, <2>1, OneAndOne, Zenon DEF ToShiftIR
<1>4. ToShiftDR(TRUE) = <<X(IdlePath, TRUE), X(<<\h02, \h01>>, TRUE)>>
      /\ ToShiftDR(FALSE) = <<X(<<\h02, \h01>>, TRUE)>>
  <2>1. \A x : <<>> \o <<x>> = <<x>>
    OBVIOUS
  <2> QED BY <1>2, <2>1, OneAndOne, Zenon DEF ToShiftDR
<1>5. CountChain = <<X(IdlePath, TRUE), X(<<\h03, \h03>>, TRUE),
                     X(<<\h07, \hff, \hff, \hff, \hff>>, FALSE), X(Filler, TRUE),
                     X(<<\h07, \h00, \hff>>, FALSE)>>
  <2> DEFINE a == X(IdlePath, TRUE)
  <2> DEFINE b == X(<<\h03, \h03>>, TRUE)
  <2> DEFINE c == X(<<\h07, \hff, \hff, \hff, \hff>>, FALSE)
  <2> DEFINE d == X(Filler, TRUE)
  <2> DEFINE e == X(<<\h07, \h00, \hff>>, FALSE)
  <2>1. CountChain = <<a, b>> \o <<c, d, e>>
    BY <1>3, ZenonT(60) DEF CountChain
  <2> HIDE DEF a, b, c, d, e
  <2>2. CountChain = <<a, b, c, d, e>>
    BY <2>1, TwoAndThree
  <2> QED BY <2>2 DEF a, b, c, d, e
<1>6. ASSUME NEW n \in Nat
      PROVE  GetIDs(n) = <<X(IdlePath, TRUE), X(<<\h02, \h01>>, TRUE),
                           X(<<\h07>> \o [i \in 1 .. 4 * n |-> 0], FALSE)>>
  <2> DEFINE a == X(IdlePath, TRUE)
  <2> DEFINE b == X(<<\h02, \h01>>, TRUE)
  <2> DEFINE c == X(<<\h07>> \o [i \in 1 .. 4 * n |-> 0], FALSE)
  <2>1. GetIDs(n) = <<a, b>> \o <<c>>
    BY <1>4, Zenon DEF GetIDs
  <2> HIDE DEF a, b, c
  <2>2. GetIDs(n) = <<a, b, c>>
    BY <2>1, TwoAndOne
  <2> QED BY <2>2 DEF a, b, c
<1> QED BY <1>2, <1>3, <1>4, <1>5, <1>6

\* Three in a row.
LEMMA ThreeInARow ==
    ASSUME NEW S, NEW a \in S, NEW b \in S, NEW c \in S
    PROVE  <<a, b, c>> \in Seq(S) /\ Len(<<a, b, c>>) = 3
OBVIOUS

\* getIDs sends three messages.
LEMMA GetIDsType == ASSUME NEW n \in Nat PROVE GetIDs(n) \in Seq(OkMsg) /\ Len(GetIDs(n)) = 3
<1> DEFINE m == X(<<\h07>> \o [i \in 1 .. 4 * n |-> 0], FALSE)
<1>1. m \in OkMsg
  BY IDMessage
<1> HIDE DEF m
<1> DEFINE a == X(IdlePath, TRUE)
<1> DEFINE b == X(<<\h02, \h01>>, TRUE)
<1>2. GetIDs(n) = <<a, b, m>>
  BY Plans DEF m
<1>3. a \in OkMsg /\ b \in OkMsg
  BY PathMessages
<1> HIDE DEF a, b
<1> QED BY <1>1, <1>2, <1>3, ThreeInARow

\* The bit that goes out with TMS is a bit.
LEMMA LastTdiType ==
    ASSUME NEW tx \in Seq(0 .. 255), NEW bits \in 0 .. 7
    PROVE  LastTdi(tx, bits) \in Bit
<1>1. CASE tx = <<>>
  BY <1>1 DEF LastTdi, Bit
<1>2. CASE tx # <<>>
  <2>1. PICK k \in Nat : k = Len(tx) /\ k \in 1 .. k
    BY <1>2
  <2>2. tx[k] \in 0 .. 255
    BY <2>1, ElementOfSeq
  <2>3. tx[k] \in Nat
    BY <2>2, ByteNumber, Zenon
  <2>4. LastTdi(tx, bits) = BitOf(tx[k], bits)
    BY <1>2, <2>1, Zenon DEF LastTdi
  <2> QED BY <2>3, <2>4, BitOfType
<1> QED BY <1>1, <1>2

\* Without its last byte.
LEMMA ShorterType ==
    ASSUME NEW tx \in Seq(0 .. 255)
    PROVE  /\ Shorter(tx) \in Seq(0 .. 255)
           /\ tx # <<>> => /\ Len(Shorter(tx)) = Len(tx) - 1
                           /\ \A i \in 1 .. Len(tx) - 1 : Shorter(tx)[i] = tx[i]
<1>1. CASE tx = <<>>
  BY <1>1 DEF Shorter
<1>2. CASE tx # <<>>
  <2>1. PICK k \in Nat \ {0} : k = Len(tx)
    BY <1>2
  <2>2. Shorter(tx) = SubSeq(tx, 1, k - 1)
    BY <1>2, <2>1 DEF Shorter
  <2>3. \A i \in 1 .. k - 1 : tx[i] \in 0 .. 255
    <3>1. \A i \in 1 .. k - 1 : i \in 1 .. Len(tx)
      BY <2>1
    <3> QED BY <3>1, ElementOfSeq, ZenonT(60)
  <2> DEFINE short == SubSeq(tx, 1, k - 1)
  <2>4. short \in Seq(0 .. 255) /\ Len(short) = k - 1 /\ \A i \in 1 .. k - 1 : short[i] = tx[i]
    <3>1. 1 \in Int /\ k - 1 \in Int /\ (k - 1) - 1 + 1 = k - 1
          /\ (IF 1 <= k - 1 THEN (k - 1) - 1 + 1 ELSE 0) = k - 1
          /\ \A i \in 1 .. k - 1 : 1 + i - 1 = i
      OBVIOUS
    <3>2. short \in Seq(0 .. 255) /\ Len(short) = (IF 1 <= k - 1 THEN (k - 1) - 1 + 1 ELSE 0)
          /\ \A i \in 1 .. (k - 1) - 1 + 1 : short[i] = tx[1 + i - 1]
      BY <2>3, <3>1, SubSeqProperties
    <3> HIDE DEF short
    <3> QED BY <3>1, <3>2
  <2> QED BY <2>1, <2>2, <2>3, <2>4, ZenonT(60)
<1> QED BY <1>1, <1>2

\* The two messages of a shift.
FirstShift(c) ==
    IF c.bits = 0 THEN Message(Shorter(c.tx), 7, -1, IF c.n = 0 THEN 0 ELSE c.n - 1)
    ELSE Message(c.tx, c.bits - 1, -1, c.n)

SecondShift(c) == Message(<<\h03>>, 2, LastTdi(c.tx, c.bits), 1)

\* A shift plans these two messages, or none if there is nothing to shift.
LEMMA ShiftType ==
    ASSUME NEW c \in FTCall, c.op = "shiftToRunTestIdle"
    PROVE  /\ c.tx \in Seq(0 .. 255) /\ c.bits \in 0 .. 7 /\ c.n \in Nat
           /\ FirstShift(c) \in OkMsg /\ SecondShift(c) \in OkMsg
           /\ Plan(c) = IF c.tx = <<>> /\ c.n = 0 THEN <<>> ELSE <<FirstShift(c), SecondShift(c)>>
<1>1. c.tx \in Seq(0 .. 255) /\ c.bits \in 0 .. 7 /\ c.n \in Nat
  BY DEF FTCall
<1>2. FirstShift(c) \in OkMsg
  <2>1. CASE c.bits = 0
    <3>1. (IF c.n = 0 THEN 0 ELSE c.n - 1) \in Nat /\ -1 \in Int /\ 7 \in Nat
      BY <1>1
    <3>2. Shorter(c.tx) \in Seq(0 .. 255)
      BY <1>1, ShorterType
    <3> QED BY <2>1, <3>1, <3>2, MessageType DEF FirstShift
  <2>2. CASE c.bits # 0
    <3>1. c.bits - 1 \in Nat /\ -1 \in Int
      BY <1>1, <2>2
    <3> QED BY <1>1, <2>2, <3>1, MessageType DEF FirstShift
  <2> QED BY <2>1, <2>2
<1>3. SecondShift(c) \in OkMsg
  <2>1. LastTdi(c.tx, c.bits) \in Int /\ <<3>> \in Seq(0 .. 255) /\ 2 \in Nat /\ 1 \in Nat
    BY <1>1, LastTdiType DEF Bit
  <2> QED BY <2>1, MessageType DEF SecondShift
<1>4. Plan(c) = ShiftToRunTestIdle(c.tx, c.bits, c.n)
  BY DEF Plan
<1>5. Plan(c) = IF c.tx = <<>> /\ c.n = 0 THEN <<>> ELSE <<FirstShift(c), SecondShift(c)>>
  BY <1>4, Zenon DEF ShiftToRunTestIdle, FirstShift, SecondShift
<1> QED BY <1>1, <1>2, <1>3, <1>5

\* A call that is not refused is one of these messages after the other.
LEMMA PlanType ==
    ASSUME NEW c \in FTCall
    PROVE  Plan(c) \in Seq(OkMsg)
<1>1. ASSUME NEW a \in OkMsg, NEW b \in OkMsg
      PROVE  <<>> \in Seq(OkMsg) /\ <<a>> \in Seq(OkMsg) /\ <<a, b>> \in Seq(OkMsg)
  OBVIOUS
<1>2. ToRunTestIdle \in Seq(OkMsg) /\ ToShiftIR(TRUE) \in Seq(OkMsg)
      /\ ToShiftIR(FALSE) \in Seq(OkMsg) /\ ToShiftDR(TRUE) \in Seq(OkMsg)
      /\ ToShiftDR(FALSE) \in Seq(OkMsg) /\ ToReset \in Seq(OkMsg)
  <2>1. /\ X(<<\h07, \hff>>, TRUE) \in OkMsg /\ X(IdlePath, TRUE) \in OkMsg
        /\ X(<<\h03, \h03>>, TRUE) \in OkMsg /\ X(<<\h02, \h01>>, TRUE) \in OkMsg
    BY PathMessages
  <2> DEFINE a == X(<<\h07, \hff>>, TRUE)
  <2> DEFINE b == X(IdlePath, TRUE)
  <2> DEFINE i == X(<<\h03, \h03>>, TRUE)
  <2> DEFINE d == X(<<\h02, \h01>>, TRUE)
  <2>2. ToRunTestIdle = <<b>> /\ ToShiftIR(TRUE) = <<b, i>> /\ ToShiftIR(FALSE) = <<i>>
        /\ ToShiftDR(TRUE) = <<b, d>> /\ ToShiftDR(FALSE) = <<d>> /\ ToReset = <<a>>
    BY Plans, Zenon DEF ToReset
  <2>3. a \in OkMsg /\ b \in OkMsg /\ i \in OkMsg /\ d \in OkMsg
    BY <2>1
  <2> HIDE DEF a, b, i, d
  <2> QED BY <1>1, <2>2, <2>3, Zenon
<1>3. CountChain \in Seq(OkMsg)
  <2> DEFINE a == X(IdlePath, TRUE)
  <2> DEFINE b == X(<<\h03, \h03>>, TRUE)
  <2> DEFINE e == X(<<\h07, \hff, \hff, \hff, \hff>>, FALSE)
  <2> DEFINE f == X(Filler, TRUE)
  <2> DEFINE g == X(<<\h07, \h00, \hff>>, FALSE)
  <2>1. CountChain = <<a, b, e, f, g>>
    BY Plans
  <2>2. a \in OkMsg /\ b \in OkMsg /\ e \in OkMsg /\ f \in OkMsg /\ g \in OkMsg
    BY PathMessages
  <2> HIDE DEF a, b, e, f, g
  <2>3. <<a, b, e, f, g>> \in Seq(OkMsg)
    BY <2>2
  <2> QED BY <2>1, <2>3
<1>4. CASE c.op = "toStateReset"
  BY <1>2, <1>4 DEF Plan
<1>5. CASE c.op = "toStateRunTestIdle"
  BY <1>2, <1>5 DEF Plan
<1>6. CASE c.op = "toStateShiftIR"
  <2>1. c.reset \in BOOLEAN
    BY <1>6 DEF FTCall
  <2>2. Plan(c) = ToShiftIR(c.reset)
    BY <1>6 DEF Plan
  <2> QED BY <1>2, <2>1, <2>2, Zenon
<1>7. CASE c.op = "toStateShiftDR"
  <2>1. c.reset \in BOOLEAN
    BY <1>7 DEF FTCall
  <2>2. Plan(c) = ToShiftDR(c.reset)
    BY <1>7 DEF Plan
  <2> QED BY <1>2, <2>1, <2>2, Zenon
<1>8. CASE c.op = "countChainLength"
  BY <1>3, <1>8 DEF Plan
<1>9. CASE c.op = "getIDs"
  <2>1. c.n \in Nat
    BY <1>9 DEF FTCall
  <2>2. Plan(c) = IF c.n = 0 THEN CountChain ELSE GetIDs(c.n)
    BY <1>9, <2>1 DEF Plan
  <2> QED BY <1>3, <2>1, <2>2, GetIDsType
<1>10. CASE c.op = "shiftToRunTestIdle"
  <2>1. FirstShift(c) \in OkMsg /\ SecondShift(c) \in OkMsg
        /\ Plan(c) = IF c.tx = <<>> /\ c.n = 0 THEN <<>> ELSE <<FirstShift(c), SecondShift(c)>>
    BY <1>10, ShiftType
  <2> QED BY <1>1, <2>1, Zenon
<1>11. CASE c.op = "ft"
  <2>1. c.tx \in Seq(0 .. 255) /\ c.bits \in Nat /\ c.tms \in Int /\ c.n \in Nat
    BY <1>11 DEF FTCall
  <2>2. Message(c.tx, c.bits, c.tms, c.n) \in OkMsg
    BY <2>1, MessageType
  <2>3. Plan(c) = <<Message(c.tx, c.bits, c.tms, c.n)>>
    BY <1>11 DEF Plan
  <2> QED BY <1>1, <2>2, <2>3, Zenon
<1>12. CASE c.op = "setPortLevels"
  <2>1. c.dat \in 0 .. 255
    BY <1>12, ZenonT(60) DEF FTCall
  <2>2. PinsMessage(c.dat) \in OkMsg
    BY <2>1 DEF PinsMessage, OkMsg, Msg
  <2>3. Plan(c) = <<PinsMessage(c.dat)>>
    BY <1>12 DEF Plan
  <2> QED BY <1>1, <2>2, <2>3, Zenon
<1>13. CASE c.op \in {"bb", "play"}
  <2>1. c.tx \in Seq(0 .. 255) /\ c.n \in Nat
    BY <1>13 DEF FTCall
  <2>2. BangMessage(c.tx, c.n) \in OkMsg
    BY <2>1, BangMessageType
  <2>3. Plan(c) = <<BangMessage(c.tx, c.n)>>
    BY <1>13 DEF Plan
  <2> QED BY <1>1, <2>2, <2>3, Zenon
<1>14. c.op \in {"toStateReset", "toStateRunTestIdle", "countChainLength", "toStateShiftIR",
                 "toStateShiftDR", "getIDs", "shiftToRunTestIdle", "ft", "setPortLevels",
                 "bb", "play"}
  BY DEF FTCall
<1> QED
  BY <1>4, <1>5, <1>6, <1>7, <1>8, <1>9, <1>10, <1>11, <1>12, <1>13, <1>14

\* There are at most eight zeros at the low end of a byte.
LEMMA LowZerosType ==
    ASSUME NEW b \in 0 .. 255
    PROVE  LowZeros(b) \in 0 .. 8
<1> DEFINE P(k) == (k = 8 \/ BitOf(b, k) = 1) /\ \A i \in 0 .. k - 1 : BitOf(b, i) = 0
<1>1. \E k \in 0 .. 8 : P(k)
  <2> SUFFICES ASSUME \A k \in 0 .. 8 : ~ P(k) PROVE FALSE
    OBVIOUS
  <2> DEFINE G == {k \in 0 .. 8 : \A i \in 0 .. k - 1 : BitOf(b, i) = 0}
  <2>1. 0 \in G
    OBVIOUS
  <2>2. ASSUME NEW k \in 0 .. 7, k \in G PROVE k + 1 \in G
    <3>1. k \in 0 .. 8 /\ k # 8
      OBVIOUS
    <3>2. BitOf(b, k) # 1
      BY <2>2, <3>1
    <3>3. BitOf(b, k) = 0
      <4>1. b \in Nat
        BY ByteNumber, Zenon
      <4>2. BitOf(b, k) \in Bit
        BY <4>1, BitOfType
      <4> QED BY <3>2, <4>2 DEF Bit
    <3>4. \A i \in 0 .. k : i = k \/ i \in 0 .. k - 1
      OBVIOUS
    <3>5. \A i \in 0 .. k : BitOf(b, i) = 0
      BY <2>2, <3>3, <3>4, Zenon
    <3>6. k + 1 \in 0 .. 8 /\ (k + 1) - 1 = k
      OBVIOUS
    <3> QED BY <3>5, <3>6
  <2> HIDE DEF G
  <2>3. 8 \in G
    <3>1. 8 \in Nat /\ 8 - 1 = 7
      OBVIOUS
    <3> QED BY <2>1, <2>2, <3>1, ClimbFrom0
  <2>4. P(8)
    BY <2>3 DEF G
  <2> QED BY <2>4
<1>2. LowZeros(b) = CHOOSE k \in 0 .. 8 : P(k)
  BY Zenon DEF LowZeros
<1> HIDE DEF P
<1> QED BY <1>1, <1>2, Zenon

\* countChainLength returns an unsigned, whatever came back.
LEMMA ChainLengthType ==
    ASSUME NEW rep \in Seq(0 .. 255)
    PROVE  ChainLength(rep) \in Nat
<1> DEFINE len == Len(rep)
<1> DEFINE E(h) == h = [i \in 0 .. len |-> IF i = 0 THEN 0 ELSE h[i - 1] + LowZeros(rep[i])]
<1> DEFINE zeros == CHOOSE h : E(h)
<1>0. ChainLength(rep) = (zeros[len] - 8) % UnsignedMod
  BY Zenon DEF ChainLength
<1>1. PICK n \in Nat : n = len
  OBVIOUS
<1>2. \A i \in 1 .. n : LowZeros(rep[i]) \in Nat
  <2>1. \A i \in 1 .. n : rep[i] \in 0 .. 255
    BY <1>1, ElementOfSeq
  <2>2. \A b \in 0 .. 255 : LowZeros(b) \in 0 .. 8
    BY LowZerosType
  <2>3. \A k \in 0 .. 8 : k \in Nat
    OBVIOUS
  <2> QED BY <2>1, <2>2, <2>3, Zenon
<1> HIDE DEF len
<1> DEFINE steps == [i \in 1 .. n |-> [x \in Nat |-> x + LowZeros(rep[i])]]
<1>3. PICK f \in [0 .. n -> Nat] : Builds(f, 0, steps, n)
  <2>1. ASSUME NEW i \in 1 .. n, NEW x \in Nat PROVE x + LowZeros(rep[i]) \in Nat
    BY <1>2
  <2>2. steps \in [1 .. n -> [Nat -> Nat]] /\ 0 \in Nat
    BY <2>1
  <2> HIDE DEF steps
  <2> QED BY <2>2, Recursion
<1>4. E(f)
  <2>1. ASSUME NEW i \in 0 .. n
        PROVE  f[i] = IF i = 0 THEN 0 ELSE f[i - 1] + LowZeros(rep[i])
    <3>1. CASE i = 0
      BY <1>3, <3>1 DEF Builds
    <3>2. CASE i # 0
      <4>1. i \in 1 .. n /\ i - 1 \in 0 .. n
        BY <3>2
      <4>2. f[i] = steps[i][f[i - 1]] /\ f[i - 1] \in Nat
        BY <1>3, <4>1 DEF Builds
      <4> QED BY <3>2, <4>1, <4>2
    <3> QED BY <3>1, <3>2
  <2>2. f = [i \in 0 .. n |-> IF i = 0 THEN 0 ELSE f[i - 1] + LowZeros(rep[i])]
    BY <2>1, Zenon
  <2> QED BY <1>1, <2>2, Zenon
<1>5. E(zeros)
  <2> HIDE DEF E
  <2> QED BY <1>4, Zenon
<1> HIDE DEF zeros
<1>6. \A i \in 0 .. n : zeros[i] = IF i = 0 THEN 0 ELSE zeros[i - 1] + LowZeros(rep[i])
  BY <1>1, <1>5, Zenon
<1> DEFINE G == {i \in 0 .. n : zeros[i] \in Nat}
<1>7. 0 \in G
  <2>1. 0 \in 0 .. n
    OBVIOUS
  <2>2. zeros[0] = 0
    BY <1>6, <2>1, Zenon
  <2> QED BY <2>1, <2>2
<1>8. ASSUME NEW i \in 1 .. n, i - 1 \in G PROVE i \in G
  <2>1. i \in 0 .. n /\ i # 0 /\ zeros[i - 1] \in Nat
    BY <1>8
  <2>2. zeros[i] = zeros[i - 1] + LowZeros(rep[i])
    BY <1>6, <2>1, Zenon
  <2>3. LowZeros(rep[i]) \in Nat
    BY <1>2
  <2>4. zeros[i] \in Nat
    BY <2>1, <2>2, <2>3
  <2> QED BY <2>1, <2>4
<1> HIDE DEF G
<1>9. n \in G
  <2>1. 0 .. n \subseteq G
    BY <1>7, <1>8, Reaches
  <2> QED BY <2>1
<1>10. PICK z \in Nat : z = zeros[len]
  BY <1>1, <1>9 DEF G
<1>11. (z - 8) % UnsignedMod \in Nat
  BY UnsignedModAssumption
<1> QED BY <1>0, <1>10, <1>11

-----------------------------------------------------------------------------
(* What becomes of a message. *)

\* A message made another command of.
Made(m, c, l, t) == [m EXCEPT !.cmd = c, !.len = l, !.tx = t]

\* It may be exchanged.
LEMMA MadeAnother ==
    ASSUME NEW m \in Exchanged, NEW c \in Nat, NEW l \in 0 .. 255, NEW t \in Seq(0 .. 255)
    PROVE  Made(m, c, l, t) \in {x \in Exchanged : x.cmd = c}
BY ZenonT(60) DEF Exchanged, Made

\* A message of two kinds at once: nothing is known of it but that it shifts.
LEMMA EmptyType ==
    ASSUME NEW m \in OkMsg, NEW n \in Nat
    PROVE  LET q == [m EXCEPT !.cmd = CmdJtag, !.len = (n - 1) % 8,
                              !.tx = [i \in 1 .. (n + 7) \div 8 |-> 0]]
           IN q \in Exchanged /\ ~ SetsPins(q)
<1>1. PICK k \in Nat : k = (n + 7) \div 8
  OBVIOUS
<1>2. [i \in 1 .. k |-> 0] \in Seq(0 .. 255)
  OBVIOUS
<1>3. (n - 1) % 8 \in 0 .. 255
  OBVIOUS
<1>4. PICK l \in 0 .. 255 : l = (n - 1) % 8
  BY <1>3
<1> DEFINE zeros == [i \in 1 .. k |-> 0]
<1>5. PICK z \in Seq(0 .. 255) : z = zeros
  BY <1>2
<1> DEFINE q == Made(m, CmdJtag, l, z)
<1>6. m \in Exchanged
  BY OkMsgExchanged
<1>7. CmdJtag \in Nat
  BY DEF CmdJtag
<1>8. q \in Exchanged /\ q.cmd = CmdJtag
  <2>1. PICK c \in Nat : c = CmdJtag
    BY <1>7
  <2>2. \A x \in Exchanged : Made(x, c, l, z) \in {y \in Exchanged : y.cmd = c}
    BY MadeAnother, ZenonT(60)
  <2>3. Made(m, c, l, z) \in Exchanged /\ Made(m, c, l, z).cmd = c
    BY <1>6, <2>2, Zenon
  <2> QED BY <2>1, <2>3, Zenon
<1>9. q = [m EXCEPT !.cmd = CmdJtag, !.len = (n - 1) % 8,
                    !.tx = [i \in 1 .. (n + 7) \div 8 |-> 0]]
  BY <1>1, <1>4, <1>5, Zenon DEF Made
<1>10. ~ SetsPins(q)
  <2> HIDE DEF q
  <2> QED BY <1>8 DEF SetsPins, CmdJtag, CmdBB
<1> HIDE DEF q
<1> QED BY <1>8, <1>9, <1>10, Zenon

\* Whatever is exchanged leaves a port, whose source is the same, an answer of bytes and a
\* trace.
LEMMA EffectsType ==
    ASSUME port \in LivePort, NEW m \in OkMsg, NEW e \in Effects(m)
    PROVE  /\ e.port \in LivePort /\ e.port.source = port.source
           /\ e.reply \in Seq(0 .. 255) /\ e.trace \in Seq(ShiftBit)
<1>1. CASE m.cmd = CmdJtag + CmdTdiRO + CmdTdiWO
  <2>1. PICK n \in EmptyPulses :
          e \in Performed(port, [m EXCEPT !.cmd = CmdJtag, !.len = (n - 1) % 8,
                                          !.tx = [i \in 1 .. (n + 7) \div 8 |-> 0]])
    BY <1>1, Zenon DEF Effects
  <2> DEFINE q == [m EXCEPT !.cmd = CmdJtag, !.len = (n - 1) % 8,
                            !.tx = [i \in 1 .. (n + 7) \div 8 |-> 0]]
  <2>2. n \in Nat
    BY EmptyPulsesAssumption
  <2>3. q \in Exchanged /\ ~ SetsPins(q)
    BY <2>2, EmptyType
  <2>4. e \in Performed(port, q)
    BY <2>1
  <2> HIDE DEF q
  <2> QED BY <2>3, <2>4, PerformedType
<1>2. CASE m.cmd # CmdJtag + CmdTdiRO + CmdTdiWO
  <2>1. e \in Performed(port, m)
    BY <1>2, Zenon DEF Effects
  <2> QED BY <2>1, OkMsgExchanged, PerformedType
<1> QED BY <1>1, <1>2

\* So what the reader gets of an answer is bytes too.
LEMMA AnsweredType ==
    ASSUME NEW full \in Seq(0 .. 255), NEW reply \in Answered(full)
    PROVE  reply \in Seq(0 .. 255)
<1>1. CASE full # <<>> /\ reply = SubSeq(full, 1, Len(full) - 1)
  <2>1. full \in Seq(0 .. 255) /\ Shorter(full) = reply
    BY <1>1 DEF Shorter
  <2> QED BY <2>1, ShorterType
<1>2. CASE reply \in {full, <<>>}
  <2>1. <<>> \in Seq(0 .. 255)
    OBVIOUS
  <2> QED BY <1>2, <2>1
<1> QED BY <1>1, <1>2 DEF Answered

-----------------------------------------------------------------------------
(* Messages and answers are well formed. *)

\* What is being called, getIDs behind countChainLength included.
AnyCall == FTCall \cup [op : {"readIDs"}, n : Nat]

\* TypeOK, that a port is selected behind it, that only calls are made, that the pins
\* have their source as long as a call is made.
Sound ==
    /\ port \in LivePort /\ start \in LivePort /\ port.source = start.source
    /\ pending \in Seq(OkMsg) /\ answers \in Seq(Seq(0 .. 255))
    /\ status \in {"idle", "busy", "ok", "error"}
    /\ status = "busy" <=> pending # <<>>
    /\ call \in AnyCall \cup [op : {"none"}]
    /\ status = "busy" => call \in AnyCall
    /\ trace \in Seq(ShiftBit)
    /\ calls \in 0 .. MaxCalls /\ whole \in BOOLEAN

\* What stays sound has its types.
LEMMA SoundTypes == Sound => TypeOK
<1> SUFFICES ASSUME Sound PROVE TypeOK
  OBVIOUS
<1>1. pending \in Seq(Msg)
  <2>1. OkMsg \subseteq Msg
    BY DEF OkMsg
  <2> QED BY <2>1, SeqMonotonic DEF Sound
<1>2. port \in Port /\ start \in Port /\ port.reg # <<>>
  BY DEF Sound, LivePort
<1>3. trace \in Seq([tdi : Bit, tdo : Bit])
  BY DEF Sound, ShiftBit
<1> QED BY <1>1, <1>2, <1>3, Zenon DEF Sound, TypeOK

\* A fresh port and no call are sound.
LEMMA InitSound == Init => Sound
<1> SUFFICES ASSUME Init PROVE Sound
  OBVIOUS
<1>1. port \in LivePort /\ start = port
  BY PowerUpType DEF Init
<1>2. 0 \in 0 .. MaxCalls
  BY MaxCallsAssumption
<1> QED BY <1>1, <1>2 DEF Init, Sound

\* A step keeps it.
LEMMA CallSound == ASSUME Sound, NEW c \in Calls, Call(c) PROVE Sound'
<1>1. c \in FTCall /\ c \in AnyCall
  BY CallsAssumption DEF AnyCall
<1>2. pending' \in Seq(OkMsg) /\ (status' = "busy" <=> pending' # <<>>)
      /\ status' \in {"idle", "busy", "ok", "error"}
  <2>1. Plan(c) \in Seq(OkMsg)
    BY <1>1, PlanType
  <2> QED BY <2>1 DEF Call
<1>3. calls' \in 0 .. MaxCalls
  BY MaxCallsAssumption DEF Call, Sound
<1>4. port' = port /\ start' = port /\ call' = c /\ answers' = <<>> /\ trace' = <<>> /\ whole' = TRUE
  BY DEF Call
<1> QED BY <1>1, <1>2, <1>3, <1>4 DEF Sound

\* Selecting the pins' source keeps the port a port.
LEMMA SelectSound == ASSUME Sound, NEW scratch \in 0 .. 3, SelectPins(scratch) PROVE Sound'
<1>1. port' \in LivePort /\ start' = port'
  BY SelectType DEF SelectPins, Sound
<1>2. calls' \in 0 .. MaxCalls
  BY MaxCallsAssumption DEF SelectPins, Sound
<1> QED BY <1>1, <1>2 DEF SelectPins, Sound

\* A message that is exchanged: what it leaves, what is left of the call.
LEMMA ExchangeParts ==
    ASSUME Sound, status = "busy"
    PROVE  /\ Head(pending) \in OkMsg /\ Tail(pending) \in Seq(OkMsg)
           /\ Len(pending) \in Nat /\ Len(pending) >= 1
           /\ Len(pending) > 1 => Tail(pending) # <<>>
           /\ Len(Tail(pending)) = Len(pending) - 1
<1>1. pending \in Seq(OkMsg) /\ pending # <<>>
  BY DEF Sound
<1>2. PICK q \in Seq(OkMsg) : q = pending /\ q # <<>>
  BY <1>1
<1>3. PICK k \in Nat : k = Len(q) /\ k >= 1
  BY <1>2
<1>4. Head(q) \in OkMsg /\ Tail(q) \in Seq(OkMsg) /\ Len(Tail(q)) = k - 1
  BY <1>2, <1>3
<1>5. k > 1 => Tail(q) # <<>>
  <2>1. PICK t \in Seq(OkMsg) : t = Tail(q) /\ Len(t) = k - 1
    BY <1>4
  <2>2. k > 1 => Len(t) # 0
    BY <1>3, <2>1
  <2>3. Len(<<>>) = 0
    OBVIOUS
  <2> QED BY <2>1, <2>2, <2>3, Zenon
<1> QED BY <1>2, <1>3, <1>4, <1>5

\* The exchange of the message at the head, which comes to e, and reply is read of it.
Goes(e, reply) ==
    LET all == Append(answers, reply) IN
    /\ port' = e.port /\ trace' = trace \o e.trace
    /\ answers' = all /\ whole' = (whole /\ reply = e.reply)
    /\ IF Len(pending) > 1
       THEN /\ pending' = Tail(pending)
            /\ UNCHANGED <<call, status, result>>
       ELSE IF call.op = "getIDs" /\ call.n = 0
       THEN LET n == ChainLength(reply) IN
            /\ call' = [op |-> "readIDs", n |-> n]
            /\ pending' = IF n > MaxIDs THEN <<>> ELSE GetIDs(n)
            /\ status' = IF n > MaxIDs THEN "error" ELSE "busy"
            /\ UNCHANGED result
       ELSE /\ pending' = <<>> /\ status' = "ok"
            /\ result' = Returned(call, all)
            /\ UNCHANGED call

\* An exchange keeps the port a port, the pins' source and the messages to come.
LEMMA ExchangeSound == ASSUME Sound, Exchange PROVE Sound'
<1>0. status = "busy"
  BY DEF Exchange
<1>1. PICK e \in Effects(Head(pending)) : \E reply \in Answered(e.reply) : Goes(e, reply)
  BY Zenon DEF Exchange, Goes
<1>11. PICK reply \in Answered(e.reply) : Goes(e, reply)
  BY <1>1
<1>2. Head(pending) \in OkMsg /\ Tail(pending) \in Seq(OkMsg)
      /\ (Len(pending) > 1 => Tail(pending) # <<>>)
  BY <1>0, ExchangeParts
<1>3. e.port \in LivePort /\ e.port.source = port.source
      /\ e.reply \in Seq(0 .. 255) /\ e.trace \in Seq(ShiftBit)
  BY <1>2, EffectsType DEF Sound
<1>4. reply \in Seq(0 .. 255)
  BY <1>3, AnsweredType
<1> USE DEF Goes
<1>5. answers' \in Seq(Seq(0 .. 255))
  BY <1>11, <1>4 DEF Sound
<1>6. trace' \in Seq(ShiftBit)
  <2>1. trace \in Seq(ShiftBit) /\ trace' = trace \o e.trace
    BY <1>11 DEF Sound
  <2> QED BY <1>3, <2>1, ConcatProperties
<1>7. whole' \in BOOLEAN
  BY <1>11
<1>8. start' = start /\ calls' = calls
  BY DEF Exchange
<1>9. /\ pending' \in Seq(OkMsg) /\ status' \in {"idle", "busy", "ok", "error"}
      /\ status' = "busy" <=> pending' # <<>>
      /\ call' \in AnyCall
  <2>1. CASE Len(pending) > 1
    <3>1. pending' = Tail(pending) /\ call' = call /\ status' = status
      BY <1>11, <2>1, Zenon
    <3> QED BY <1>0, <1>2, <2>1, <3>1, Zenon DEF Sound
  <2>2. CASE ~ (Len(pending) > 1) /\ call.op = "getIDs" /\ call.n = 0
    <3>1. PICK n \in Nat : n = ChainLength(reply)
      BY <1>4, ChainLengthType
    <3>2. call' = [op |-> "readIDs", n |-> n]
          /\ pending' = (IF n > MaxIDs THEN <<>> ELSE GetIDs(n))
          /\ status' = (IF n > MaxIDs THEN "error" ELSE "busy")
      BY <1>11, <2>2, <3>1, Zenon
    <3>3. GetIDs(n) \in Seq(OkMsg) /\ GetIDs(n) # <<>>
      <4>1. GetIDs(n) \in Seq(OkMsg) /\ Len(GetIDs(n)) = 3
        BY GetIDsType
      <4> QED BY <4>1
    <3>4. call' \in AnyCall
      BY <3>2 DEF AnyCall
    <3> QED BY <3>2, <3>3, <3>4
  <2>3. CASE ~ (Len(pending) > 1) /\ ~ (call.op = "getIDs" /\ call.n = 0)
    <3>1. pending' = <<>> /\ status' = "ok" /\ call' = call
      BY <1>11, <2>3, Zenon
    <3> QED BY <1>0, <3>1 DEF Sound
  <2> QED BY <2>1, <2>2, <2>3
<1>10. port' \in LivePort /\ port'.source = start'.source /\ start' \in LivePort
  BY <1>11, <1>3, <1>8, Zenon DEF Sound
<1> QED BY <1>5, <1>6, <1>7, <1>8, <1>9, <1>10 DEF Sound

\* An exchange that fails leaves the port as it was, or as the message would.
LEMMA FailSound == ASSUME Sound, Fail PROVE Sound'
<1>1. /\ status = "busy" /\ status' = "error" /\ pending' = <<>> /\ call' = call
      /\ answers' = answers /\ calls' = calls /\ start' = start /\ whole' = whole
  BY DEF Fail
<1>2. port' \in LivePort /\ port'.source = start.source /\ trace' \in Seq(ShiftBit)
  <2>1. CASE UNCHANGED <<port, trace>>
    BY <2>1 DEF Sound
  <2>2. CASE \E e \in Effects(Head(pending)) : port' = e.port /\ trace' = trace \o e.trace
    <3>1. PICK e \in Effects(Head(pending)) : port' = e.port /\ trace' = trace \o e.trace
      BY <2>2
    <3>2. Head(pending) \in OkMsg
      BY <1>1, ExchangeParts
    <3>3. e.port \in LivePort /\ e.port.source = port.source /\ e.trace \in Seq(ShiftBit)
      BY <3>2, EffectsType DEF Sound
    <3>4. trace \in Seq(ShiftBit) /\ port.source = start.source
      BY DEF Sound
    <3>5. trace \o e.trace \in Seq(ShiftBit)
      BY <3>3, <3>4, ConcatProperties
    <3> QED BY <3>1, <3>3, <3>4, <3>5, Zenon
  <2> QED BY <2>1, <2>2 DEF Fail
<1> QED BY <1>1, <1>2 DEF Sound

\* No step of the host or of the firmware makes the state unsound.
LEMMA NextSound == Sound /\ [Next]_vars => Sound'
<1> SUFFICES ASSUME Sound, [Next]_vars PROVE Sound'
  OBVIOUS
<1>1. CASE \E c \in Calls : Call(c)
  BY <1>1, CallSound
<1>2. CASE Exchange
  BY <1>2, ExchangeSound
<1>3. CASE Fail
  BY <1>3, FailSound
<1>4. CASE \E scratch \in 0 .. 3 : SelectPins(scratch)
  BY <1>4, SelectSound
<1>5. CASE UNCHANGED vars
  BY <1>5 DEF vars, Sound
<1> QED BY <1>1, <1>2, <1>3, <1>4, <1>5 DEF Next

\* Whatever is called and fails, the port is one and messages and answers stay well
\* formed.
THEOREM StaysSound == Spec => []Sound
BY InitSound, NextSound, PTL DEF Spec

\* Messages are of the kinds the firmware has names for and answers are bytes, whatever is
\* called, fails or is cut short; the chain has a register selected (x and ft in
\* FTEmul.cpp, Interp in the firmware).
THEOREM TypesHold == Spec => []TypeOK
BY StaysSound, SoundTypes, PTL

-----------------------------------------------------------------------------
(* Where the calls leave the TAP. *)

\* A message that is a command leads the TAP from some states to others, or it may be
\* anywhere behind it.
Carries(m, from, to) ==
    to = TapStates \/ (m.cmd # CmdJtag + CmdTdiRO + CmdTdiWO /\ Leads(m, from, to))

\* Two bytes of x() for TMS: how many bits, and the bits.
SaysBits(a, b, n) ==
    a \in 0 .. 7 \cup 128 .. 135 /\ b \in 0 .. 255 /\ n \in 1 .. 8 /\ n = (a % 8) + 1

\* Every message for TMS with these bits leads there.
BitsLead(b, n, from, to) == \A m : TmsMessage(m, b, n) => Leads(m, from, to)

\* Two such bytes make a message for TMS.
LEMMA TwoBytes ==
    ASSUME NEW a, NEW b, NEW n, SaysBits(a, b, n)
    PROVE  /\ TmsMessage(X(<<a, b>>, TRUE), b, n)
           /\ X(<<a, b>>, TRUE).cmd # CmdJtag + CmdTdiRO + CmdTdiWO
<1> DEFINE m == X(<<a, b>>, TRUE)
<1>0. a \in 0 .. 7 \cup 128 .. 135 /\ b \in 0 .. 255 /\ n \in 1 .. 8 /\ n = (a % 8) + 1
  BY DEF SaysBits
<1>1. m = [cmd |-> CmdJtag + CmdTms, len |-> a, tx |-> <<b>>, want |-> 2]
  BY DEF X
<1>2. m \in Exchanged
  <2>1. <<a, b>> \in Seq(0 .. 255) /\ <<a, b>> # <<>> /\ Head(<<a, b>>) = a
    BY <1>0
  <2>2. m \in OkMsg
    BY <1>0, <2>1, XType, ZenonT(60)
  <2> HIDE DEF m
  <2> QED BY <2>2, OkMsgExchanged
<1> HIDE DEF m
<1>3. m.cmd = CmdJtag + CmdTms /\ m.len = a /\ m.tx = <<b>>
  BY <1>1
<1>5. m.cmd # CmdJtag + CmdTdiRO + CmdTdiWO
  BY <1>3 DEF CmdJtag, CmdTms, CmdTdiRO, CmdTdiWO
<1>6. TmsMessage(m, b, n)
  BY <1>0, <1>2, <1>3, Zenon DEF TmsMessage
<1> QED BY <1>5, <1>6 DEF m

\* The paths of the class lead the TAP where they are meant to.
LEMMA PathsCarry ==
    /\ Carries(X(<<\h07, \hff>>, TRUE), TapStates, {"TestLogicReset"})
    /\ Carries(X(IdlePath, TRUE), TapStates, {"RunTestIdle"})
    /\ Carries(X(<<\h03, \h03>>, TRUE), Between, {"ShiftIR"})
    /\ Carries(X(<<\h02, \h01>>, TRUE), Between, {"ShiftDR"})
    /\ Carries(X(Filler, TRUE), {"ShiftIR"}, {"ShiftDR"})
<1>1. ASSUME NEW a, NEW b, NEW n, NEW from, NEW to,
             SaysBits(a, b, n), BitsLead(b, n, from, to)
      PROVE  Carries(X(<<a, b>>, TRUE), from, to)
  BY <1>1, TwoBytes, Zenon DEF Carries, BitsLead
<1>2. Carries(X(<<7, 255>>, TRUE), TapStates, {"TestLogicReset"})
  <2>1. SaysBits(7, 255, 8)
    BY DEF SaysBits
  <2>2. ASSUME NEW m, TmsMessage(m, 255, 8) PROVE Leads(m, TapStates, {"TestLogicReset"})
    BY <2>2, ToResetLeads
  <2>3. BitsLead(255, 8, TapStates, {"TestLogicReset"})
    BY <2>2, Zenon DEF BitsLead
  <2> QED BY <1>1, <2>1, <2>3, ZenonT(60)
<1>3. Carries(X(<<7, 127>>, TRUE), TapStates, {"RunTestIdle"})
  <2>1. SaysBits(7, 127, 8)
    BY DEF SaysBits
  <2>2. ASSUME NEW m, TmsMessage(m, 127, 8) PROVE Leads(m, TapStates, {"RunTestIdle"})
    <3>1. PICK k \in 6 .. 8 : k = 8 /\ k - 1 = 7 /\ k - 2 = 6
      OBVIOUS
    <3>2. TmsMessage(m, 127, k) /\ (\A i \in 0 .. k - 2 : BitOf(127, i) = 1) /\ BitOf(127, k - 1) = 0
      BY <2>2, <3>1, PathBits, ZenonT(60)
    <3> QED BY <3>2, ToIdleLeads
  <2>3. BitsLead(127, 8, TapStates, {"RunTestIdle"})
    BY <2>2, Zenon DEF BitsLead
  <2> QED BY <1>1, <2>1, <2>3, Zenon
<1>4. Carries(X(<<3, 3>>, TRUE), Between, {"ShiftIR"})
  <2>1. SaysBits(3, 3, 4)
    BY DEF SaysBits
  <2>2. ASSUME NEW m, TmsMessage(m, 3, 4) PROVE Leads(m, Between, {"ShiftIR"})
    BY <2>2, ToShiftIRLeads
  <2>3. BitsLead(3, 4, Between, {"ShiftIR"})
    BY <2>2, Zenon DEF BitsLead
  <2> QED BY <1>1, <2>1, <2>3, Zenon
<1>5. Carries(X(<<2, 1>>, TRUE), Between, {"ShiftDR"})
  <2>1. SaysBits(2, 1, 3)
    BY DEF SaysBits
  <2>2. ASSUME NEW m, TmsMessage(m, 1, 3) PROVE Leads(m, Between, {"ShiftDR"})
    BY <2>2, ToShiftDRLeads
  <2>3. BitsLead(1, 3, Between, {"ShiftDR"})
    BY <2>2, Zenon DEF BitsLead
  <2> QED BY <1>1, <2>1, <2>3, Zenon
<1>6. Carries(X(<<132, 7>>, TRUE), {"ShiftIR"}, {"ShiftDR"})
  <2>1. SaysBits(132, 7, 5)
    BY DEF SaysBits
  <2>2. ASSUME NEW m, TmsMessage(m, 7, 5) PROVE Leads(m, {"ShiftIR"}, {"ShiftDR"})
    BY <2>2, AcrossLeads
  <2>3. BitsLead(7, 5, {"ShiftIR"}, {"ShiftDR"})
    BY <2>2, Zenon DEF BitsLead
  <2> QED BY <1>1, <2>1, <2>3, Zenon
<1> QED BY <1>2, <1>3, <1>4, <1>5, <1>6, Zenon DEF IdlePath, Filler

\* Messages that shift leave the TAP in the shift state.
LEMMA ShiftsCarry ==
    ASSUME NEW m \in OkMsg, NEW t \in Shifting,
           m.cmd \in {CmdJtag, CmdJtag + CmdTdiRO, CmdJtag + CmdTdiWO}
    PROVE  Carries(m, {t}, {t})
<1>1. /\ m.cmd # CmdJtag + CmdTms /\ m.cmd # CmdJtag + CmdTdiRO + CmdTdiWO
      /\ ~ SetsPins(m) /\ ~ Bangs(m)
  BY DEF SetsPins, Bangs, CmdJtag, CmdTms, CmdBB, CmdTdiWO, CmdTdiRO, CmdBBSpi
<1>2. m \in Exchanged
  BY OkMsgExchanged
<1>3. ASSUME NEW p \in LivePort, p.source = "jtag", p.tap = t, NEW e \in Performed(p, m)
      PROVE  e.port.tap = t
  BY <1>1, <1>2, <1>3, ShiftsIn
<1>4. Leads(m, {t}, {t})
  BY <1>3 DEF Leads
<1> QED BY <1>1, <1>4 DEF Carries

\* A shift of more than one bit, as ProperShift has it.
Shifts(c) ==
    /\ c \in FTCall /\ c.op = "shiftToRunTestIdle"
    /\ c.tx # <<>> \/ c.n > 0
    /\ Bits(c) > 1

\* What has to go in with bit i.
Tdi(c, i) == IF c.tx = <<>> THEN 0 ELSE BitOf(c.tx[((i - 1) \div 8) + 1], (i - 1) % 8)

\* What a message puts in: so many bits, the first ones of the call's.
PutsIn(m, c, n) ==
    /\ m.cmd \in {CmdJtag, CmdJtag + CmdTdiRO, CmdJtag + CmdTdiWO}
    /\ n \in Nat /\ Len(PulsesOf(m)) = n
    /\ \A i \in 1 .. n : PulsesOf(m)[i].tdi = Tdi(c, i)

\* A length below eight is one the mask leaves alone.
LEMMA SmallLength == ASSUME NEW b \in 0 .. 7 PROVE b % 8 = b
OBVIOUS

\* Of a payload the call gives: its bytes, or what is left without the last.
LEMMA PutsPayload ==
    ASSUME NEW m \in Exchanged, m.cmd \in {CmdJtag, CmdJtag + CmdTdiWO}, NEW c,
           c.tx \in Seq(0 .. 255), c.tx # <<>>,
           NEW k \in Nat \ {0}, Len(m.tx) = k, k <= Len(c.tx), \A j \in 1 .. k : m.tx[j] = c.tx[j],
           NEW b \in 0 .. 7, m.len = b
    PROVE  PutsIn(m, c, 8 * (k - 1) + b + 1)
<1> DEFINE n == 8 * (k - 1) + b + 1
<1>1. b % 8 = b /\ k # 0
  BY SmallLength, Zenon
<1>2. n \in Nat
  OBVIOUS
<1>3. Len(<<>>) = 0
  OBVIOUS
<1>4. m.len % 8 = b /\ m.tx # <<>> /\ n \in Nat
  BY <1>1, <1>2, <1>3, Zenon
<1>5. 8 * (Len(m.tx) - 1) + (m.len % 8) + 1 = n
  BY <1>4
<1>6. /\ Len(PulsesOf(m)) = n
      /\ \A i \in 1 .. n : PulsesOf(m)[i].tdi = BitOf(m.tx[((i - 1) \div 8) + 1], (i - 1) % 8)
  <2> HIDE DEF n
  <2> QED BY <1>4, <1>5, WrittenPulses, Zenon
<1>7. ASSUME NEW i \in 1 .. n PROVE PulsesOf(m)[i].tdi = Tdi(c, i)
  <2>1. ((i - 1) \div 8) + 1 \in 1 .. k
    OBVIOUS
  <2> QED BY <1>6, <2>1, Zenon DEF Tdi
<1> HIDE DEF n
<1>8. PutsIn(m, c, n)
  BY <1>4, <1>6, <1>7, Zenon DEF PutsIn
<1> QED BY <1>8 DEF n

\* The first message of a shift puts in all bits but the last, whether there is something to
\* write or to read or both.
LEMMA FirstPutsIn ==
    ASSUME NEW c, Shifts(c)
    PROVE  PutsIn(FirstShift(c), c, Bits(c) - 1)
<1>1. /\ c.tx \in Seq(0 .. 255) /\ c.bits \in 0 .. 7 /\ c.n \in Nat
      /\ c.tx # <<>> \/ c.n > 0
      /\ FirstShift(c) \in OkMsg
  BY ShiftType DEF Shifts
<1>2. FirstShift(c) \in Exchanged
  BY <1>1, OkMsgExchanged
<1> DEFINE m == FirstShift(c)
<1>3. CASE c.tx = <<>>
  <2>0. PICK n0 \in Nat \ {0}, b0 \in 0 .. 7 : n0 = c.n /\ b0 = c.bits
          /\ Bits(c) = 8 * (n0 - 1) + b0 + 1 /\ Bits(c) > 1
    <3>1. c.n \in Nat \ {0}
      BY <1>1, <1>3
    <3> QED BY <1>1, <1>3, <3>1 DEF Bits, Shifts
  <2>1. CASE c.bits = 0
    <3>1. PICK k \in Nat \ {0} : k = n0 - 1 /\ k = c.n - 1 /\ Bits(c) - 1 = 8 * k
      BY <2>0, <2>1
    <3>2. m = Message(<<>>, 7, -1, k)
      <4>1. Shorter(c.tx) = <<>> /\ c.n # 0
        BY <1>3, <2>0 DEF Shorter
      <4>2. (IF c.n = 0 THEN 0 ELSE c.n - 1) = k
        BY <3>1, <4>1
      <4> QED BY <2>1, <4>1, <4>2, Zenon DEF FirstShift
    <3>3. m.cmd = CmdJtag + CmdTdiRO /\ m.want = k
      <4>1. Message(<<>>, 7, -1, k).cmd = CmdJtag + CmdTdiRO
            /\ Message(<<>>, 7, -1, k).want = k
        BY DEF Message, CmdJtag, CmdTms, CmdTdiRO, CmdTdiWO
      <4> HIDE DEF m
      <4> QED BY <3>2, <4>1, Zenon
    <3> HIDE DEF m
    <3>4. Len(PulsesOf(m)) = 8 * k /\ \A i \in 1 .. 8 * k : PulsesOf(m)[i].tdi = 0
      BY <1>2, <3>3, ReadPulses, Zenon DEF m
    <3>5. PICK n \in Nat : n = 8 * k
      OBVIOUS
    <3>6. PutsIn(m, c, n)
      BY <1>3, <3>3, <3>4, <3>5, Zenon DEF PutsIn, Tdi
    <3> QED BY <3>1, <3>5, <3>6 DEF m
  <2>2. CASE c.bits # 0
    <3>1. PICK k \in Nat \ {0}, b \in 0 .. 6 : k = c.n /\ b = c.bits - 1
                                           /\ k = n0 /\ b = b0 - 1
      BY <2>0, <2>2
    <3>2. m = Message(<<>>, b, -1, k)
      BY <1>3, <2>2, <3>1, Zenon DEF FirstShift
    <3>3. m.cmd = CmdJtag /\ m.len = b /\ m.tx = [i \in 1 .. k |-> 0]
      <4>1. b # 7 /\ ~ (-1 >= 0) /\ ~ (-1 > 0) /\ b % 8 = b
        OBVIOUS
      <4>2. Message(<<>>, b, -1, k).cmd = CmdJtag + 0 + 0 + 0
            /\ Message(<<>>, b, -1, k).len = b + 0
            /\ Message(<<>>, b, -1, k).tx = [i \in 1 .. k |-> 0]
        BY <4>1, Zenon DEF Message, LengthByte
      <4>3. CmdJtag + 0 + 0 + 0 = CmdJtag /\ b + 0 = b
        BY DEF CmdJtag
      <4> HIDE DEF m
      <4> QED BY <3>2, <4>2, <4>3, Zenon
    <3>4. m.len % 8 = b /\ m.tx # <<>> /\ Len(m.tx) = k /\ \A j \in 1 .. k : m.tx[j] = 0
      <4> DEFINE zeros == [i \in 1 .. k |-> 0]
      <4>1. zeros \in Seq({0}) /\ Len(zeros) = k /\ \A j \in 1 .. k : zeros[j] = 0
        OBVIOUS
      <4> HIDE DEF m, zeros
      <4>2. zeros # <<>>
        BY <4>1
      <4>3. b % 8 = b
        OBVIOUS
      <4> QED BY <3>3, <4>1, <4>2, <4>3, Zenon DEF zeros
    <3>5. PICK n \in Nat : n = 8 * (k - 1) + b + 1
      BY <3>1
    <3> HIDE DEF m
    <3>6. /\ Len(PulsesOf(m)) = n
          /\ \A i \in 1 .. n : PulsesOf(m)[i].tdi = BitOf(m.tx[((i - 1) \div 8) + 1], (i - 1) % 8)
      <4>1. n = 8 * (Len(m.tx) - 1) + (m.len % 8) + 1
        BY <3>4, <3>5
      <4> QED BY <1>2, <3>3, <3>4, <4>1, WrittenPulses, Zenon DEF m
    <3>7. ASSUME NEW i \in 1 .. n PROVE PulsesOf(m)[i].tdi = 0
      <4>1. ((i - 1) \div 8) + 1 \in 1 .. k /\ (i - 1) % 8 \in 0 .. 7
        BY <3>5
      <4>2. \A j \in 0 .. 7 : BitOf(0, j) = 0
        <5>1. BitOf(0, 0) = 0 /\ BitOf(0, 1) = 0 /\ BitOf(0, 2) = 0 /\ BitOf(0, 3) = 0
              /\ BitOf(0, 4) = 0 /\ BitOf(0, 5) = 0 /\ BitOf(0, 6) = 0 /\ BitOf(0, 7) = 0
          BY Powers DEF BitOf
        <5> QED BY <5>1
      <4> QED BY <3>4, <3>6, <4>1, <4>2, Zenon
    <3>8. PutsIn(m, c, n)
      BY <1>3, <3>3, <3>6, <3>7, Zenon DEF PutsIn, Tdi
    <3>9. n = Bits(c) - 1
      BY <2>0, <3>1, <3>5
    <3> QED BY <3>8, <3>9 DEF m
  <2> QED BY <2>1, <2>2
<1>4. CASE c.tx # <<>>
  <2>0. PICK l \in Nat \ {0}, b0 \in 0 .. 7 : l = Len(c.tx) /\ b0 = c.bits
          /\ Bits(c) = 8 * (l - 1) + b0 + 1 /\ Bits(c) > 1
    BY <1>1, <1>4 DEF Bits, Shifts
  <2>1. CASE c.bits = 0
    <3>1. PICK k \in Nat \ {0} : k = l - 1
      BY <2>0, <2>1
    <3>2. PICK w \in Nat : w = (IF c.n = 0 THEN 0 ELSE c.n - 1)
      BY <1>1
    <3>3. m = Message(Shorter(c.tx), 7, -1, w)
      BY <2>1, <3>2, Zenon DEF FirstShift
    <3>4. Shorter(c.tx) # <<>> /\ Len(Shorter(c.tx)) = k /\ \A j \in 1 .. k : Shorter(c.tx)[j] = c.tx[j]
      <4>1. Len(Shorter(c.tx)) = k /\ \A j \in 1 .. k : Shorter(c.tx)[j] = c.tx[j]
        BY <1>1, <1>4, <2>0, <3>1, ShorterType
      <4>2. Shorter(c.tx) # <<>>
        BY <4>1
      <4> QED BY <4>1, <4>2
    <3>5. m.cmd \in {CmdJtag, CmdJtag + CmdTdiWO} /\ m.len = 7 /\ m.tx = Shorter(c.tx)
      <4>1. ~ (-1 >= 0) /\ ~ (-1 > 0) /\ -1 < 0 /\ 7 % 8 = 7 /\ 7 + 0 = 7
        OBVIOUS
      <4> DEFINE q == Message(Shorter(c.tx), 7, -1, w)
      <4>2. q.cmd \in {CmdJtag + 0 + 0 + 0, CmdJtag + 0 + 0 + CmdTdiWO}
            /\ q.len = 7 + 0 /\ q.tx = Shorter(c.tx)
        BY <3>4, <4>1, Zenon DEF Message, LengthByte
      <4>3. CmdJtag + 0 + 0 + 0 = CmdJtag /\ CmdJtag + 0 + 0 + CmdTdiWO = CmdJtag + CmdTdiWO
        BY DEF CmdJtag, CmdTdiWO
      <4> HIDE DEF q
      <4>4. m = q
        BY <3>3 DEF q
      <4> HIDE DEF m
      <4> QED BY <4>1, <4>2, <4>3, <4>4, Zenon
    <3> HIDE DEF m
    <3>6. PICK b \in 0 .. 7 : b = m.len /\ 8 * (k - 1) + b + 1 = Bits(c) - 1 /\ k <= Len(c.tx)
      BY <2>0, <2>1, <3>1, <3>5
    <3>7. PutsIn(m, c, 8 * (k - 1) + b + 1)
      <4>1. m \in Exchanged /\ Len(m.tx) = k /\ \A j \in 1 .. k : m.tx[j] = c.tx[j]
        BY <1>2, <3>4, <3>5, Zenon DEF m
      <4> QED BY <1>1, <1>4, <3>5, <3>6, <4>1, PutsPayload
    <3> QED BY <3>6, <3>7 DEF m
  <2>2. CASE c.bits # 0
    <3>1. PICK b \in 0 .. 6 : b = c.bits - 1 /\ b = b0 - 1
      BY <2>0, <2>2
    <3>2. m = Message(c.tx, b, -1, c.n)
      BY <2>2, <3>1, Zenon DEF FirstShift
    <3>3. m.cmd = CmdJtag /\ m.len = b /\ m.tx = c.tx
      <4>1. b # 7 /\ ~ (-1 >= 0) /\ ~ (-1 > 0) /\ b % 8 = b
        OBVIOUS
      <4> DEFINE q == Message(c.tx, b, -1, c.n)
      <4>2. q.cmd = CmdJtag + 0 + 0 + 0 /\ q.len = b + 0 /\ q.tx = c.tx
        BY <1>4, <4>1, Zenon DEF Message, LengthByte
      <4>3. CmdJtag + 0 + 0 + 0 = CmdJtag /\ b + 0 = b
        BY DEF CmdJtag
      <4> HIDE DEF q
      <4>4. m = q
        BY <3>2 DEF q
      <4> HIDE DEF m
      <4> QED BY <4>2, <4>3, <4>4, Zenon
    <3> HIDE DEF m
    <3>4. b \in 0 .. 7 /\ 8 * (l - 1) + b + 1 = Bits(c) - 1 /\ l <= Len(c.tx)
      <4>1. b \in 0 .. 7
        OBVIOUS
      <4>2. 8 * (l - 1) + b + 1 = Bits(c) - 1
        <5>1. PICK q \in Nat : q = 8 * (l - 1)
          OBVIOUS
        <5>2. Bits(c) = q + b0 + 1 /\ b = b0 - 1
          BY <2>0, <3>1, <5>1, Zenon
        <5> QED BY <5>1, <5>2
      <4>3. l <= Len(c.tx)
        BY <2>0
      <4> QED BY <4>1, <4>2, <4>3
    <3>5. PutsIn(m, c, 8 * (l - 1) + b + 1)
      <4>1. m \in Exchanged /\ Len(m.tx) = l /\ \A j \in 1 .. l : m.tx[j] = c.tx[j]
        BY <1>2, <2>0, <3>3, Zenon DEF m
      <4> QED BY <1>1, <1>4, <3>3, <3>4, <4>1, PutsPayload
    <3> QED BY <3>4, <3>5 DEF m
  <2> QED BY <2>1, <2>2
<1> QED BY <1>3, <1>4

\* The second message of a shift brings the last bit with TMS.
LEMMA LastPutsIn ==
    ASSUME NEW c, Shifts(c)
    PROVE  /\ TmsMessage(SecondShift(c), \h03, 3)
           /\ SecondShift(c).cmd # CmdJtag + CmdTdiRO + CmdTdiWO
           /\ (IF SecondShift(c).len >= TmsTdiHi THEN 1 ELSE 0) = Tdi(c, Bits(c))
<1>1. /\ c.tx \in Seq(0 .. 255) /\ c.bits \in 0 .. 7 /\ c.n \in Nat
      /\ SecondShift(c) \in OkMsg
  BY ShiftType DEF Shifts
<1>2. PICK t \in Bit : t = LastTdi(c.tx, c.bits)
  BY <1>1, LastTdiType
<1> DEFINE m == SecondShift(c)
<1>3. m = Message(<<3>>, 2, t, 1)
  BY <1>2, Zenon DEF SecondShift
<1>4. m.cmd = CmdJtag + CmdTms /\ m.len = 2 + (IF t > 0 THEN TmsTdiHi ELSE 0) /\ m.tx = <<3>>
  <2>1. t >= 0 /\ ~ (t < 0) /\ 2 % 8 = 2 /\ <<3>> # <<>>
    BY DEF Bit
  <2> DEFINE q == Message(<<3>>, 2, t, 1)
  <2>2. q.cmd = CmdJtag + CmdTms + 0 + 0 /\ q.len = 2 + (IF t > 0 THEN TmsTdiHi ELSE 0)
        /\ q.tx = <<3>>
    BY <2>1, Zenon DEF Message, LengthByte
  <2>3. CmdJtag + CmdTms + 0 + 0 = CmdJtag + CmdTms
    BY DEF CmdJtag, CmdTms
  <2> HIDE DEF q
  <2>4. m = q
    BY <1>3 DEF q
  <2> HIDE DEF m
  <2> QED BY <2>2, <2>3, <2>4, Zenon
<1> HIDE DEF m
<1>5. m \in Exchanged
  BY <1>1, OkMsgExchanged DEF m
<1>6. (t = 0 /\ m.len = 2) \/ (t = 1 /\ m.len = 130)
  BY <1>4 DEF Bit, TmsTdiHi
<1>7. 3 = (m.len % 8) + 1 /\ 3 \in 1 .. 8 /\ 3 \in 0 .. 255
  BY <1>6
<1>8. TmsMessage(m, 3, 3)
  BY <1>4, <1>5, <1>7, Zenon DEF TmsMessage
<1>9. m.cmd # CmdJtag + CmdTdiRO + CmdTdiWO
  BY <1>4 DEF CmdJtag, CmdTms, CmdTdiRO, CmdTdiWO
<1>10. (IF m.len >= TmsTdiHi THEN 1 ELSE 0) = t
  BY <1>6 DEF TmsTdiHi
<1>11. t = Tdi(c, Bits(c))
  <2>1. CASE c.tx = <<>>
    BY <1>2, <2>1 DEF LastTdi, Tdi
  <2>2. CASE c.tx # <<>>
    <3>1. PICK l \in Nat \ {0}, b \in 0 .. 7 : l = Len(c.tx) /\ b = c.bits
            /\ Bits(c) = 8 * (l - 1) + b + 1
      BY <1>1, <2>2 DEF Bits
    <3>2. ((Bits(c) - 1) \div 8) + 1 = l /\ (Bits(c) - 1) % 8 = b
      <4>1. PICK q \in Nat : q = l - 1
        OBVIOUS
      <4>2. Bits(c) - 1 = 8 * q + b
        BY <3>1, <4>1
      <4>3. (8 * q + b) \div 8 = q /\ (8 * q + b) % 8 = b
        OBVIOUS
      <4> QED BY <4>1, <4>2, <4>3
    <3>3. t = BitOf(c.tx[l], b)
      BY <1>2, <2>2, <3>1, Zenon DEF LastTdi
    <3> QED BY <2>2, <3>2, <3>3, Zenon DEF Tdi
  <2> QED BY <2>1, <2>2
<1> QED BY <1>8, <1>9, <1>10, <1>11, Zenon DEF m

\* The messages of a call; readIDs is what getIDs goes on with.
Program(c) == IF c.op = "readIDs" THEN GetIDs(c.n) ELSE Plan(c)

Counting == <<TapStates, {"RunTestIdle"}, {"ShiftIR"}, {"ShiftIR"}, {"ShiftDR"}, {"ShiftDR"}>>
Reading == <<TapStates, {"RunTestIdle"}, {"ShiftDR"}, {"ShiftDR"}>>

\* Where the TAP may be before each of them and after the last, if the call found it in from.
Stations(c, from) ==
    CASE c.op = "toStateReset" -> <<TapStates, {"TestLogicReset"}>>
      [] c.op = "toStateRunTestIdle" -> <<TapStates, {"RunTestIdle"}>>
      [] c.op = "toStateShiftIR" ->
           IF c.reset THEN <<TapStates, {"RunTestIdle"}, {"ShiftIR"}>>
           ELSE <<{from}, IF from \in Between THEN {"ShiftIR"} ELSE TapStates>>
      [] c.op = "toStateShiftDR" ->
           IF c.reset THEN <<TapStates, {"RunTestIdle"}, {"ShiftDR"}>>
           ELSE <<{from}, IF from \in Between THEN {"ShiftDR"} ELSE TapStates>>
      [] c.op = "countChainLength" -> Counting
      [] c.op = "getIDs" -> IF c.n = 0 THEN Counting ELSE Reading
      [] c.op = "readIDs" -> Reading
      [] c.op = "shiftToRunTestIdle" ->
           IF Shifts(c) /\ from \in Shifting THEN <<{from}, {from}, {"RunTestIdle"}>>
           ELSE <<TapStates, TapStates, TapStates>>
      [] c.op \in {"ft", "setPortLevels", "bb", "play"} -> <<TapStates, TapStates>>

\* Every message carries the TAP from one of them to the next.
Route(program, stations) ==
    \A k \in 1 .. Len(program) : Carries(program[k], stations[k], stations[k + 1])

\* Messages that carry the TAP from station to station make a route.
LEMMA Routes ==
    /\ \A a, s, t : Carries(a, s, t) => Route(<<a>>, <<s, t>>)
    /\ \A a, b, s, t, u :
         Carries(a, s, t) /\ Carries(b, t, u) => Route(<<a, b>>, <<s, t, u>>)
    /\ \A a, b, c, s, t, u, v :
         Carries(a, s, t) /\ Carries(b, t, u) /\ Carries(c, u, v) =>
           Route(<<a, b, c>>, <<s, t, u, v>>)
    /\ \A a, b, c, d, e, s, t, u, v, w, x :
         Carries(a, s, t) /\ Carries(b, t, u) /\ Carries(c, u, v) /\ Carries(d, v, w)
           /\ Carries(e, w, x) =>
           Route(<<a, b, c, d, e>>, <<s, t, u, v, w, x>>)
<1>1. \A a, s, t : Carries(a, s, t) => Route(<<a>>, <<s, t>>)
  BY DEF Route
<1>2. \A a, b, s, t, u :
        Carries(a, s, t) /\ Carries(b, t, u) => Route(<<a, b>>, <<s, t, u>>)
  BY DEF Route
<1>3. \A a, b, c, s, t, u, v :
        Carries(a, s, t) /\ Carries(b, t, u) /\ Carries(c, u, v) =>
          Route(<<a, b, c>>, <<s, t, u, v>>)
  BY DEF Route
<1>4. \A a, b, c, d, e, s, t, u, v, w, x :
        Carries(a, s, t) /\ Carries(b, t, u) /\ Carries(c, u, v) /\ Carries(d, v, w)
          /\ Carries(e, w, x) =>
          Route(<<a, b, c, d, e>>, <<s, t, u, v, w, x>>)
  BY DEF Route
<1> QED BY <1>1, <1>2, <1>3, <1>4, Zenon

\* Wherever a message may lead, it leads from a part of where it may start.
LEMMA CarriesFromPart ==
    ASSUME NEW m, NEW from, NEW to, Carries(m, from, to), NEW part, part \subseteq from
    PROVE  Carries(m, part, to)
BY DEF Carries, Leads

\* The messages that count the devices, and those that read the identifiers.
LEMMA ChainRoutes ==
    /\ Route(CountChain, Counting)
    /\ \A n \in Nat : Route(GetIDs(n), Reading)
<1> DEFINE a == X(IdlePath, TRUE)
<1> DEFINE b == X(<<\h03, \h03>>, TRUE)
<1> DEFINE d == X(<<\h02, \h01>>, TRUE)
<1> DEFINE e == X(<<\h07, \hff, \hff, \hff, \hff>>, FALSE)
<1> DEFINE f == X(Filler, TRUE)
<1> DEFINE g == X(<<\h07, \h00, \hff>>, FALSE)
<1> DEFINE r(n) == X(<<\h07>> \o [i \in 1 .. 4 * n |-> 0], FALSE)
<1>1. CountChain = <<a, b, e, f, g>> /\ \A n \in Nat : GetIDs(n) = <<a, d, r(n)>>
  BY Plans
<1>2. \A req : X(req, FALSE).cmd = CmdJtag
  <2>1. CmdJtag + 0 = CmdJtag
    BY DEF CmdJtag
  <2> QED BY <2>1, Zenon DEF X
<1>3. \A m \in OkMsg, t \in Shifting : m.cmd = CmdJtag => Carries(m, {t}, {t})
  BY ShiftsCarry
<1>4. "ShiftIR" \in Shifting /\ "ShiftDR" \in Shifting
  BY DEF Shifting
<1>5. Carries(e, {"ShiftIR"}, {"ShiftIR"}) /\ Carries(g, {"ShiftDR"}, {"ShiftDR"})
  <2>1. e \in OkMsg /\ g \in OkMsg /\ e.cmd = CmdJtag /\ g.cmd = CmdJtag
    BY <1>2, PathMessages, ZenonT(60)
  <2> HIDE DEF e, g
  <2> QED BY <1>3, <1>4, <2>1, Zenon
<1>6. \A n \in Nat : Carries(r(n), {"ShiftDR"}, {"ShiftDR"})
  <2> TAKE n \in Nat
  <2>1. r(n) \in OkMsg /\ r(n).cmd = CmdJtag
    BY <1>2, IDMessage, Zenon
  <2> HIDE DEF r
  <2> QED BY <1>3, <1>4, <2>1, Zenon
<1>7. Carries(a, TapStates, {"RunTestIdle"}) /\ Carries(b, Between, {"ShiftIR"})
      /\ Carries(d, Between, {"ShiftDR"}) /\ Carries(f, {"ShiftIR"}, {"ShiftDR"})
  BY PathsCarry
<1> HIDE DEF a, b, d, e, f, g, r
<1>8. Carries(b, {"RunTestIdle"}, {"ShiftIR"}) /\ Carries(d, {"RunTestIdle"}, {"ShiftDR"})
  <2>1. {"RunTestIdle"} \subseteq Between
    BY DEF Between
  <2> QED BY <1>7, <2>1, CarriesFromPart
<1>9. Route(CountChain, Counting)
  BY <1>1, <1>5, <1>7, <1>8, Routes, Zenon DEF Counting
<1>10. \A n \in Nat : Route(GetIDs(n), Reading)
  BY <1>1, <1>6, <1>7, <1>8, Routes, Zenon DEF Reading
<1> QED BY <1>9, <1>10

\* What is known of a call found with the TAP in from.
Guided(c, from) ==
    /\ Program(c) \in Seq(OkMsg)
    /\ from \in Stations(c, from)[1]
    /\ Route(Program(c), Stations(c, from))

\* Nothing is said of where these calls leave the TAP.
LEMMA Anywhere ==
    /\ \A a : Route(<<a>>, <<TapStates, TapStates>>)
    /\ \A a, b : Route(<<a, b>>, <<TapStates, TapStates, TapStates>>)
    /\ \A s : Route(<<>>, s)
<1>1. \A a, s : Carries(a, s, TapStates)
  BY Zenon DEF Carries
<1>2. \A s : Route(<<>>, s)
  <2>1. 1 .. Len(<<>>) = {}
    OBVIOUS
  <2> QED BY <2>1, Zenon DEF Route
<1> QED BY <1>1, <1>2, Routes, Zenon

\* Every call is guided.
LEMMA CallGuided ==
    ASSUME NEW c \in AnyCall, NEW from \in TapStates
    PROVE  Guided(c, from)
<1>1. CASE c.op = "readIDs"
  <2>1. c.n \in Nat
    BY <1>1 DEF AnyCall, FTCall
  <2>2. Program(c) = GetIDs(c.n) /\ Stations(c, from) = Reading
    BY <1>1 DEF Program, Stations
  <2>3. Reading[1] = TapStates
    BY DEF Reading
  <2> QED BY <2>1, <2>2, <2>3, GetIDsType, ChainRoutes, Zenon DEF Guided
<1>2. CASE c.op # "readIDs"
  <2>1. c \in FTCall
    BY <1>2 DEF AnyCall
  <2>2. Program(c) = Plan(c) /\ Program(c) \in Seq(OkMsg)
    BY <1>2, <2>1, PlanType, Zenon DEF Program
  <2> SUFFICES from \in Stations(c, from)[1] /\ Route(Plan(c), Stations(c, from))
    BY <2>2, Zenon DEF Guided
  <2>3. CASE c.op = "toStateReset"
    <3>1. Plan(c) = ToReset /\ Stations(c, from) = <<TapStates, {"TestLogicReset"}>>
      BY <2>3 DEF Plan, Stations
    <3>2. Route(ToReset, <<TapStates, {"TestLogicReset"}>>)
      BY PathsCarry, Routes, Zenon DEF ToReset
    <3>3. <<TapStates, {"TestLogicReset"}>>[1] = TapStates
      OBVIOUS
    <3> QED BY <3>1, <3>2, <3>3, Zenon
  <2>4. CASE c.op = "toStateRunTestIdle"
    <3>1. Plan(c) = ToRunTestIdle /\ Stations(c, from) = <<TapStates, {"RunTestIdle"}>>
      BY <2>4 DEF Plan, Stations
    <3>2. Route(ToRunTestIdle, <<TapStates, {"RunTestIdle"}>>)
      BY PathsCarry, Plans, Routes, Zenon
    <3>3. <<TapStates, {"RunTestIdle"}>>[1] = TapStates
      OBVIOUS
    <3> QED BY <3>1, <3>2, <3>3, Zenon
  <2>5. ASSUME NEW d, NEW s \in TapStates, Carries(d, Between, {s})
        PROVE  /\ Route(<<X(IdlePath, TRUE), d>>, <<TapStates, {"RunTestIdle"}, {s}>>)
               /\ Route(<<d>>, <<{from}, IF from \in Between THEN {s} ELSE TapStates>>)
    <3>1. Carries(d, {"RunTestIdle"}, {s})
      <4>1. {"RunTestIdle"} \subseteq Between
        BY DEF Between
      <4> QED BY <2>5, <4>1, CarriesFromPart
    <3>2. Carries(d, {from}, IF from \in Between THEN {s} ELSE TapStates)
      <4>1. CASE from \in Between
        <5>1. {from} \subseteq Between
          BY <4>1
        <5>2. Carries(d, {from}, {s})
          BY <2>5, <5>1, CarriesFromPart
        <5> QED BY <4>1, <5>2, Zenon
      <4>2. CASE from \notin Between
        BY <4>2, Zenon DEF Carries
      <4> QED BY <4>1, <4>2
    <3> QED BY <3>1, <3>2, PathsCarry, Routes, Zenon
  <2>6. "ShiftIR" \in TapStates /\ "ShiftDR" \in TapStates
    BY DEF TapStates, TapPaths
  <2>7. CASE c.op = "toStateShiftIR"
    <3>1. c.reset \in BOOLEAN
      BY <2>1, <2>7 DEF FTCall
    <3>2. Plan(c) = ToShiftIR(c.reset)
          /\ Stations(c, from) =
               IF c.reset THEN <<TapStates, {"RunTestIdle"}, {"ShiftIR"}>>
               ELSE <<{from}, IF from \in Between THEN {"ShiftIR"} ELSE TapStates>>
      BY <2>7 DEF Plan, Stations
    <3>3. /\ Route(ToShiftIR(TRUE), <<TapStates, {"RunTestIdle"}, {"ShiftIR"}>>)
          /\ Route(ToShiftIR(FALSE), <<{from}, IF from \in Between THEN {"ShiftIR"} ELSE TapStates>>)
      BY <2>5, <2>6, PathsCarry, Plans, Zenon
    <3>4. from \in Stations(c, from)[1]
      BY <3>2
    <3> QED BY <3>1, <3>2, <3>3, <3>4, Zenon
  <2>8. CASE c.op = "toStateShiftDR"
    <3>1. c.reset \in BOOLEAN
      BY <2>1, <2>8 DEF FTCall
    <3>2. Plan(c) = ToShiftDR(c.reset)
          /\ Stations(c, from) =
               IF c.reset THEN <<TapStates, {"RunTestIdle"}, {"ShiftDR"}>>
               ELSE <<{from}, IF from \in Between THEN {"ShiftDR"} ELSE TapStates>>
      BY <2>8 DEF Plan, Stations
    <3>3. /\ Route(ToShiftDR(TRUE), <<TapStates, {"RunTestIdle"}, {"ShiftDR"}>>)
          /\ Route(ToShiftDR(FALSE), <<{from}, IF from \in Between THEN {"ShiftDR"} ELSE TapStates>>)
      BY <2>5, <2>6, PathsCarry, Plans, Zenon
    <3>4. from \in Stations(c, from)[1]
      BY <3>2
    <3> QED BY <3>1, <3>2, <3>3, <3>4, Zenon
  <2>9. Counting[1] = TapStates /\ Reading[1] = TapStates
    BY DEF Counting, Reading
  <2>10. CASE c.op = "countChainLength"
    <3>1. Plan(c) = CountChain /\ Stations(c, from) = Counting
      BY <2>10 DEF Plan, Stations
    <3> QED BY <2>9, <3>1, ChainRoutes, Zenon
  <2>11. CASE c.op = "getIDs"
    <3>1. c.n \in Nat
      BY <2>1, <2>11 DEF FTCall
    <3>2. Plan(c) = (IF c.n = 0 THEN CountChain ELSE GetIDs(c.n))
          /\ Stations(c, from) = (IF c.n = 0 THEN Counting ELSE Reading)
      BY <2>11, <3>1 DEF Plan, Stations
    <3> QED BY <2>9, <3>1, <3>2, ChainRoutes, Zenon
  <2>12. CASE c.op = "shiftToRunTestIdle"
    <3>1. Plan(c) = (IF c.tx = <<>> /\ c.n = 0 THEN <<>> ELSE <<FirstShift(c), SecondShift(c)>>)
      BY <2>1, <2>12, ShiftType, Zenon
    <3>2. Stations(c, from) = IF Shifts(c) /\ from \in Shifting
                              THEN <<{from}, {from}, {"RunTestIdle"}>>
                              ELSE <<TapStates, TapStates, TapStates>>
      BY <2>12 DEF Stations
    <3>3. from \in Stations(c, from)[1]
      BY <3>2
    <3>4. CASE Shifts(c) /\ from \in Shifting
      <4>1. FirstShift(c) \in OkMsg
        BY <2>1, <2>12, ShiftType
      <4>2. Carries(FirstShift(c), {from}, {from})
        <5>1. FirstShift(c).cmd \in {CmdJtag, CmdJtag + CmdTdiRO, CmdJtag + CmdTdiWO}
          BY <3>4, FirstPutsIn, Zenon DEF PutsIn
        <5> QED BY <3>4, <4>1, <5>1, ShiftsCarry
      <4>3. Carries(SecondShift(c), {from}, {"RunTestIdle"})
        <5>1. TmsMessage(SecondShift(c), 3, 3)
              /\ SecondShift(c).cmd # CmdJtag + CmdTdiRO + CmdTdiWO
          BY <3>4, LastPutsIn
        <5>2. Leads(SecondShift(c), {from}, {"RunTestIdle"})
          <6> SUFFICES ASSUME NEW p \in LivePort, p.source = "jtag", p.tap = from,
                              NEW e \in Performed(p, SecondShift(c))
                       PROVE  e.port.tap = "RunTestIdle"
            BY DEF Leads
          <6> QED BY <3>4, <5>1, LastShift
        <5> QED BY <5>1, <5>2, Zenon DEF Carries
      <4>4. Plan(c) = <<FirstShift(c), SecondShift(c)>>
        <5>1. ~ (c.tx = <<>> /\ c.n = 0)
          BY <3>4 DEF Shifts
        <5> QED BY <3>1, <5>1, Zenon
      <4>5. Route(<<FirstShift(c), SecondShift(c)>>, <<{from}, {from}, {"RunTestIdle"}>>)
        BY <4>2, <4>3, Routes, Zenon
      <4>6. Stations(c, from) = <<{from}, {from}, {"RunTestIdle"}>>
        BY <3>2, <3>4, Zenon
      <4> QED BY <3>3, <4>4, <4>5, <4>6, Zenon
    <3>5. CASE ~ (Shifts(c) /\ from \in Shifting)
      BY <3>1, <3>2, <3>3, <3>5, Anywhere, Zenon
    <3> QED BY <3>4, <3>5
  <2>13. CASE c.op \in {"ft", "setPortLevels", "bb", "play"}
    <3>1. Stations(c, from) = <<TapStates, TapStates>>
      BY <2>13 DEF Stations
    <3>2. \E m : Plan(c) = <<m>>
      BY <2>13 DEF Plan
    <3>3. from \in Stations(c, from)[1]
      BY <3>1
    <3> QED BY <3>1, <3>2, <3>3, Anywhere, Zenon
  <2>14. c.op \in {"toStateReset", "toStateRunTestIdle", "countChainLength", "toStateShiftIR",
                   "toStateShiftDR", "getIDs", "shiftToRunTestIdle", "ft", "setPortLevels",
                   "bb", "play"}
    BY <2>1 DEF FTCall
  <2> QED BY <2>3, <2>4, <2>7, <2>8, <2>10, <2>11, <2>12, <2>13, <2>14
<1> QED BY <1>1, <1>2

\* The messages in queue are the last ones of the call's.
Behind(c, queue) ==
    /\ Len(queue) <= Len(Program(c))
    /\ \A i \in 1 .. Len(queue) :
         queue[i] = Program(c)[Len(Program(c)) - Len(queue) + i]

\* Where the TAP may be before them.
Station(c, from, queue) == Stations(c, from)[Len(Program(c)) - Len(queue) + 1]

\* What is pending is the rest of the call's messages, and the TAP is where they start from.
Underway ==
    status \in {"busy", "ok"} =>
      /\ call \in AnyCall
      /\ Behind(call, pending)
      /\ start.source = "jtag" => port.tap \in Station(call, start.tap, pending)

\* The first of them carries the TAP on.
LEMMA OneBehind ==
    ASSUME NEW c, NEW from, Guided(c, from), NEW queue \in Seq(OkMsg), queue # <<>>,
           Behind(c, queue)
    PROVE  /\ Behind(c, Tail(queue))
           /\ Carries(Head(queue), Station(c, from, queue), Station(c, from, Tail(queue)))
<1>1. PICK k \in Nat, l \in Nat \ {0} : k = Len(Program(c)) /\ l = Len(queue) /\ l <= k
  <2>1. Len(Program(c)) \in Nat
    BY DEF Guided
  <2>2. Len(queue) \in Nat \ {0}
    OBVIOUS
  <2> QED BY <2>1, <2>2 DEF Behind
<1>2. PICK rest \in Seq(OkMsg) :
        rest = Tail(queue) /\ Len(rest) = l - 1 /\ \A i \in 1 .. l - 1 : rest[i] = queue[i + 1]
  <2>1. Tail(queue) \in Seq(OkMsg) /\ Len(Tail(queue)) = l - 1
        /\ \A i \in 1 .. Len(Tail(queue)) : Tail(queue)[i] = queue[i + 1]
    BY <1>1, HeadTailProperties, Zenon
  <2> QED BY <2>1, Zenon
<1> DEFINE P == Program(c)
<1> HIDE DEF P
<1>3. \A i \in 1 .. l : queue[i] = P[k - l + i]
  BY <1>1, Zenon DEF Behind, P
<1>4. Behind(c, rest)
  <2>1. Len(rest) <= Len(P)
    BY <1>1, <1>2 DEF P
  <2>2. ASSUME NEW i \in 1 .. l - 1 PROVE rest[i] = P[k - (l - 1) + i]
    <3>1. i + 1 \in 1 .. l /\ k - l + (i + 1) = k - (l - 1) + i
      BY <1>1
    <3> QED BY <1>2, <1>3, <3>1
  <2> QED BY <1>1, <1>2, <2>1, <2>2, Zenon DEF Behind, P
<1>5. Carries(queue[1], Stations(c, from)[k - l + 1], Stations(c, from)[k - (l - 1) + 1])
  <2>1. k - l + 1 \in 1 .. k /\ (k - l + 1) + 1 = k - (l - 1) + 1 /\ 1 \in 1 .. l
    BY <1>1
  <2>2. Carries(P[k - l + 1], Stations(c, from)[k - l + 1], Stations(c, from)[(k - l + 1) + 1])
    BY <1>1, <2>1, Zenon DEF Guided, Route, P
  <2> QED BY <1>3, <2>1, <2>2, Zenon
<1>6. Head(queue) = queue[1]
  OBVIOUS
<1> QED BY <1>1, <1>2, <1>4, <1>5, <1>6, Zenon DEF Station

\* So an exchange does.
LEMMA EffectCarried ==
    ASSUME port \in LivePort, port.source = "jtag", NEW m \in OkMsg, NEW from, NEW to,
           Carries(m, from, to), port.tap \in from, NEW e \in Effects(m)
    PROVE  e.port.tap \in to
<1>1. CASE to = TapStates
  <2>1. e.port \in LivePort
    BY EffectsType
  <2>2. e.port.tap \in TapStates
    BY <2>1 DEF LivePort, Port
  <2> QED BY <1>1, <2>2
<1>2. CASE m.cmd # CmdJtag + CmdTdiRO + CmdTdiWO /\ Leads(m, from, to)
  <2>1. e \in Performed(port, m)
    BY <1>2, Zenon DEF Effects
  <2> QED BY <1>2, <2>1, Zenon DEF Leads
<1> QED BY <1>1, <1>2 DEF Carries

\* Nothing is underway before the first call.
LEMMA InitUnderway == Init => Underway
BY DEF Init, Underway

\* A call starts where the TAP is.
LEMMA CallUnderway == ASSUME Sound, NEW c \in Calls, Call(c) PROVE Underway'
<1>1. c \in FTCall /\ c \in AnyCall
  BY CallsAssumption DEF AnyCall
<1>2. call' = c /\ start' = port /\ port' = port
      /\ (status' \in {"busy", "ok"} => pending' = Plan(c))
  BY DEF Call
<1>3. Plan(c) = Program(c)
  <2>1. c.op # "readIDs"
    BY <1>1 DEF FTCall
  <2> QED BY <2>1, Zenon DEF Program
<1>4. port.tap \in TapStates
  BY DEF Sound, LivePort, Port
<1>5. Guided(c, port.tap)
  BY <1>1, <1>4, CallGuided
<1>6. PICK k \in Nat : k = Len(Program(c))
  BY <1>5 DEF Guided
<1>7. k <= k /\ k - k + 1 = 1 /\ \A i \in 1 .. k : k - k + i = i
  OBVIOUS
<1>8. Behind(c, Program(c)) /\ Station(c, port.tap, Program(c)) = Stations(c, port.tap)[1]
  BY <1>6, <1>7, Zenon DEF Behind, Station
<1>9. port.tap \in Stations(c, port.tap)[1]
  BY <1>5 DEF Guided
<1> QED BY <1>1, <1>2, <1>3, <1>8, <1>9, Zenon DEF Underway

\* A message that is exchanged carries the TAP to where the rest starts.
LEMMA ExchangeUnderway == ASSUME Sound, Underway, Exchange PROVE Underway'
<1>0. status = "busy"
  BY DEF Exchange
<1>1. PICK e \in Effects(Head(pending)) : \E reply \in Answered(e.reply) : Goes(e, reply)
  BY Zenon DEF Exchange, Goes
<1>2. PICK reply \in Answered(e.reply) : Goes(e, reply)
  BY <1>1
<1>3. Head(pending) \in OkMsg /\ pending \in Seq(OkMsg) /\ pending # <<>>
      /\ Tail(pending) \in Seq(OkMsg) /\ Len(pending) \in Nat
  BY <1>0, ExchangeParts DEF Sound
<1>4. call \in AnyCall /\ Behind(call, pending) /\ start.tap \in TapStates
  BY <1>0 DEF Sound, Underway, LivePort, Port
<1>5. Guided(call, start.tap)
  BY <1>4, CallGuided
<1>6. Behind(call, Tail(pending))
      /\ Carries(Head(pending), Station(call, start.tap, pending),
                 Station(call, start.tap, Tail(pending)))
  BY <1>3, <1>4, <1>5, OneBehind
<1>7. start.source = "jtag" => e.port.tap \in Station(call, start.tap, Tail(pending))
  <2>1. port \in LivePort /\ port.source = start.source
    BY DEF Sound
  <2>2. start.source = "jtag" => port.tap \in Station(call, start.tap, pending)
    BY <1>0 DEF Underway
  <2> QED BY <1>3, <1>6, <2>1, <2>2, EffectCarried
<1>8. port' = e.port /\ start' = start
  BY <1>2 DEF Exchange, Goes
<1>9. CASE Len(pending) > 1
  <2>1. pending' = Tail(pending) /\ call' = call
    BY <1>2, <1>9, Zenon DEF Goes
  <2> QED BY <1>4, <1>6, <1>7, <1>8, <2>1, Zenon DEF Underway
<1>10. CASE ~ (Len(pending) > 1) /\ call.op = "getIDs" /\ call.n = 0
  <2>1. PICK n \in Nat : n = ChainLength(reply)
    <3>1. reply \in Seq(0 .. 255)
      BY <1>2, <1>3, AnsweredType, EffectsType DEF Sound
    <3> QED BY <3>1, ChainLengthType
  <2> DEFINE c == [op |-> "readIDs", n |-> n]
  <2>2. call' = c /\ (status' \in {"busy", "ok"} => pending' = GetIDs(n))
    BY <1>2, <1>10, <2>1 DEF Goes
  <2>3. c \in AnyCall /\ c.op = "readIDs" /\ c.n = n
    BY DEF AnyCall
  <2> HIDE DEF c
  <2>4. Program(c) = GetIDs(n) /\ Len(GetIDs(n)) = 3
    BY <2>3, GetIDsType, Zenon DEF Program
  <2>5. Behind(c, GetIDs(n)) /\ Station(c, start.tap, GetIDs(n)) = Stations(c, start.tap)[1]
    <3>1. PICK k \in Nat : k = Len(GetIDs(n)) /\ k <= k /\ k - k + 1 = 1
            /\ \A i \in 1 .. k : k - k + i = i
      BY <2>4
    <3> QED BY <2>4, <3>1, Zenon DEF Behind, Station
  <2>6. Stations(c, start.tap)[1] = TapStates
    BY <2>3 DEF Stations, Reading
  <2>7. port'.tap \in TapStates
    <3>1. e.port \in LivePort
      BY <1>3, EffectsType DEF Sound
    <3> QED BY <1>8, <3>1 DEF LivePort, Port
  <2> QED BY <1>8, <2>2, <2>3, <2>5, <2>6, <2>7, Zenon DEF Underway
<1>11. CASE ~ (Len(pending) > 1) /\ ~ (call.op = "getIDs" /\ call.n = 0)
  <2>1. pending' = <<>> /\ call' = call
    BY <1>2, <1>11, Zenon DEF Goes
  <2>2. Tail(pending) = <<>>
    <3>1. Len(Tail(pending)) = 0
      BY <1>0, <1>3, <1>11, ExchangeParts
    <3> QED BY <1>3, <3>1, EmptySeq
  <2> QED BY <1>4, <1>6, <1>7, <1>8, <2>1, <2>2, Zenon DEF Underway
<1> QED BY <1>9, <1>10, <1>11

\* No step takes a call off its route.
LEMMA NextUnderway == Sound /\ Underway /\ [Next]_vars => Underway'
<1> SUFFICES ASSUME Sound, Underway, [Next]_vars PROVE Underway'
  OBVIOUS
<1>1. CASE \E c \in Calls : Call(c)
  BY <1>1, CallUnderway
<1>2. CASE Exchange
  BY <1>2, ExchangeUnderway
<1>3. CASE Fail
  <2>1. status' = "error"
    BY <1>3 DEF Fail
  <2> QED BY <2>1 DEF Underway
<1>4. CASE \E scratch \in 0 .. 3 : SelectPins(scratch)
  <2>1. status' = "idle"
    BY <1>4 DEF SelectPins
  <2> QED BY <2>1 DEF Underway
<1>5. CASE UNCHANGED vars
  BY <1>5 DEF vars, Underway
<1> QED BY <1>1, <1>2, <1>3, <1>4, <1>5 DEF Next

\* At every moment of a call what is left to send is the rest of its messages, and the
\* TAP is where those sent so far lead it.
THEOREM StaysUnderway == Spec => [](Sound /\ Underway)
<1>1. Init => Sound /\ Underway
  BY InitSound, InitUnderway
<1>2. Sound /\ Underway /\ [Next]_vars => (Sound /\ Underway)'
  BY NextSound, NextUnderway
<1> QED BY <1>1, <1>2, PTL DEF Spec

\* The last station is where the call is said to leave the TAP.
LEMMA LastStation ==
    ASSUME NEW c \in AnyCall, NEW from \in TapStates, NEW tap, tap \in Station(c, from, <<>>)
    PROVE  /\ c.op = "toStateReset" => tap = "TestLogicReset"
           /\ c.op = "toStateRunTestIdle" => tap = "RunTestIdle"
           /\ c.op = "toStateShiftIR" /\ (c.reset \/ from \in Between) => tap = "ShiftIR"
           /\ c.op = "toStateShiftDR" /\ (c.reset \/ from \in Between) => tap = "ShiftDR"
           /\ c.op \in {"countChainLength", "getIDs", "readIDs"} => tap = "ShiftDR"
           /\ Shifts(c) /\ from \in Shifting => tap = "RunTestIdle"
<1>1. ASSUME NEW k \in Nat, Len(Program(c)) = k PROVE tap \in Stations(c, from)[k + 1]
  <2>1. k - 0 + 1 = k + 1 /\ Len(<<>>) = 0
    OBVIOUS
  <2> QED BY <1>1, <2>1, Zenon DEF Station
<1>2. c.op # "readIDs" => c \in FTCall /\ Program(c) = Plan(c)
  BY DEF AnyCall, Program
<1>3. \A a, b, d, e, f :
        /\ Len(<<a>>) = 1 /\ Len(<<a, b>>) = 2 /\ Len(<<a, b, d>>) = 3
        /\ Len(<<a, b, d, e, f>>) = 5
  OBVIOUS
<1>4. /\ \A s, t : <<s, t>>[1 + 1] = t
      /\ \A s, t, u : <<s, t, u>>[2 + 1] = u
      /\ Counting[5 + 1] = {"ShiftDR"} /\ Reading[3 + 1] = {"ShiftDR"}
  BY DEF Counting, Reading
<1>5. CASE c.op = "toStateReset"
  <2>1. Len(Program(c)) = 1
    BY <1>2, <1>3, <1>5, Zenon DEF Plan, ToReset
  <2>2. Stations(c, from) = <<TapStates, {"TestLogicReset"}>>
    BY <1>5 DEF Stations
  <2> QED BY <1>1, <1>4, <1>5, <2>1, <2>2 DEF Shifts
<1>6. CASE c.op = "toStateRunTestIdle"
  <2>1. Len(Program(c)) = 1
    BY <1>2, <1>3, <1>6, Plans, Zenon DEF Plan
  <2>2. Stations(c, from) = <<TapStates, {"RunTestIdle"}>>
    BY <1>6 DEF Stations
  <2> QED BY <1>1, <1>4, <1>6, <2>1, <2>2 DEF Shifts
<1>7. CASE c.op = "toStateShiftIR"
  <2>1. c.reset \in BOOLEAN /\ Program(c) = ToShiftIR(c.reset)
    BY <1>2, <1>7 DEF Plan, FTCall
  <2>2. CASE c.reset
    <3>1. Len(Program(c)) = 2
      BY <1>3, <2>1, <2>2, Plans, ZenonT(60)
    <3>2. Stations(c, from) = <<TapStates, {"RunTestIdle"}, {"ShiftIR"}>>
      BY <1>7, <2>2 DEF Stations
    <3> QED BY <1>1, <1>4, <1>7, <3>1, <3>2 DEF Shifts
  <2>3. CASE ~ c.reset
    <3>1. Len(Program(c)) = 1
      BY <1>3, <2>1, <2>3, Plans, Zenon
    <3>2. Stations(c, from) = <<{from}, IF from \in Between THEN {"ShiftIR"} ELSE TapStates>>
      BY <1>7, <2>3 DEF Stations
    <3> QED BY <1>1, <1>4, <1>7, <2>3, <3>1, <3>2 DEF Shifts
  <2> QED BY <2>2, <2>3
<1>8. CASE c.op = "toStateShiftDR"
  <2>1. c.reset \in BOOLEAN /\ Program(c) = ToShiftDR(c.reset)
    BY <1>2, <1>8 DEF Plan, FTCall
  <2>2. CASE c.reset
    <3>1. Len(Program(c)) = 2
      BY <1>3, <2>1, <2>2, Plans, Zenon
    <3>2. Stations(c, from) = <<TapStates, {"RunTestIdle"}, {"ShiftDR"}>>
      BY <1>8, <2>2 DEF Stations
    <3> QED BY <1>1, <1>4, <1>8, <3>1, <3>2 DEF Shifts
  <2>3. CASE ~ c.reset
    <3>1. Len(Program(c)) = 1
      BY <1>3, <2>1, <2>3, Plans, Zenon
    <3>2. Stations(c, from) = <<{from}, IF from \in Between THEN {"ShiftDR"} ELSE TapStates>>
      BY <1>8, <2>3 DEF Stations
    <3> QED BY <1>1, <1>4, <1>8, <2>3, <3>1, <3>2 DEF Shifts
  <2> QED BY <2>2, <2>3
<1>9. CASE c.op \in {"countChainLength", "getIDs", "readIDs"}
  <2>1. c.op # "countChainLength" => c.n \in Nat
    BY <1>9 DEF AnyCall, FTCall
  <2>2. \/ Program(c) = CountChain /\ Stations(c, from) = Counting
        \/ \E n \in Nat : Program(c) = GetIDs(n) /\ Stations(c, from) = Reading
    <3>1. CASE c.op = "countChainLength"
      BY <1>2, <3>1 DEF Plan, Stations
    <3>2. CASE c.op = "getIDs"
      BY <1>2, <2>1, <3>2 DEF Plan, Stations
    <3>3. CASE c.op = "readIDs"
      <4>1. Program(c) = GetIDs(c.n) /\ Stations(c, from) = Reading
        BY <3>3 DEF Program, Stations
      <4> QED BY <2>1, <3>3, <4>1
    <3> QED BY <1>9, <3>1, <3>2, <3>3
  <2>3. Len(CountChain) = 5 /\ \A n \in Nat : Len(GetIDs(n)) = 3
    BY <1>3, Plans, GetIDsType, Zenon
  <2>4. tap = "ShiftDR"
    <3>1. CASE Program(c) = CountChain /\ Stations(c, from) = Counting
      <4>1. tap \in Counting[5 + 1]
        BY <1>1, <2>3, <3>1
      <4> QED BY <1>4, <4>1, Zenon
    <3>2. CASE \E n \in Nat : Program(c) = GetIDs(n) /\ Stations(c, from) = Reading
      <4>1. tap \in Reading[3 + 1]
        BY <1>1, <2>3, <3>2
      <4> QED BY <1>4, <4>1, Zenon
    <3> QED BY <2>2, <3>1, <3>2
  <2> QED BY <1>9, <2>4 DEF Shifts
<1>10. CASE c.op = "shiftToRunTestIdle"
  <2>1. ASSUME Shifts(c), from \in Shifting PROVE tap = "RunTestIdle"
    <3>1. Plan(c) = <<FirstShift(c), SecondShift(c)>>
      <4>1. Plan(c) = (IF c.tx = <<>> /\ c.n = 0 THEN <<>> ELSE <<FirstShift(c), SecondShift(c)>>)
        BY <1>2, <1>10, ShiftType, Zenon
      <4>2. ~ (c.tx = <<>> /\ c.n = 0)
        BY <2>1 DEF Shifts
      <4> QED BY <4>1, <4>2, Zenon
    <3>2. Len(Program(c)) = 2
      BY <1>2, <1>3, <1>10, <3>1, Zenon
    <3>3. Stations(c, from) = <<{from}, {from}, {"RunTestIdle"}>>
      BY <1>10, <2>1 DEF Stations
    <3> QED BY <1>1, <1>4, <3>2, <3>3
  <2> QED BY <1>10, <2>1
<1>11. CASE c.op \in {"ft", "setPortLevels", "bb", "play"}
  BY <1>11 DEF Shifts
<1>12. c.op \in {"toStateReset", "toStateRunTestIdle", "countChainLength", "toStateShiftIR",
                 "toStateShiftDR", "getIDs", "shiftToRunTestIdle", "ft", "setPortLevels",
                 "bb", "play", "readIDs"}
  BY DEF AnyCall, FTCall
<1> QED BY <1>5, <1>6, <1>7, <1>8, <1>9, <1>10, <1>11, <1>12

\* A shift as ProperShift has it is one as it is guided.
LEMMA ProperShifts == ASSUME Underway, ProperShift PROVE Shifts(call) /\ start.tap \in Shifting
<1>1. call \in AnyCall /\ call.op = "shiftToRunTestIdle"
  BY DEF Underway, ProperShift, Returns
<1>2. call \in FTCall
  BY <1>1 DEF AnyCall
<1> QED BY <1>1, <1>2, Zenon DEF ProperShift, Shifts

\* A call that has sent all its messages is at the last station of its route.
LEMMA UnderwayLands == Sound /\ Underway => Lands
<1> SUFFICES ASSUME Sound, Underway PROVE Lands
  OBVIOUS
<1>1. CASE ~ Returns
  BY <1>1 DEF Lands, ProperShift
<1>2. CASE Returns
  <2>1. call \in AnyCall /\ pending = <<>> /\ port.tap \in Station(call, start.tap, pending)
    BY <1>2 DEF Sound, Underway, Returns
  <2>2. start.tap \in TapStates
    BY DEF Sound, LivePort, Port
  <2>3. /\ call.op = "toStateReset" => port.tap = "TestLogicReset"
        /\ call.op = "toStateRunTestIdle" => port.tap = "RunTestIdle"
        /\ call.op = "toStateShiftIR" /\ (call.reset \/ start.tap \in Between) => port.tap = "ShiftIR"
        /\ call.op = "toStateShiftDR" /\ (call.reset \/ start.tap \in Between) => port.tap = "ShiftDR"
        /\ call.op \in {"countChainLength", "getIDs", "readIDs"} => port.tap = "ShiftDR"
        /\ Shifts(call) /\ start.tap \in Shifting => port.tap = "RunTestIdle"
    BY <2>1, <2>2, LastStation
  <2> QED BY <1>2, <2>3, ProperShifts DEF Lands, Between
<1> QED BY <1>1, <1>2

\* A call that returns has left the TAP where its name says, whatever was called before,
\* failed or was cut short: the paths of FTEmul.cpp and the order of their messages.
THEOREM CallsLand == Spec => []Lands
BY StaysUnderway, UnderwayLands, PTL

-----------------------------------------------------------------------------
(* What a shift puts into the register. *)

\* The first n bits of the call's went in.
PutIn(c, tr, n) ==
    n \in Nat /\ Len(tr) = n /\ \A i \in 1 .. n : tr[i].tdi = Tdi(c, i)

\* Before the first message none, before the second all but the last.
Progress(c, queue, tr) ==
    /\ Len(queue) = 2 => PutIn(c, tr, 0)
    /\ Len(queue) = 1 => PutIn(c, tr, Bits(c) - 1)
    /\ Len(queue) = 0 => PutIn(c, tr, Bits(c))

ShiftUnderway ==
    /\ status \in {"busy", "ok"} /\ start.source = "jtag"
    /\ Shifts(call) /\ start.tap \in Shifting

Entering == ShiftUnderway => Progress(call, pending, trace)

\* How many bits a shift has, and which messages.
LEMMA ShiftCounts ==
    ASSUME NEW c, Shifts(c)
    PROVE  /\ Bits(c) \in Nat /\ Bits(c) > 1
           /\ Plan(c) = <<FirstShift(c), SecondShift(c)>> /\ Program(c) = Plan(c)
           /\ FirstShift(c) \in OkMsg /\ SecondShift(c) \in OkMsg
           /\ c.op # "getIDs" /\ c.op # "readIDs"
<1>1. /\ c.tx \in Seq(0 .. 255) /\ c.bits \in 0 .. 7 /\ c.n \in Nat
      /\ FirstShift(c) \in OkMsg /\ SecondShift(c) \in OkMsg
      /\ Plan(c) = (IF c.tx = <<>> /\ c.n = 0 THEN <<>> ELSE <<FirstShift(c), SecondShift(c)>>)
  BY ShiftType, Zenon DEF Shifts
<1>2. ~ (c.tx = <<>> /\ c.n = 0) /\ c.op = "shiftToRunTestIdle" /\ Bits(c) > 1
  BY <1>1 DEF Shifts
<1>3. Bits(c) \in Nat
  <2>1. PutsIn(FirstShift(c), c, Bits(c) - 1)
    BY FirstPutsIn
  <2>2. Bits(c) - 1 \in Nat
    BY <2>1 DEF PutsIn
  <2>3. Bits(c) \in Int
    <3>1. PICK k \in Nat, b \in 0 .. 7 : b = c.bits /\ k = (IF c.tx = <<>> THEN c.n ELSE Len(c.tx))
      <4>1. (IF c.tx = <<>> THEN c.n ELSE Len(c.tx)) \in Nat
        BY <1>1
      <4> QED BY <1>1, <4>1
    <3>2. Bits(c) = 8 * (k - 1) + b + 1
      BY <3>1, Zenon DEF Bits
    <3>3. 8 * (k - 1) + b + 1 \in Int
      OBVIOUS
    <3> QED BY <3>2, <3>3
  <2> QED BY <2>2, <2>3
<1> QED BY <1>1, <1>2, <1>3, Zenon DEF Program

\* Bits behind bits.
LEMMA PutBehind ==
    ASSUME NEW c, NEW n \in Nat, NEW m \in Nat,
           NEW tr \in Seq(ShiftBit), PutIn(c, tr, n),
           NEW more \in Seq(ShiftBit), Len(more) = m,
           \A i \in 1 .. m : more[i].tdi = Tdi(c, n + i)
    PROVE  PutIn(c, tr \o more, n + m)
<1>1. Len(tr) = n
  BY DEF PutIn
<1>2. /\ Len(tr \o more) = n + m
      /\ \A i \in 1 .. n + m : (tr \o more)[i] = IF i <= n THEN tr[i] ELSE more[i - n]
  BY <1>1, ConcatProperties
<1>3. ASSUME NEW i \in 1 .. n + m PROVE (tr \o more)[i].tdi = Tdi(c, i)
  <2>1. CASE i <= n
    <3>1. i \in 1 .. n /\ (tr \o more)[i] = tr[i]
      BY <1>2, <2>1
    <3> QED BY <3>1 DEF PutIn
  <2>2. CASE ~ (i <= n)
    <3>1. i - n \in 1 .. m /\ n + (i - n) = i /\ (tr \o more)[i] = more[i - n]
      BY <1>2, <2>2
    <3> QED BY <3>1
  <2> QED BY <2>1, <2>2
<1> QED BY <1>2, <1>3 DEF PutIn

\* A call starts with nothing in.
LEMMA CallEntering == ASSUME NEW c \in Calls, Call(c) PROVE Entering'
<1> SUFFICES ASSUME ShiftUnderway' PROVE Progress(call', pending', trace')
  BY DEF Entering
<1>1. call' = c /\ trace' = <<>> /\ status' \in {"busy", "ok"} /\ Shifts(c)
  BY DEF Call, ShiftUnderway
<1>2. pending' = Plan(c)
  BY <1>1 DEF Call
<1>3. Len(pending') = 2
  <2>1. Plan(c) = <<FirstShift(c), SecondShift(c)>>
    BY <1>1, ShiftCounts
  <2> QED BY <1>2, <2>1
<1>4. PutIn(c, <<>>, 0)
  BY DEF PutIn
<1> QED BY <1>1, <1>3, <1>4 DEF Progress

\* What is exchanged of a shift: its first message or its second, out of a shift state.
ShiftStep(e, reply) ==
    /\ e \in Performed(port, Head(pending)) /\ reply \in Answered(e.reply) /\ Goes(e, reply)
    /\ e.trace \in Seq(ShiftBit) /\ trace' = trace \o e.trace
    /\ Len(pending) \in {1, 2} /\ Len(pending') = Len(pending) - 1
    /\ Head(pending) = IF Len(pending) = 2 THEN FirstShift(call) ELSE SecondShift(call)

\* An exchange leads into a shift only from the same shift.
LEMMA ShiftExchange ==
    ASSUME Sound, Underway, Exchange, ShiftUnderway'
    PROVE  /\ ShiftUnderway /\ call' = call
           /\ port \in LivePort /\ port.source = "jtag" /\ port.tap \in Shifting
           /\ \E e : \E reply : ShiftStep(e, reply)
<1>0. status = "busy" /\ start' = start
  BY DEF Exchange
<1>1. PICK e \in Effects(Head(pending)) : \E reply \in Answered(e.reply) : Goes(e, reply)
  BY Zenon DEF Exchange, Goes
<1>2. PICK reply \in Answered(e.reply) : Goes(e, reply)
  BY <1>1
<1>3. Head(pending) \in OkMsg /\ pending \in Seq(OkMsg) /\ pending # <<>>
      /\ Len(pending) \in Nat /\ Len(pending) >= 1
      /\ Len(Tail(pending)) = Len(pending) - 1
  BY <1>0, ExchangeParts DEF Sound
<1>4. call' = call /\ trace' = trace \o e.trace
      /\ Len(pending') = Len(pending) - 1
  <2>1. trace' = trace \o e.trace
    BY <1>2 DEF Goes
  <2>2. CASE Len(pending) > 1
    BY <1>2, <1>3, <2>1, <2>2, Zenon DEF Goes
  <2>3. CASE ~ (Len(pending) > 1) /\ call.op = "getIDs" /\ call.n = 0
    <3>1. call'.op = "readIDs"
      BY <1>2, <2>3 DEF Goes
    <3>2. call'.op # "readIDs"
      BY ShiftCounts DEF ShiftUnderway
    <3> QED BY <3>1, <3>2
  <2>4. CASE ~ (Len(pending) > 1) /\ ~ (call.op = "getIDs" /\ call.n = 0)
    <3>1. call' = call /\ pending' = <<>>
      BY <1>2, <2>4, Zenon DEF Goes
    <3>2. Len(pending') = 0 /\ Len(pending) = 1
      BY <1>3, <2>4, <3>1
    <3> QED BY <2>1, <3>1, <3>2
  <2> QED BY <2>2, <2>3, <2>4
<1>5. ShiftUnderway /\ Shifts(call) /\ start.tap \in Shifting /\ start.source = "jtag"
  BY <1>0, <1>4 DEF ShiftUnderway
<1>6. /\ Program(call) = <<FirstShift(call), SecondShift(call)>> /\ Len(Program(call)) = 2
      /\ FirstShift(call) \in OkMsg /\ SecondShift(call) \in OkMsg
  BY <1>5, ShiftCounts
<1>7. /\ Behind(call, pending) /\ port.tap \in Station(call, start.tap, pending)
      /\ port \in LivePort /\ port.source = "jtag"
  BY <1>0, <1>5 DEF Underway, Sound
<1>8. e.trace \in Seq(ShiftBit)
  BY <1>3, <1>7, EffectsType
<1>9. /\ Stations(call, start.tap) = <<{start.tap}, {start.tap}, {"RunTestIdle"}>>
      /\ Head(pending) = pending[1]
  <2>1. call.op = "shiftToRunTestIdle"
    BY <1>5 DEF Shifts
  <2>2. Stations(call, start.tap) = <<{start.tap}, {start.tap}, {"RunTestIdle"}>>
    BY <1>5, <2>1 DEF Stations
  <2> QED BY <1>3, <2>2
<1>10. Len(pending) \in {1, 2}
  <2>1. Len(pending) <= 2
    BY <1>6, <1>7 DEF Behind
  <2> QED BY <1>3, <2>1
<1>11. port.tap \in Shifting
  <2>1. CASE Len(pending) = 2
    <3>1. Station(call, start.tap, pending) = {start.tap}
      BY <1>6, <1>9, <2>1 DEF Station
    <3> QED BY <1>5, <1>7, <3>1
  <2>2. CASE Len(pending) = 1
    <3>1. Station(call, start.tap, pending) = {start.tap}
      BY <1>6, <1>9, <2>2 DEF Station
    <3> QED BY <1>5, <1>7, <3>1
  <2> QED BY <1>10, <2>1, <2>2
<1>12. Head(pending) = IF Len(pending) = 2 THEN FirstShift(call) ELSE SecondShift(call)
  <2>1. CASE Len(pending) = 2
    <3>1. 1 \in 1 .. Len(pending) /\ Len(Program(call)) - Len(pending) + 1 = 1
      BY <1>6, <2>1
    <3> QED BY <1>6, <1>7, <1>9, <2>1, <3>1 DEF Behind
  <2>2. CASE Len(pending) = 1
    <3>1. 1 \in 1 .. Len(pending) /\ Len(Program(call)) - Len(pending) + 1 = 2
      BY <1>6, <2>2
    <3> QED BY <1>6, <1>7, <1>9, <2>2, <3>1 DEF Behind
  <2> QED BY <1>10, <2>1, <2>2
<1>13. Head(pending).cmd # CmdJtag + CmdTdiRO + CmdTdiWO
  <2>1. FirstShift(call).cmd \in {CmdJtag, CmdJtag + CmdTdiRO, CmdJtag + CmdTdiWO}
    BY <1>5, FirstPutsIn, Zenon DEF PutsIn
  <2>2. FirstShift(call).cmd # CmdJtag + CmdTdiRO + CmdTdiWO
    BY <2>1 DEF CmdJtag, CmdTdiWO, CmdTdiRO
  <2> QED BY <1>5, <1>12, <2>2, LastPutsIn, Zenon
<1>14. e \in Performed(port, Head(pending))
  BY <1>13, Zenon DEF Effects
<1>15. ShiftStep(e, reply)
  BY <1>2, <1>4, <1>8, <1>10, <1>12, <1>14, Zenon DEF ShiftStep
<1> QED BY <1>4, <1>5, <1>7, <1>11, <1>15, Zenon

\* The first message puts all bits in but the last, the second that one.
LEMMA ExchangeEntering == ASSUME Sound, Underway, Entering, Exchange PROVE Entering'
<1> SUFFICES ASSUME ShiftUnderway' PROVE Progress(call', pending', trace')
  BY DEF Entering
<1>1. /\ ShiftUnderway /\ Shifts(call) /\ call' = call
      /\ port \in LivePort /\ port.source = "jtag" /\ port.tap \in Shifting
      /\ trace \in Seq(ShiftBit)
  BY ShiftExchange DEF ShiftUnderway, Sound
<1>2. PICK e : \E reply : ShiftStep(e, reply)
  BY ShiftExchange, Zenon
<1>3. /\ e \in Performed(port, Head(pending)) /\ e.trace \in Seq(ShiftBit)
      /\ trace' = trace \o e.trace
      /\ Len(pending) \in {1, 2} /\ Len(pending') = Len(pending) - 1
      /\ Head(pending) = IF Len(pending) = 2 THEN FirstShift(call) ELSE SecondShift(call)
  BY <1>2, Zenon DEF ShiftStep
<1>4. Progress(call, pending, trace)
  BY <1>1 DEF Entering
<1>5. PICK n \in Nat : n = Bits(call) - 1 /\ n + 1 = Bits(call)
  <2>1. Bits(call) \in Nat /\ Bits(call) > 1
    BY <1>1, ShiftCounts
  <2> QED BY <2>1
<1>6. CASE Len(pending) = 2
  <2> DEFINE m == FirstShift(call)
  <2>1. PutsIn(m, call, Bits(call) - 1)
    BY <1>1, FirstPutsIn
  <2>2. m \in Exchanged
    BY <1>1, ShiftCounts, OkMsgExchanged
  <2>3. e \in Performed(port, m)
    BY <1>3, <1>6, Zenon
  <2> HIDE DEF m
  <2>4. m.cmd \in {CmdJtag, CmdJtag + CmdTdiRO, CmdJtag + CmdTdiWO}
        /\ Len(PulsesOf(m)) = n /\ \A i \in 1 .. n : PulsesOf(m)[i].tdi = Tdi(call, i)
    BY <1>5, <2>1, Zenon DEF PutsIn
  <2>5. m.cmd # CmdJtag + CmdTms /\ ~ SetsPins(m) /\ ~ Bangs(m)
    BY <2>4 DEF SetsPins, Bangs, CmdJtag, CmdTms, CmdBB, CmdTdiWO, CmdTdiRO, CmdBBSpi
  <2>6. Len(e.trace) = n /\ \A i \in 1 .. n : e.trace[i].tdi = PulsesOf(m)[i].tdi
    BY <1>1, <2>2, <2>3, <2>4, <2>5, ShiftsIn
  <2>7. PutIn(call, trace, 0)
    BY <1>4, <1>6 DEF Progress
  <2>8. 0 \in Nat /\ \A i \in 1 .. n : e.trace[i].tdi = Tdi(call, 0 + i)
    <3>1. \A i \in 1 .. n : 0 + i = i
      OBVIOUS
    <3> QED BY <2>4, <2>6, <3>1, Zenon
  <2>9. PutIn(call, trace', 0 + n)
    BY <1>1, <1>3, <2>6, <2>7, <2>8, PutBehind
  <2>10. Len(pending') = 1 /\ Len(pending') # 2 /\ Len(pending') # 0 /\ 0 + n = n
    BY <1>3, <1>6
  <2>11. PutIn(call', trace', Bits(call') - 1)
    BY <1>1, <1>5, <2>9, <2>10, Zenon
  <2> QED BY <2>10, <2>11, Zenon DEF Progress
<1>7. CASE Len(pending) = 1
  <2> DEFINE m == SecondShift(call)
  <2>1. Head(pending) = m
    BY <1>3, <1>7
  <2>2. TmsMessage(m, 3, 3) /\ (IF m.len >= TmsTdiHi THEN 1 ELSE 0) = Tdi(call, Bits(call))
    BY <1>1, LastPutsIn
  <2>3. e \in Performed(port, m)
    BY <1>3, <2>1, Zenon
  <2> HIDE DEF m
  <2>4. Len(e.trace) = 1 /\ e.trace[1].tdi = Tdi(call, Bits(call))
    BY <1>1, <2>2, <2>3, LastShift
  <2>5. PutIn(call, trace, n)
    BY <1>4, <1>5, <1>7 DEF Progress
  <2>6. 1 \in Nat /\ \A i \in 1 .. 1 : e.trace[i].tdi = Tdi(call, n + i)
    BY <1>5, <2>4
  <2>7. PutIn(call, trace', n + 1)
    BY <1>1, <1>3, <2>4, <2>5, <2>6, PutBehind
  <2>8. Len(pending') = 0 /\ Len(pending') # 2 /\ Len(pending') # 1
    BY <1>3, <1>7
  <2>9. PutIn(call', trace', Bits(call'))
    BY <1>1, <1>5, <2>7, Zenon
  <2> QED BY <2>8, <2>9, Zenon DEF Progress
<1> QED BY <1>3, <1>6, <1>7

\* Each message of a shift puts in the bits that are its own.
LEMMA NextEntering == Sound /\ Underway /\ Entering /\ [Next]_vars => Entering'
<1> SUFFICES ASSUME Sound, Underway, Entering, [Next]_vars PROVE Entering'
  OBVIOUS
<1>1. CASE \E c \in Calls : Call(c)
  BY <1>1, CallEntering
<1>2. CASE Exchange
  BY <1>2, ExchangeEntering
<1>3. CASE Fail
  <2>1. status' = "error"
    BY <1>3 DEF Fail
  <2> QED BY <2>1 DEF Entering, ShiftUnderway
<1>4. CASE \E scratch \in 0 .. 3 : SelectPins(scratch)
  <2>1. status' = "idle"
    BY <1>4 DEF SelectPins
  <2> QED BY <2>1 DEF Entering, ShiftUnderway
<1>5. CASE UNCHANGED vars
  BY <1>5 DEF vars, Entering, ShiftUnderway
<1> QED BY <1>1, <1>2, <1>3, <1>4, <1>5 DEF Next

\* When the last message is exchanged every bit is in.
LEMMA EnteringShifts == Sound /\ Underway /\ Entering => ShiftsAll
<1> SUFFICES ASSUME Sound, Underway, Entering, ProperShift
             PROVE  [i \in DOMAIN trace |-> trace[i].tdi] =
                      IF call.tx = <<>> THEN [i \in 1 .. Bits(call) |-> 0]
                      ELSE BitsOf(call.tx, Bits(call))
  BY Zenon DEF ShiftsAll
<1>1. Shifts(call) /\ start.tap \in Shifting
  BY ProperShifts
<1>2. status = "ok" /\ start.source = "jtag" /\ pending = <<>>
  BY DEF ProperShift, Returns, Sound
<1>3. PutIn(call, trace, Bits(call))
  <2>1. Progress(call, pending, trace)
    BY <1>1, <1>2 DEF Entering, ShiftUnderway
  <2>2. Len(pending) = 0
    BY <1>2
  <2> QED BY <2>1, <2>2, Zenon DEF Progress
<1>4. PICK n \in Nat : n = Bits(call) /\ Len(trace) = n /\ \A i \in 1 .. n : trace[i].tdi = Tdi(call, i)
  BY <1>3 DEF PutIn
<1>5. DOMAIN trace = 1 .. n
  BY <1>4 DEF Sound
<1>6. [i \in DOMAIN trace |-> trace[i].tdi] = [i \in 1 .. n |-> Tdi(call, i)]
  BY <1>4, <1>5, Zenon
<1>7. CASE call.tx = <<>>
  <2>1. \A i \in 1 .. n : Tdi(call, i) = 0
    BY <1>7, Zenon DEF Tdi
  <2>2. [i \in 1 .. n |-> Tdi(call, i)] = [i \in 1 .. n |-> 0]
    BY <2>1, Zenon
  <2> QED BY <1>4, <1>6, <1>7, <2>2, Zenon
<1>8. CASE call.tx # <<>>
  <2>1. \A i \in 1 .. n : Tdi(call, i) = BitOf(call.tx[((i - 1) \div 8) + 1], (i - 1) % 8)
    BY <1>8, Zenon DEF Tdi
  <2>2. [i \in 1 .. n |-> Tdi(call, i)] = BitsOf(call.tx, n)
    BY <2>1, Zenon DEF BitsOf
  <2> QED BY <1>4, <1>6, <1>8, <2>2, Zenon
<1> QED BY <1>7, <1>8

\* shiftToRunTestIdle puts every bit of tbuf into the register, once and in order, the last
\* one too although it goes out with TMS, whatever was called before or failed, and zeros
\* if there is nothing to write (FTEmul.cpp, shiftToRunTestIdle).
THEOREM EveryBitGoesIn == Spec => []ShiftsAll
<1>1. Init => Sound /\ Underway /\ Entering
  BY InitSound, InitUnderway DEF Init, Entering, ShiftUnderway
<1>2. Sound /\ Underway /\ Entering /\ [Next]_vars => (Sound /\ Underway /\ Entering)'
  BY NextSound, NextUnderway, NextEntering
<1>3. Sound /\ Underway /\ Entering => ShiftsAll
  BY EnteringShifts
<1> QED BY <1>1, <1>2, <1>3, PTL DEF Spec

-----------------------------------------------------------------------------
(* What a shift returns. *)

\* What came out of the register.
Tdos(tr) == [i \in DOMAIN tr |-> tr[i].tdo]

\* What is entered does not depend on what follows.
LEMMA EnteredSame ==
    ASSUME NEW k \in 0 .. 8, NEW x, NEW in, NEW other, Entered(x, in, k),
           \A q \in 1 .. k : in[q] = other[q]
    PROVE  Entered(x, other, k)
BY Zenon DEF Entered

\* The bit that came with TMS is put in its place behind the others.
LEMMA ShiftedPacked ==
    ASSUME NEW n \in Nat \ {0}, NEW b \in 0 .. 7, NEW bits \in Seq(Bit), Len(bits) = 8 * (n - 1) + b,
           NEW first, Packed(first, bits), NEW last, LastTdo(last) \in Bit
    PROVE  Packed(Shifted(n, first, last), Append(bits, LastTdo(last)))
<1>1. PICK x \in Bit : x = LastTdo(last)
  OBVIOUS
<1> DEFINE all == Append(bits, x)
<1>2. PICK l \in Nat : l = Len(bits) /\ l = 8 * (n - 1) + b
  OBVIOUS
<1>3. /\ all \in Seq(Bit) /\ Len(all) = l + 1 /\ all[l + 1] = x
      /\ \A i \in 1 .. l : all[i] = bits[i]
  BY <1>2
<1>4. (l + 1 + 7) \div 8 = n /\ l + 1 - 8 * (n - 1) = b + 1
  BY <1>2
<1>5. PICK f \in Nat : f = (l + 7) \div 8 /\ f = (IF b = 0 THEN n - 1 ELSE n)
  <2>1. (l + 7) \div 8 = IF b = 0 THEN n - 1 ELSE n
    <3>1. CASE b = 0
      BY <1>2, <3>1
    <3>2. CASE b # 0
      BY <1>2, <3>2
    <3> QED BY <3>1, <3>2
  <2> QED BY <2>1
<1> DEFINE held(j) == IF j < f THEN 8 ELSE l - 8 * (f - 1)
<1>6. /\ first \in Seq(0 .. 255) /\ Len(first) = f
      /\ \A j \in 1 .. f : Entered(first[j], [q \in 1 .. held(j) |-> bits[8 * (j - 1) + q]], held(j))
  BY <1>2, <1>5, Zenon DEF Packed
<1> DEFINE filled == [i \in 1 .. n |-> IF i <= f THEN first[i] ELSE 0]
<1> DEFINE top == 128 * x + filled[n] \div 2
<1> DEFINE res == [filled EXCEPT ![n] = top]
<1>7. Shifted(n, first, last) = res
  <2> DEFINE list == [i \in 1 .. n |-> IF i <= Len(first) THEN first[i] ELSE 0]
  <2>1. n # 0
    OBVIOUS
  <2>2. Shifted(n, first, last) = [list EXCEPT ![n] = 128 * x + list[n] \div 2]
    BY <1>1, <2>1, Zenon DEF Shifted
  <2>3. list = filled
    BY <1>6, Zenon
  <2> HIDE DEF list, filled
  <2> QED BY <2>2, <2>3, Zenon
<1> HIDE DEF all
<1>8. ASSUME NEW j \in 1 .. n - 1
      PROVE  Entered(filled[j], [q \in 1 .. 8 |-> all[8 * (j - 1) + q]], 8)
  <2>1. j \in 1 .. f /\ filled[j] = first[j] /\ held(j) = 8
    BY <1>2, <1>5
  <2> HIDE DEF filled, held
  <2>2. Entered(filled[j], [q \in 1 .. 8 |-> bits[8 * (j - 1) + q]], 8)
    BY <1>6, <2>1, Zenon
  <2>3. ASSUME NEW q \in 1 .. 8 PROVE bits[8 * (j - 1) + q] = all[8 * (j - 1) + q]
    <3>1. 8 * (j - 1) + q \in 1 .. l
      BY <1>2
    <3> QED BY <1>3, <3>1, Zenon
  <2>4. [q \in 1 .. 8 |-> bits[8 * (j - 1) + q]] = [q \in 1 .. 8 |-> all[8 * (j - 1) + q]]
    BY <2>3, Zenon
  <2> QED BY <2>2, <2>4, Zenon
<1> DEFINE in == [q \in 1 .. b + 1 |-> all[8 * (n - 1) + q]]
<1>9. in \in [1 .. b + 1 -> Bit] /\ in[b + 1] = x
      /\ \A q \in 1 .. b : in[q] = bits[8 * (n - 1) + q]
  <2>1. ASSUME NEW q \in 1 .. b + 1 PROVE all[8 * (n - 1) + q] \in Bit
    <3>1. 8 * (n - 1) + q \in 1 .. Len(all)
      BY <1>2, <1>3
    <3> QED BY <1>3, <3>1, ElementOfSeq, Zenon
  <2>2. 8 * (n - 1) + (b + 1) = l + 1
    BY <1>2
  <2>3. ASSUME NEW q \in 1 .. b PROVE all[8 * (n - 1) + q] = bits[8 * (n - 1) + q]
    <3>1. 8 * (n - 1) + q \in 1 .. l
      BY <1>2
    <3> QED BY <1>3, <3>1, Zenon
  <2>4. b + 1 \in 1 .. b + 1 /\ \A q \in 1 .. b : q \in 1 .. b + 1
    OBVIOUS
  <2>5. in \in [1 .. b + 1 -> Bit]
    BY <2>1, Zenon
  <2>6. in[b + 1] = all[l + 1]
    BY <2>2, <2>4, Zenon
  <2>7. \A q \in 1 .. b : in[q] = bits[8 * (n - 1) + q]
    BY <2>3, <2>4, Zenon
  <2> QED BY <1>3, <2>5, <2>6, <2>7, Zenon
<1>10. Entered(filled[n], in, b)
  <2>1. CASE b = 0
    <3>1. filled[n] = 0
      BY <1>5, <2>1
    <3> HIDE DEF in, filled
    <3>2. Entered(0, in, 0)
      BY ZeroBits DEF Entered
    <3> QED BY <2>1, <3>1, <3>2, Zenon
  <2>2. CASE b # 0
    <3>1. n \in 1 .. f /\ filled[n] = first[n] /\ held(n) = b
      BY <1>2, <1>5, <2>2
    <3> HIDE DEF in, filled, held
    <3>2. Entered(filled[n], [q \in 1 .. b |-> bits[8 * (n - 1) + q]], b)
      BY <1>6, <3>1, Zenon
    <3>3. \A q \in 1 .. b : [r \in 1 .. b |-> bits[8 * (n - 1) + r]][q] = in[q]
      BY <1>9, Zenon
    <3>4. b \in 0 .. 8
      OBVIOUS
    <3> QED BY <3>2, <3>3, <3>4, EnteredSame, Zenon
  <2> QED BY <2>1, <2>2
<1>11. Entered(top, in, b + 1)
  <2> HIDE DEF in, filled
  <2>1. Entered(filled[n] \div 2 + 128 * in[b + 1], in, b + 1)
    BY <1>9, <1>10, EnteredNext
  <2>2. filled[n] \in 0 .. 255
    BY <1>10, Zenon DEF Entered
  <2>3. filled[n] \div 2 + 128 * x = 128 * x + filled[n] \div 2
    <3>1. \A z \in 0 .. 255, y \in Bit : z \div 2 + 128 * y = 128 * y + z \div 2
      BY DEF Bit
    <3> QED BY <2>2, <3>1, Zenon
  <2> QED BY <1>9, <2>1, <2>3, Zenon
<1>12. res \in [1 .. n -> 0 .. 255] /\ res[n] = top /\ \A j \in 1 .. n - 1 : res[j] = filled[j]
  <2>1. top \in 0 .. 255
    BY <1>11, Zenon DEF Entered
  <2>2. filled \in [1 .. n -> 0 .. 255]
    <3>1. ASSUME NEW i \in 1 .. n PROVE (IF i <= f THEN first[i] ELSE 0) \in 0 .. 255
      <4>1. CASE i <= f
        <5>1. i \in 1 .. Len(first)
          BY <1>6, <4>1
        <5> QED BY <1>6, <4>1, <5>1, ElementOfSeq, Zenon
      <4>2. CASE ~ (i <= f)
        BY <4>2
      <4> QED BY <4>1, <4>2
    <3> QED BY <3>1, Zenon
  <2> HIDE DEF top, filled
  <2> QED BY <2>1, <2>2
<1> HIDE DEF res, top, filled
<1>13. res \in Seq(0 .. 255) /\ Len(res) = n
  BY <1>12, ListType
<1> DEFINE size(j) == IF j < n THEN 8 ELSE l + 1 - 8 * (n - 1)
<1>14. ASSUME NEW j \in 1 .. n
       PROVE  Entered(res[j], [q \in 1 .. size(j) |-> all[8 * (j - 1) + q]], size(j))
  <2>1. CASE j < n
    <3>1. j \in 1 .. n - 1 /\ size(j) = 8
      BY <2>1
    <3> HIDE DEF size
    <3> QED BY <1>8, <1>12, <3>1, Zenon
  <2>2. CASE ~ (j < n)
    <3>1. j = n
      BY <2>2
    <3>2. size(j) = b + 1
      BY <1>4, <2>2, Zenon
    <3> HIDE DEF size
    <3> QED BY <1>11, <1>12, <3>1, <3>2, Zenon DEF in
  <2> QED BY <2>1, <2>2
<1>15. Packed(res, all)
  <2> DEFINE n1 == (Len(all) + 7) \div 8
  <2> DEFINE size1(j) == IF j < n1 THEN 8 ELSE Len(all) - 8 * (n1 - 1)
  <2>1. n1 = n /\ Len(all) = l + 1
    BY <1>3, <1>4, Zenon
  <2> HIDE DEF n1
  <2>2. ASSUME NEW j \in Nat PROVE size1(j) = size(j)
    <3>1. PICK len \in Nat : len = Len(all) /\ len = l + 1
      BY <2>1
    <3>2. size1(j) = IF j < n THEN 8 ELSE len - 8 * (n - 1)
      BY <2>1, <3>1, Zenon
    <3>3. len - 8 * (n - 1) = l + 1 - 8 * (n - 1)
      BY <3>1
    <3> HIDE DEF size1
    <3> QED BY <3>2, <3>3, Zenon
  <2> HIDE DEF size, size1
  <2>3. /\ res \in Seq(0 .. 255) /\ Len(res) = n1
        /\ \A j \in 1 .. n1 :
             Entered(res[j], [q \in 1 .. size1(j) |-> all[8 * (j - 1) + q]], size1(j))
    <3>1. 1 .. n \subseteq Nat
      OBVIOUS
    <3> QED BY <1>13, <1>14, <2>1, <2>2, <3>1, Zenon
  <2> QED BY <2>3, Zenon DEF Packed, n1, size1
<1> QED BY <1>1, <1>7, <1>15, Zenon DEF all

\* The first message of a shift has room for all it reads.
LEMMA FirstReads ==
    ASSUME NEW c, Shifts(c), c.n > 0, c.tx # <<>> => c.n = Len(c.tx)
    PROVE  /\ FirstShift(c).cmd \in {CmdJtag, CmdJtag + CmdTdiRO}
           /\ FirstShift(c).want >= (Bits(c) - 1 + 7) \div 8
           /\ Bits(c) - 1 = 8 * (c.n - 1) + c.bits
<1>1. c.tx \in Seq(0 .. 255)
  BY ShiftType DEF Shifts
<1>2. PICK n \in Nat \ {0}, b \in 0 .. 7 : n = c.n /\ b = c.bits
  BY ShiftType DEF Shifts
<1>3. Bits(c) = 8 * (n - 1) + b + 1 /\ Bits(c) > 1
  <2>1. (IF c.tx = <<>> THEN c.n ELSE Len(c.tx)) = n
    BY <1>2, Zenon
  <2> QED BY <1>2, <2>1, Zenon DEF Bits, Shifts
<1>4. Bits(c) - 1 = 8 * (n - 1) + b
  BY <1>3
<1> DEFINE m == FirstShift(c)
<1>5. CASE b = 0
  <2>1. PICK k \in Nat \ {0} : k = n - 1
    BY <1>3, <1>5
  <2> DEFINE s == Shorter(c.tx)
  <2>2. m = Message(s, 7, -1, k)
    <3>1. (IF c.n = 0 THEN 0 ELSE c.n - 1) = k
      BY <1>2, <2>1
    <3> QED BY <1>2, <1>5, <3>1, Zenon DEF FirstShift
  <2> DEFINE q == Message(s, 7, -1, k)
  <2>3. ~ (-1 >= 0) /\ -1 < 0 /\ k # 0 /\ k > 0
    OBVIOUS
  <2> HIDE DEF s
  <2>4. q.cmd \in {CmdJtag + 0 + 0 + 0, CmdJtag + 0 + CmdTdiRO + 0} /\ q.want = k
    BY <2>3, Zenon DEF Message
  <2>5. CmdJtag + 0 + 0 + 0 = CmdJtag /\ CmdJtag + 0 + CmdTdiRO + 0 = CmdJtag + CmdTdiRO
    BY DEF CmdJtag, CmdTdiRO
  <2>6. (Bits(c) - 1 + 7) \div 8 = k
    <3>1. Bits(c) - 1 = 8 * k
      BY <1>4, <1>5, <2>1
    <3>2. (8 * k + 7) \div 8 = k
      OBVIOUS
    <3> QED BY <3>1, <3>2, Zenon
  <2>7. k >= k
    OBVIOUS
  <2> HIDE DEF q
  <2>8. m = q
    BY <2>2 DEF q
  <2> HIDE DEF m
  <2>9. m.cmd \in {CmdJtag, CmdJtag + CmdTdiRO} /\ m.want >= (Bits(c) - 1 + 7) \div 8
    BY <2>4, <2>5, <2>6, <2>7, <2>8, Zenon
  <2> QED BY <1>2, <1>4, <2>9, Zenon DEF m
<1>6. CASE b # 0
  <2>1. PICK a \in 0 .. 6 : a = b - 1
    BY <1>6
  <2>2. m = Message(c.tx, a, -1, n)
    BY <1>2, <1>6, <2>1, Zenon DEF FirstShift
  <2> DEFINE q == Message(c.tx, a, -1, n)
  <2>3. ~ (-1 >= 0) /\ a # 7 /\ n > 0
    OBVIOUS
  <2>4. q.cmd = CmdJtag + 0 + 0 + 0 /\ q.want = n
    BY <2>3, Zenon DEF Message
  <2>5. CmdJtag + 0 + 0 + 0 = CmdJtag
    BY DEF CmdJtag
  <2>6. (Bits(c) - 1 + 7) \div 8 = n
    <3>1. (8 * (n - 1) + b + 7) \div 8 = n
      BY <1>6
    <3> QED BY <1>4, <3>1, Zenon
  <2>7. n >= n
    OBVIOUS
  <2> HIDE DEF q
  <2>8. m = q
    BY <2>2 DEF q
  <2> HIDE DEF m
  <2>9. m.cmd \in {CmdJtag, CmdJtag + CmdTdiRO} /\ m.want >= (Bits(c) - 1 + 7) \div 8
    BY <2>4, <2>5, <2>6, <2>7, <2>8, Zenon
  <2> QED BY <1>2, <1>4, <2>9, Zenon DEF m
<1> QED BY <1>5, <1>6

\* Its answer is what came out.
LEMMA FirstAnswer ==
    ASSUME NEW c, Shifts(c), c.n > 0, c.tx # <<>> => c.n = Len(c.tx),
           NEW p \in LivePort, p.source = "jtag", p.tap \in Shifting,
           NEW e \in Performed(p, FirstShift(c)), e.trace \in Seq(ShiftBit)
    PROVE  Tdos(e.trace) \in Seq(Bit) /\ Packed(e.reply, Tdos(e.trace))
<1> DEFINE m == FirstShift(c)
<1>1. m \in Exchanged
  BY ShiftCounts, OkMsgExchanged
<1>2. m.cmd \in {CmdJtag, CmdJtag + CmdTdiRO} /\ m.want >= (Bits(c) - 1 + 7) \div 8
  BY FirstReads
<1>3. Len(PulsesOf(m)) = Bits(c) - 1
  BY FirstPutsIn, Zenon DEF PutsIn
<1>4. e \in Performed(p, m)
  OBVIOUS
<1> HIDE DEF m
<1>5. m.cmd # CmdJtag + CmdTms /\ ~ SetsPins(m) /\ ~ Bangs(m)
  BY <1>2 DEF SetsPins, Bangs, CmdJtag, CmdTms, CmdBB, CmdTdiRO, CmdBBSpi
<1> DEFINE tdo == ShiftOut(p, PulsesOf(m)).tdo
<1>6. tdo \in Seq(Bit) /\ Len(tdo) = Len(PulsesOf(m)) /\ Packed(e.reply, tdo)
  BY <1>1, <1>2, <1>3, <1>4, ShiftReply
<1>7. Len(e.trace) = Len(PulsesOf(m)) /\ \A i \in 1 .. Len(PulsesOf(m)) : e.trace[i].tdo = tdo[i]
  BY <1>1, <1>4, <1>5, ShiftsIn, ShiftsOut
<1> HIDE DEF tdo
<1>8. Tdos(e.trace) = tdo
  <2>1. DOMAIN e.trace = 1 .. Len(tdo)
    BY <1>6, <1>7
  <2>2. Tdos(e.trace) = [i \in 1 .. Len(tdo) |-> tdo[i]]
    BY <1>6, <1>7, <2>1, Zenon DEF Tdos
  <2> QED BY <1>6, <2>2
<1> QED BY <1>6, <1>8

\* The answer to the last message has the bit that came with TMS where it is looked for.
LEMMA LastAnswer ==
    ASSUME NEW c, Shifts(c), NEW p \in LivePort, p.source = "jtag", p.tap \in Shifting,
           NEW e \in Performed(p, SecondShift(c)), e.trace \in Seq(ShiftBit)
    PROVE  /\ Len(e.trace) = 1 /\ e.trace[1].tdo \in Bit
           /\ e.reply \in Seq(0 .. 255) /\ e.reply # <<>>
           /\ LastTdo(e.reply[1]) = e.trace[1].tdo
<1> DEFINE m == SecondShift(c)
<1>1. TmsMessage(m, \h03, 3)
  BY LastPutsIn
<1>2. m.want = 1
  <2>1. ASSUME NEW t \in Bit PROVE Message(<<3>>, 2, t, 1).want = 1
    BY DEF Message
  <2>2. LastTdi(c.tx, c.bits) \in Bit
    BY ShiftType, LastTdiType DEF Shifts
  <2> QED BY <2>1, <2>2, Zenon DEF SecondShift
<1>3. e \in Performed(p, m)
  OBVIOUS
<1> HIDE DEF m
<1>4. m \in Exchanged /\ m.cmd = CmdJtag + CmdTms
  BY <1>1, Zenon DEF TmsMessage
<1>5. Len(PulsesOf(m)) = 3
  BY <1>1, TmsPulses, Zenon DEF TmsMessage, TmsBits
<1> DEFINE tdo == ShiftOut(p, PulsesOf(m)).tdo
<1>6. tdo \in Seq(Bit) /\ Len(tdo) = 3 /\ Hold(e.reply, tdo)
  <2>1. m.want >= (Len(PulsesOf(m)) + 7) \div 8
    BY <1>2, <1>5
  <2> QED BY <1>3, <1>4, <1>5, <2>1, ShiftReply
<1>7. Len(e.trace) = 1 /\ e.trace[1].tdo = tdo[1]
  BY <1>1, <1>3, LastShift
<1> HIDE DEF tdo
<1>8. Len(e.reply) = 1 /\ BitOf(e.reply[1], 5) = tdo[1]
  <2> DEFINE n == (Len(tdo) + 7) \div 8
  <2> DEFINE filled(j) == IF j < n THEN 8 ELSE Len(tdo) - 8 * (n - 1)
  <2>1. /\ Len(e.reply) = n
        /\ \A j \in 1 .. n : \A q \in 1 .. filled(j) :
             BitOf(e.reply[j], 7 - filled(j) + q) = tdo[8 * (j - 1) + q]
    BY <1>6, Zenon DEF Hold
  <2>2. n = 1 /\ filled(1) = 3
    BY <1>6
  <2> HIDE DEF n, filled
  <2>3. 1 \in 1 .. 1 /\ 1 \in 1 .. 3 /\ 7 - 3 + 1 = 5 /\ 8 * (1 - 1) + 1 = 1
    OBVIOUS
  <2>4. \A q \in 1 .. filled(1) : BitOf(e.reply[1], 7 - filled(1) + q) = tdo[8 * (1 - 1) + q]
    <3>1. 1 \in 1 .. n
      BY <2>2
    <3> QED BY <2>1, <3>1, Zenon
  <2>5. \A q \in 1 .. 3 : BitOf(e.reply[1], 7 - 3 + q) = tdo[8 * (1 - 1) + q]
    BY <2>2, <2>4, Zenon
  <2>6. BitOf(e.reply[1], 7 - 3 + 1) = tdo[8 * (1 - 1) + 1]
    BY <2>3, <2>5, Zenon
  <2>7. BitOf(e.reply[1], 5) = tdo[1]
    BY <2>3, <2>6, Zenon
  <2> QED BY <2>1, <2>2, <2>7, Zenon
<1>9. e.reply # <<>> /\ tdo[1] \in Bit
  <2>1. Len(<<>>) = 0
    OBVIOUS
  <2>2. e.reply # <<>>
    BY <1>8, <2>1
  <2>3. 1 \in 1 .. Len(tdo)
    BY <1>6
  <2> QED BY <1>6, <2>2, <2>3, ElementOfSeq, Zenon
<1>10. e.reply \in Seq(0 .. 255)
  BY <1>6, Zenon DEF Hold
<1> QED BY <1>7, <1>8, <1>9, <1>10, Zenon DEF LastTdo

\* Before the first message nothing has been answered, before the second all bits but the
\* last; the call returns all.
Brought(queue, all, tr, res) ==
    /\ Len(queue) = 2 => all = <<>>
    /\ Len(queue) = 1 => \E first : all = <<first>> /\ Packed(first, Tdos(tr))
    /\ Len(queue) = 0 => res = BytesOf(Tdos(tr))

\* A shift that reads, none of whose answers has been cut short.
ReadUnderway == ShiftUnderway /\ whole /\ call.n > 0

Answering ==
    ReadUnderway =>
      /\ call.tx # <<>> => call.n = Len(call.tx)
      /\ Brought(pending, answers, trace, result)

\* A call that reads and writes another number of bytes has been refused.
LEMMA CallAnswering == ASSUME NEW c \in Calls, Call(c) PROVE Answering'
<1> SUFFICES ASSUME ReadUnderway'
             PROVE  /\ c.tx # <<>> => c.n = Len(c.tx)
                    /\ Brought(pending', answers', trace', result')
  BY DEF Answering, Call
<1>1. call' = c /\ answers' = <<>> /\ status' \in {"busy", "ok"} /\ Shifts(c) /\ c.n > 0
  BY DEF Call, ReadUnderway, ShiftUnderway
<1>2. ~ Mismatched(c) /\ pending' = Plan(c)
  BY <1>1 DEF Call
<1>3. c.tx # <<>> => c.n = Len(c.tx)
  BY <1>1, <1>2 DEF Mismatched, Shifts
<1>4. Len(pending') = 2
  <2>1. Plan(c) = <<FirstShift(c), SecondShift(c)>>
    BY <1>1, ShiftCounts
  <2> QED BY <1>2, <2>1
<1>5. Len(pending') # 1 /\ Len(pending') # 0
  BY <1>4
<1> QED BY <1>1, <1>3, <1>5, Zenon DEF Brought

\* What comes out joins what came out before.
LEMMA TdosBehind ==
    ASSUME NEW tr \in Seq(ShiftBit), NEW more \in Seq(ShiftBit), Len(more) = 1
    PROVE  Tdos(tr) \in Seq(Bit) /\ Len(Tdos(tr)) = Len(tr)
           /\ Tdos(tr \o more) = Append(Tdos(tr), more[1].tdo)
<1>1. PICK n \in Nat : n = Len(tr) /\ DOMAIN tr = 1 .. n
  OBVIOUS
<1>2. ASSUME NEW s \in Seq(ShiftBit), NEW i \in 1 .. Len(s) PROVE s[i].tdo \in Bit
  <2>1. s[i] \in ShiftBit
    BY ElementOfSeq
  <2> QED BY <2>1 DEF ShiftBit
<1>3. Tdos(tr) \in [1 .. n -> Bit]
  BY <1>1, <1>2, Zenon DEF Tdos
<1>4. Tdos(tr) \in Seq(Bit) /\ Len(Tdos(tr)) = n
  BY <1>3, ListType
<1>5. /\ tr \o more \in Seq(ShiftBit) /\ Len(tr \o more) = n + 1
      /\ \A i \in 1 .. n + 1 : (tr \o more)[i] = IF i <= n THEN tr[i] ELSE more[i - n]
  <2>1. tr \o more \in Seq(ShiftBit)
    BY ConcatProperties
  <2>2. /\ Len(tr \o more) = Len(tr) + Len(more)
        /\ \A i \in 1 .. Len(tr) + Len(more) :
             (tr \o more)[i] = IF i <= Len(tr) THEN tr[i] ELSE more[i - Len(tr)]
    BY ConcatProperties
  <2> QED BY <1>1, <2>1, <2>2, Zenon
<1>6. DOMAIN (tr \o more) = 1 .. n + 1
  BY <1>5
<1> DEFINE x == more[1].tdo
<1>7. x \in Bit
  <2>1. 1 \in 1 .. Len(more)
    OBVIOUS
  <2> QED BY <1>2, <2>1, Zenon
<1> DEFINE a == Append(Tdos(tr), x)
<1>8. a \in Seq(Bit) /\ Len(a) = n + 1 /\ a[n + 1] = x /\ \A i \in 1 .. n : a[i] = Tdos(tr)[i]
  <2> HIDE DEF x
  <2> QED BY <1>4, <1>7
<1> HIDE DEF a
<1>9. ASSUME NEW i \in 1 .. n + 1 PROVE (tr \o more)[i].tdo = a[i]
  <2>1. CASE i <= n
    <3>1. i \in 1 .. n /\ (tr \o more)[i] = tr[i]
      BY <1>5, <2>1
    <3>2. Tdos(tr)[i] = tr[i].tdo
      BY <1>1, <3>1, Zenon DEF Tdos
    <3> QED BY <1>8, <3>1, <3>2, Zenon
  <2>2. CASE ~ (i <= n)
    <3>1. i = n + 1 /\ i - n = 1
      BY <2>2
    <3>2. (tr \o more)[i] = more[1]
      BY <1>5, <2>2, <3>1, Zenon
    <3> QED BY <1>8, <3>1, <3>2, Zenon
  <2> QED BY <2>1, <2>2
<1>10. Tdos(tr \o more) = [i \in 1 .. n + 1 |-> a[i]]
  BY <1>6, <1>9, Zenon DEF Tdos
<1>11. [i \in 1 .. n + 1 |-> a[i]] = a
  BY <1>8
<1> QED BY <1>1, <1>4, <1>10, <1>11, Zenon DEF a

\* The first answer is what came out, the last one brings the bit that is put behind it.
LEMMA ExchangeAnswering ==
    ASSUME Sound, Underway, Entering, Answering, Exchange
    PROVE  Answering'
<1> SUFFICES ASSUME ReadUnderway'
             PROVE  /\ call'.tx # <<>> => call'.n = Len(call'.tx)
                    /\ Brought(pending', answers', trace', result')
  BY DEF Answering
<1>1. /\ ShiftUnderway /\ Shifts(call) /\ call' = call /\ call.n > 0
      /\ port \in LivePort /\ port.source = "jtag" /\ port.tap \in Shifting
      /\ trace \in Seq(ShiftBit)
  BY ShiftExchange DEF ReadUnderway, ShiftUnderway, Sound
<1>2. PICK e : \E reply : ShiftStep(e, reply)
  BY ShiftExchange, Zenon DEF ReadUnderway
<1>3. PICK reply : ShiftStep(e, reply)
  BY <1>2
<1>4. /\ e \in Performed(port, Head(pending)) /\ Goes(e, reply) /\ e.trace \in Seq(ShiftBit)
      /\ trace' = trace \o e.trace
      /\ Len(pending) \in {1, 2} /\ Len(pending') = Len(pending) - 1
      /\ Head(pending) = IF Len(pending) = 2 THEN FirstShift(call) ELSE SecondShift(call)
  BY <1>3, Zenon DEF ShiftStep
<1>5. whole /\ reply = e.reply /\ answers' = Append(answers, reply)
  BY <1>4 DEF Goes, ReadUnderway
<1>6. (call.tx # <<>> => call.n = Len(call.tx)) /\ Brought(pending, answers, trace, result)
  BY <1>1, <1>5 DEF Answering, ReadUnderway
<1>7. CASE Len(pending) = 2
  <2>1. answers' = <<e.reply>>
    <3>1. answers = <<>>
      BY <1>6, <1>7 DEF Brought
    <3> QED BY <1>5, <3>1
  <2>2. Packed(e.reply, Tdos(e.trace))
    <3>1. e \in Performed(port, FirstShift(call))
      BY <1>4, <1>7, Zenon
    <3> QED BY <1>1, <1>4, <1>6, <3>1, FirstAnswer
  <2>3. trace' = e.trace
    <3>1. PutIn(call, trace, 0)
      BY <1>1, <1>7 DEF Entering, Progress
    <3>2. trace = <<>>
      BY <1>1, <3>1 DEF PutIn
    <3> QED BY <1>4, <3>2
  <2>4. Len(pending') # 2 /\ Len(pending') # 0
    BY <1>4, <1>7
  <2>5. Brought(pending', answers', trace', result')
    BY <2>1, <2>2, <2>3, <2>4, Zenon DEF Brought
  <2> QED BY <1>1, <1>6, <2>5, Zenon
<1>8. CASE Len(pending) = 1
  <2>1. PICK first : answers = <<first>> /\ Packed(first, Tdos(trace))
    BY <1>6, <1>8, Zenon DEF Brought
  <2>2. /\ Len(e.trace) = 1 /\ e.trace[1].tdo \in Bit
        /\ e.reply \in Seq(0 .. 255) /\ e.reply # <<>>
        /\ LastTdo(e.reply[1]) = e.trace[1].tdo
    <3>1. e \in Performed(port, SecondShift(call))
      BY <1>4, <1>8
    <3> QED BY <1>1, <1>4, <3>1, LastAnswer
  <2>3. Tdos(trace) \in Seq(Bit) /\ Len(Tdos(trace)) = Len(trace)
        /\ Tdos(trace') = Append(Tdos(trace), e.trace[1].tdo)
    BY <1>1, <1>4, <2>2, TdosBehind, Zenon
  <2>4. PICK n \in Nat \ {0}, b \in 0 .. 7 :
          n = call.n /\ b = call.bits /\ Bits(call) - 1 = 8 * (n - 1) + b
    <3>1. call.n \in Nat \ {0} /\ call.bits \in 0 .. 7
      BY <1>1, ShiftType DEF Shifts
    <3>2. Bits(call) - 1 = 8 * (call.n - 1) + call.bits
      BY <1>1, <1>6, FirstReads
    <3> QED BY <3>1, <3>2
  <2>5. Len(Tdos(trace)) = 8 * (n - 1) + b
    <3>1. PutIn(call, trace, Bits(call) - 1)
      BY <1>1, <1>8 DEF Entering, Progress
    <3>2. Len(trace) = Bits(call) - 1
      BY <3>1, Zenon DEF PutIn
    <3> QED BY <2>3, <2>4, <3>2, Zenon
  <2> DEFINE last == e.reply[1]
  <2>6. Packed(Shifted(n, first, last), Tdos(trace'))
    <3>1. LastTdo(last) \in Bit /\ Tdos(trace') = Append(Tdos(trace), LastTdo(last))
      BY <2>2, <2>3, Zenon
    <3> HIDE DEF last
    <3>2. Packed(Shifted(n, first, last), Append(Tdos(trace), LastTdo(last)))
      BY <2>1, <2>3, <2>5, <3>1, ShiftedPacked
    <3> QED BY <3>1, <3>2, Zenon
  <2>7. Tdos(trace') \in Seq(Bit)
    BY <2>2, <2>3
  <2>8. Shifted(n, first, last) = BytesOf(Tdos(trace'))
    BY <2>6, <2>7, BytesPacked, PackedOnce, Zenon
  <2>9. result' = Shifted(n, first, last)
    <3> DEFINE all == Append(answers, reply)
    <3>1. result' = Returned(call, all)
      <4>1. ~ (Len(pending) > 1)
        BY <1>8
      <4>2. ~ (call.op = "getIDs" /\ call.n = 0)
        BY <1>1 DEF Shifts
      <4> QED BY <1>4, <4>1, <4>2, Zenon DEF Goes
    <3>2. first \in Seq(0 .. 255)
      BY <2>1, Zenon DEF Packed
    <3>3. all # <<>> /\ all[1] = first /\ all[2] = e.reply
      <4>1. \A x, y \in Seq(0 .. 255) :
              Append(<<x>>, y) # <<>> /\ Append(<<x>>, y)[1] = x /\ Append(<<x>>, y)[2] = y
        OBVIOUS
      <4>2. all = Append(<<first>>, e.reply)
        BY <1>5, <2>1, Zenon
      <4> HIDE DEF all
      <4> QED BY <2>2, <3>2, <4>1, <4>2, ZenonT(60)
    <3>4. call.n > 1 \/ call.bits > 0
      <4>1. Bits(call) > 1 /\ Bits(call) \in Nat
        BY <1>1, ShiftCounts
      <4>2. CASE n = 1
        <5>1. Bits(call) - 1 = b
          BY <2>4, <4>2
        <5> QED BY <2>4, <4>1, <5>1
      <4>3. CASE n # 1
        BY <2>4, <4>3
      <4> QED BY <4>2, <4>3
    <3> HIDE DEF all
    <3>5. Returned(call, all) = Shifted(call.n, all[1], all[2][1])
      <4>1. call.op = "shiftToRunTestIdle"
        BY <1>1 DEF Shifts
      <4> QED BY <2>2, <3>3, <3>4, <4>1 DEF Returned
    <3> QED BY <2>4, <3>1, <3>3, <3>5, Zenon
  <2>10. Len(pending') # 2 /\ Len(pending') # 1
    BY <1>4, <1>8
  <2>11. Brought(pending', answers', trace', result')
    BY <2>8, <2>9, <2>10, Zenon DEF Brought
  <2> QED BY <1>1, <1>6, <2>11, Zenon
<1> QED BY <1>4, <1>7, <1>8

\* Each answer of a shift brings the bits that are its own.
LEMMA NextAnswering == Sound /\ Underway /\ Entering /\ Answering /\ [Next]_vars => Answering'
<1> SUFFICES ASSUME Sound, Underway, Entering, Answering, [Next]_vars PROVE Answering'
  OBVIOUS
<1>1. CASE \E c \in Calls : Call(c)
  BY <1>1, CallAnswering
<1>2. CASE Exchange
  BY <1>2, ExchangeAnswering
<1>3. CASE Fail
  <2>1. status' = "error"
    BY <1>3 DEF Fail
  <2> QED BY <2>1 DEF Answering, ReadUnderway, ShiftUnderway
<1>4. CASE \E scratch \in 0 .. 3 : SelectPins(scratch)
  <2>1. status' = "idle"
    BY <1>4 DEF SelectPins
  <2> QED BY <2>1 DEF Answering, ReadUnderway, ShiftUnderway
<1>5. CASE UNCHANGED vars
  BY <1>5 DEF vars, Answering, ReadUnderway, ShiftUnderway
<1> QED BY <1>1, <1>2, <1>3, <1>4, <1>5 DEF Next

\* When the last message is answered every bit is in the buffer.
LEMMA AnsweringReads == Sound /\ Underway /\ Answering => ReadsBack
<1> SUFFICES ASSUME Sound, Underway, Answering, ProperShift, call.n > 0, whole
             PROVE  result = BytesOf(Tdos(trace))
  BY DEF ReadsBack, Tdos
<1>1. Shifts(call) /\ start.tap \in Shifting
  BY ProperShifts
<1>2. status = "ok" /\ start.source = "jtag" /\ pending = <<>>
  BY DEF ProperShift, Returns, Sound
<1>3. Brought(pending, answers, trace, result)
  BY <1>1, <1>2 DEF Answering, ReadUnderway, ShiftUnderway
<1>4. Len(pending) = 0
  BY <1>2
<1> QED BY <1>3, <1>4, Zenon DEF Brought

\* What shiftToRunTestIdle returns is what came out of the register, the bit that came with
\* TMS in its place behind the others, for every length, whatever was called before or
\* failed, if the answers of the call itself were not short (FTEmul.cpp,
\* shiftToRunTestIdle).
THEOREM EveryBitComesBack == Spec => []ReadsBack
<1>1. Init => Sound /\ Underway /\ Entering /\ Answering
  BY InitSound, InitUnderway DEF Init, Entering, Answering, ReadUnderway, ShiftUnderway
<1>2. Sound /\ Underway /\ Entering /\ Answering /\ [Next]_vars
        => (Sound /\ Underway /\ Entering /\ Answering)'
  BY NextSound, NextUnderway, NextEntering, NextAnswering
<1>3. Sound /\ Underway /\ Answering => ReadsBack
  BY AnsweringReads
<1> QED BY <1>1, <1>2, <1>3, PTL DEF Spec

-----------------------------------------------------------------------------
(* Bit-banging. *)

\* The byte goes out with the clock low, then with the clock high and the same TMS and TDI.
LEMMA ClockedBits ==
    ASSUME NEW b \in 0 .. 255
    PROVE  \E low \in 0 .. 255, high \in 0 .. 255 :
             /\ Clocked(b) = <<low, high>>
             /\ BitOf(low, 3) = 0 /\ BitOf(high, 3) = 1
             /\ BitOf(high, 0) = BitOf(b, 0) /\ BitOf(high, 1) = BitOf(b, 1)
<1>1. PICK q \in 0 .. 15, c \in 0 .. 1, r \in 0 .. 7 : b = 16 * q + 8 * c + r
  <2>1. PICK h \in 0 .. 31 : h = b \div 8 /\ 8 * h <= b /\ b < 8 * h + 8
    OBVIOUS
  <2>2. PICK q \in 0 .. 15 : q = h \div 2 /\ 2 * q <= h /\ h < 2 * q + 2
    OBVIOUS
  <2>3. PICK r \in 0 .. 7, c \in 0 .. 1 : r = b - 8 * h /\ c = h - 2 * q
    BY <2>1, <2>2
  <2>4. b = 16 * q + 8 * c + r
    BY <2>1, <2>2, <2>3
  <2> QED BY <2>4
<1> DEFINE low == 16 * q + r
<1> DEFINE high == 16 * q + r + 8
<1>2. BitOf(b, 3) = c
  <2>1. b \div 8 = 2 * q + c
    BY <1>1
  <2>2. (2 * q + c) % 2 = c
    OBVIOUS
  <2> QED BY <2>1, <2>2, Powers DEF BitOf
<1>3. Clocked(b) = <<low, high>>
  <2>1. b - 8 * BitOf(b, 3) = low
    BY <1>1, <1>2
  <2> QED BY <2>1 DEF Clocked
<1>4. low \in 0 .. 255 /\ high \in 0 .. 255
  OBVIOUS
<1>5. BitOf(low, 3) = 0
  <2>1. low \div 8 = 2 * q /\ (2 * q) % 2 = 0
    OBVIOUS
  <2> QED BY <2>1, Powers DEF BitOf
<1>6. BitOf(high, 3) = 1
  <2>1. high \div 8 = 2 * q + 1 /\ (2 * q + 1) % 2 = 1
    OBVIOUS
  <2> QED BY <2>1, Powers DEF BitOf
<1>7. BitOf(high, 0) = BitOf(b, 0)
  <2>1. (high \div 1) % 2 = r % 2 /\ (b \div 1) % 2 = r % 2
    BY <1>1
  <2> QED BY <2>1, Powers DEF BitOf
<1>8. BitOf(high, 1) = BitOf(b, 1)
  <2>1. high \div 2 = 8 * q + 4 + r \div 2 /\ b \div 2 = 8 * q + 4 * c + r \div 2
    BY <1>1
  <2>2. (8 * q + 4 + r \div 2) % 2 = (r \div 2) % 2 /\ (8 * q + 4 * c + r \div 2) % 2 = (r \div 2) % 2
    OBVIOUS
  <2> QED BY <2>1, <2>2, Powers DEF BitOf
<1> HIDE DEF low, high
<1> QED BY <1>3, <1>4, <1>5, <1>6, <1>7, <1>8, Zenon

\* TDO is bit 2 of what comes in.
LEMMA BangInTdo ==
    ASSUME NEW p \in LivePort, NEW b \in 0 .. 255
    PROVE  BitOf(BangIn(p, b), 2) = TdoOf(p)
<1>1. PICK t \in 0 .. 1 : t = TdoOf(p)
  BY TdoType DEF Bit
<1>2. PICK q \in 0 .. 31, c \in 0 .. 1, r \in 0 .. 3 : b = 8 * q + 4 * c + r
  <2>1. PICK h \in 0 .. 63 : h = b \div 4 /\ 4 * h <= b /\ b < 4 * h + 4
    OBVIOUS
  <2>2. PICK q \in 0 .. 31 : q = h \div 2 /\ 2 * q <= h /\ h < 2 * q + 2
    OBVIOUS
  <2>3. PICK r \in 0 .. 3, c \in 0 .. 1 : r = b - 4 * h /\ c = h - 2 * q
    BY <2>1, <2>2
  <2>4. b = 8 * q + 4 * c + r
    BY <2>1, <2>2, <2>3
  <2> QED BY <2>4
<1>3. BitOf(b, 2) = c
  <2>1. b \div 4 = 2 * q + c /\ (2 * q + c) % 2 = c
    BY <1>2
  <2> QED BY <2>1, Powers DEF BitOf
<1>4. PICK x \in 0 .. 255 : x = BangIn(p, b) /\ x = 8 * q + 4 * t + r
  <2>1. BangIn(p, b) = b - 4 * c + 4 * t
    BY <1>1, <1>3 DEF BangIn
  <2>2. b - 4 * c + 4 * t = 8 * q + 4 * t + r /\ 8 * q + 4 * t + r \in 0 .. 255
    BY <1>2
  <2> QED BY <2>1, <2>2
<1>5. x \div 4 = 2 * q + t /\ (2 * q + t) % 2 = t
  BY <1>4
<1>6. BitOf(x, 2) = t
  BY <1>5, Powers DEF BitOf
<1> QED BY <1>1, <1>4, <1>6, Zenon

\* The chain behind two ports is in the same state.
Alike(p, q) == p.tap = q.tap /\ p.reg = q.reg /\ p.instr = q.instr

\* A pulse keeps them alike.
LEMMA ClockAlike ==
    ASSUME NEW p \in LivePort, NEW q \in LivePort, Alike(p, q), NEW tms \in Bit, NEW tdi \in Bit
    PROVE  /\ Alike(Clock(p, tms, tdi), Clock(q, tms, tdi))
           /\ TdoOf(p) = TdoOf(q) /\ ShiftedBit(p, tdi) = ShiftedBit(q, tdi)
<1>1. p.tap = q.tap /\ p.reg = q.reg /\ p.instr = q.instr
  BY DEF Alike
<1>2. TdoOf(p) = TdoOf(q)
  BY <1>1, Zenon DEF TdoOf
<1>3. ShiftedBit(p, tdi) = ShiftedBit(q, tdi)
  BY <1>1, <1>2, Zenon DEF ShiftedBit
<1> DEFINE next == TapPaths[p.tap][tms + 1]
<1> DEFINE reg == IF p.tap = "CaptureDR" THEN CapturedDR(p.instr)
                  ELSE IF p.tap = "CaptureIR" THEN CapturedIR
                  ELSE IF p.tap \in Shifting THEN Append(Tail(p.reg), tdi) ELSE p.reg
<1> DEFINE instr == IF next = "TestLogicReset" THEN [d \in Devices |-> "IDCODE"]
                    ELSE IF next = "UpdateIR" THEN Decoded(p.reg) ELSE p.instr
<1>4. /\ Clock(p, tms, tdi) = [p EXCEPT !.tap = next, !.reg = reg, !.instr = instr]
      /\ Clock(q, tms, tdi) = [q EXCEPT !.tap = next, !.reg = reg, !.instr = instr]
  BY <1>1 DEF Clock
<1> HIDE DEF next, reg, instr
<1>5. \A x \in Port : LET y == [x EXCEPT !.tap = next, !.reg = reg, !.instr = instr]
                      IN y.tap = next /\ y.reg = reg /\ y.instr = instr
  BY DEF Port
<1>6. p \in Port /\ q \in Port
  BY DEF LivePort
<1> QED BY <1>2, <1>3, <1>4, <1>5, <1>6 DEF Alike

\* The pins of bbo say what drives the port.
LEMMA BangPinsType ==
    ASSUME NEW p \in LivePort, p.source = "bb", NEW b \in 0 .. 255
    PROVE  /\ BangPins(p, b) \in LivePort /\ BangPins(p, b).source = "bb"
           /\ Alike(BangPins(p, b), p)
           /\ Driven(BangPins(p, b)) = [tck |-> BitOf(b, 3), tms |-> BitOf(b, 0), tdi |-> BitOf(b, 1)]
           /\ BitOf(b, 0) \in Bit /\ BitOf(b, 1) \in Bit
<1> DEFINE l == [tck |-> BitOf(b, 3), tms |-> BitOf(b, 0), tdi |-> BitOf(b, 1)]
<1>1. BitOf(b, 0) \in Bit /\ BitOf(b, 1) \in Bit /\ BitOf(b, 3) \in Bit
  <2>1. b \in Nat
    BY ByteNumber
  <2> QED BY <2>1, BitOfType
<1>2. l \in Lines
  BY <1>1 DEF Lines
<1> DEFINE new == [p.lines EXCEPT !["bb"] = l]
<1>3. BangPins(p, b) = [p EXCEPT !.lines = new]
  BY Zenon DEF BangPins
<1>4. new \in [Sources -> Lines] /\ new["bb"] = l
  <2>1. p.lines \in [Sources -> Lines] /\ "bb" \in Sources
    BY DEF LivePort, Port, Sources
  <2> HIDE DEF l
  <2> QED BY <1>2, <2>1
<1> HIDE DEF l, new
<1> DEFINE q == [p EXCEPT !.lines = new]
<1>5. q \in LivePort /\ q.source = "bb" /\ q.lines = new /\ Alike(q, p)
  BY <1>4 DEF LivePort, Port, Alike
<1>6. Driven(q) = l
  BY <1>4, <1>5 DEF Driven
<1> QED BY <1>1, <1>3, <1>5, <1>6, Zenon DEF l

\* An element more.
LEMMA OneMore ==
    ASSUME NEW S
    PROVE  \A s \in Seq(S), x \in S, n \in Nat :
             Len(s) = n => /\ Append(s, x) \in Seq(S) /\ Len(Append(s, x)) = n + 1
                           /\ Append(s, x)[n + 1] = x
                           /\ \A j \in 1 .. n : Append(s, x)[j] = s[j]
BY AppendProperties

\* A run of bytes, two for each of i pulses, and a run of the pulses that did the same.
Same(bang, run, i) ==
    /\ Alike(bang.port, run.port) /\ bang.trace = run.trace
    /\ Len(bang.tdo) = 2 * i /\ Len(run.tdo) = i
    /\ \A k \in 1 .. i : BitOf(bang.tdo[2 * k], 2) = run.tdo[k]

\* Low and high are one pulse more.
LEMMA ByteIsPulse ==
    ASSUME NEW bang \in BangType, bang.port.source = "bb", NEW run \in RunType,
           NEW i \in Nat, Same(bang, run, i),
           NEW tms \in Bit, NEW tdi \in Bit, NEW low \in 0 .. 255, NEW high \in 0 .. 255,
           BitOf(low, 3) = 0, BitOf(high, 3) = 1, BitOf(high, 0) = tms, BitOf(high, 1) = tdi
    PROVE  Same(BangStep(BangStep(bang, low), high), Pulse(run, [tms |-> tms, tdi |-> tdi]), i + 1)
<1>1. /\ bang.port \in LivePort /\ bang.tdo \in Seq(0 .. 255) /\ bang.trace \in Seq(ShiftBit)
      /\ run.port \in LivePort /\ run.tdo \in Seq(Bit)
      /\ Alike(bang.port, run.port) /\ bang.trace = run.trace
  BY DEF BangType, RunType, Same
<1> DEFINE p == BangPins(bang.port, low)
<1>2. /\ p \in LivePort /\ p.source = "bb" /\ Alike(p, bang.port)
      /\ Driven(p) = [tck |-> 0, tms |-> BitOf(low, 0), tdi |-> BitOf(low, 1)]
  BY <1>1, BangPinsType, ZenonT(60)
<1> DEFINE mid == BangStep(bang, low)
<1>3. /\ mid.port = p /\ mid.tdo = Append(bang.tdo, BangIn(bang.port, low))
      /\ mid.trace = bang.trace
  <2> HIDE DEF p
  <2>1. Driven(p).tck # 1
    BY <1>2
  <2>2. ~ Rises(bang.port, p)
    BY <2>1 DEF Rises
  <2>3. Drive(bang.port, p) = p
    BY <2>2 DEF Drive
  <2>4. bang.trace \o <<>> = bang.trace
    BY <1>1
  <2>5. mid = [port |-> p, tdo |-> Append(bang.tdo, BangIn(bang.port, low)), trace |-> bang.trace]
    BY <2>2, <2>3, <2>4 DEF BangStep, p
  <2> HIDE DEF mid
  <2> QED BY <2>5
<1> HIDE DEF mid
<1> DEFINE q == BangPins(mid.port, high)
<1>4. /\ q \in LivePort /\ q.source = "bb" /\ Alike(q, mid.port)
      /\ Driven(q) = [tck |-> 1, tms |-> tms, tdi |-> tdi]
  <2>1. mid.port \in LivePort /\ mid.port.source = "bb"
    BY <1>2, <1>3, Zenon
  <2> QED BY <2>1, BangPinsType, ZenonT(90)
<1>5. Alike(mid.port, run.port) /\ Alike(q, run.port) /\ mid.port \in LivePort
  BY <1>1, <1>2, <1>3, <1>4 DEF Alike
<1> DEFINE end == BangStep(mid, high)
<1>6. /\ end.port = Clock(q, tms, tdi) /\ end.tdo = Append(mid.tdo, BangIn(mid.port, high))
      /\ end.trace = bang.trace \o ShiftedBit(mid.port, tdi)
  <2> HIDE DEF q
  <2>1. Driven(q).tck = 1 /\ Driven(q).tms = tms /\ Driven(q).tdi = tdi
    BY <1>4
  <2>2. Driven(mid.port).tck = 0
    BY <1>2, <1>3
  <2>3. Rises(mid.port, q)
    BY <2>1, <2>2, Zenon DEF Rises
  <2>4. Drive(mid.port, q) = Clock(q, tms, tdi)
    BY <2>1, <2>3, Zenon DEF Drive
  <2>5. end = [port |-> Clock(q, tms, tdi), tdo |-> Append(mid.tdo, BangIn(mid.port, high)),
               trace |-> bang.trace \o ShiftedBit(mid.port, tdi)]
    BY <1>3, <2>3, <2>4, Zenon DEF BangStep, q
  <2> HIDE DEF end
  <2> QED BY <2>5
<1> DEFINE bit == [tms |-> tms, tdi |-> tdi]
<1> DEFINE next == Pulse(run, bit)
<1>7. /\ next.port = Clock(run.port, tms, tdi) /\ next.tdo = Append(run.tdo, TdoOf(run.port))
      /\ next.trace = run.trace \o ShiftedBit(run.port, tdi)
  <2>1. bit \in PulseBit /\ bit.tms = tms /\ bit.tdi = tdi
    BY DEF PulseBit
  <2> HIDE DEF bit
  <2> QED BY <2>1, PulseType
<1> HIDE DEF p, q, end, next
<1>8. Alike(end.port, next.port)
  BY <1>1, <1>4, <1>5, <1>6, <1>7, ClockAlike
<1>9. TdoOf(mid.port) = TdoOf(run.port) /\ ShiftedBit(mid.port, tdi) = ShiftedBit(run.port, tdi)
  BY <1>1, <1>5, ClockAlike
<1>10. end.trace = next.trace
  BY <1>1, <1>6, <1>7, <1>9, Zenon
<1>11. PICK x \in 0 .. 255, y \in 0 .. 255, t \in Bit :
         /\ x = BangIn(bang.port, low) /\ y = BangIn(mid.port, high) /\ t = TdoOf(run.port)
         /\ BitOf(y, 2) = t
  <2>1. BangIn(bang.port, low) \in 0 .. 255 /\ BangIn(mid.port, high) \in 0 .. 255
    BY <1>1, <1>5, BangInType, ZenonT(60)
  <2>2. TdoOf(run.port) \in Bit
    BY <1>1, TdoType
  <2>3. BitOf(BangIn(mid.port, high), 2) = TdoOf(mid.port)
    BY <1>5, BangInTdo
  <2> QED BY <1>9, <2>1, <2>2, <2>3, ZenonT(60)
<1>12. /\ Len(bang.tdo) = 2 * i /\ Len(run.tdo) = i
       /\ \A k \in 1 .. i : BitOf(bang.tdo[2 * k], 2) = run.tdo[k]
  BY DEF Same
<1>13. /\ Len(end.tdo) = 2 * i + 2 /\ end.tdo[2 * i + 2] = y
       /\ \A j \in 1 .. 2 * i : end.tdo[j] = bang.tdo[j]
  <2>1. PICK m \in Nat : m = 2 * i
    OBVIOUS
  <2>2. mid.tdo = Append(bang.tdo, x) /\ end.tdo = Append(mid.tdo, y) /\ Len(bang.tdo) = m
    BY <1>3, <1>6, <1>11, <1>12, <2>1, Zenon
  <2>3. /\ mid.tdo \in Seq(0 .. 255) /\ Len(mid.tdo) = m + 1
        /\ \A j \in 1 .. m : mid.tdo[j] = bang.tdo[j]
    BY <1>1, <2>2, OneMore, SMTT(60)
  <2>4. PICK k \in Nat : k = m + 1 /\ k + 1 = 2 * i + 2
    BY <2>1
  <2>5. /\ Len(end.tdo) = k + 1 /\ end.tdo[k + 1] = y
        /\ \A j \in 1 .. k : end.tdo[j] = mid.tdo[j]
    BY <2>2, <2>3, <2>4, OneMore, SMTT(60)
  <2>6. \A j \in 1 .. m : j \in 1 .. k
    BY <2>4
  <2> QED BY <2>1, <2>3, <2>4, <2>5, <2>6, Zenon
<1>14. Len(next.tdo) = i + 1 /\ next.tdo[i + 1] = t /\ \A k \in 1 .. i : next.tdo[k] = run.tdo[k]
  <2>1. next.tdo = Append(run.tdo, t)
    BY <1>7, <1>11, Zenon
  <2> QED BY <1>1, <1>12, <2>1, OneMore, SMTT(60)
<1>15. ASSUME NEW k \in 1 .. i + 1 PROVE BitOf(end.tdo[2 * k], 2) = next.tdo[k]
  <2>1. CASE k = i + 1
    <3>1. 2 * k = 2 * i + 2
      BY <2>1
    <3> QED BY <1>11, <1>13, <1>14, <2>1, <3>1, Zenon
  <2>2. CASE k # i + 1
    <3>1. k \in 1 .. i /\ 2 * k \in 1 .. 2 * i
      BY <2>2
    <3> QED BY <1>12, <1>13, <1>14, <3>1, Zenon
  <2> QED BY <2>1, <2>2
<1>16. Len(end.tdo) = 2 * (i + 1)
  BY <1>13
<1>17. Same(end, next, i + 1)
  BY <1>8, <1>10, <1>14, <1>15, <1>16, Zenon DEF Same
<1> QED BY <1>17 DEF end, mid, next

\* The bytes that go out for tbuf, the pulses they stand for.
BytesFor(tx) == FlattenSeq([i \in DOMAIN tx |-> Clocked(tx[i])])
PulsesFor(tx) == [i \in DOMAIN tx |-> [tms |-> BitOf(tx[i], 0), tdi |-> BitOf(tx[i], 1)]]

\* Two bytes for each.
LEMMA BytesForType ==
    ASSUME NEW tx \in Seq(0 .. 255), NEW n \in Nat, n = Len(tx)
    PROVE  /\ BytesFor(tx) \in Seq(0 .. 255) /\ Len(BytesFor(tx)) = 2 * n
           /\ \A i \in 1 .. n : /\ BytesFor(tx)[2 * i - 1] = Clocked(tx[i])[1]
                                /\ BytesFor(tx)[2 * i] = Clocked(tx[i])[2]
<1> DEFINE q == [i \in 1 .. n |-> Clocked(tx[i])]
<1>1. BytesFor(tx) = FlattenSeq(q)
  <2>1. DOMAIN tx = 1 .. n
    OBVIOUS
  <2> QED BY <2>1, Zenon DEF BytesFor
<1>2. ASSUME NEW i \in 1 .. n
      PROVE  Clocked(tx[i]) \in Seq(0 .. 255) /\ Len(Clocked(tx[i])) = 2
  <2>1. tx[i] \in 0 .. 255
    BY ElementOfSeq
  <2>2. PICK b \in 0 .. 255 : b = tx[i]
    BY <2>1
  <2>3. PICK low \in 0 .. 255, high \in 0 .. 255 : Clocked(b) = <<low, high>>
    BY ClockedBits, ZenonT(60)
  <2>4. <<low, high>> \in Seq(0 .. 255) /\ Len(<<low, high>>) = 2
    OBVIOUS
  <2> QED BY <2>2, <2>3, <2>4, Zenon
<1>3. q \in Seq(Seq(0 .. 255)) /\ Len(q) = n /\ \A i \in 1 .. n : q[i] = Clocked(tx[i])
  BY <1>2
<1> HIDE DEF q
<1>4. \A i \in 1 .. n : Len(q[i]) = 2
  BY <1>2, <1>3, Zenon
<1>5. /\ FlattenSeq(q) \in Seq(0 .. 255) /\ Len(FlattenSeq(q)) = 2 * n
      /\ \A i \in 1 .. n : FlattenSeq(q)[2 * i - 1] = q[i][1] /\ FlattenSeq(q)[2 * i] = q[i][2]
  BY <1>3, <1>4, FlattenPairs, ZenonT(60)
<1> QED BY <1>1, <1>3, <1>5, Zenon

\* A pulse for each.
LEMMA PulsesForType ==
    ASSUME NEW tx \in Seq(0 .. 255), NEW n \in Nat, n = Len(tx)
    PROVE  /\ PulsesFor(tx) \in Seq(PulseBit) /\ Len(PulsesFor(tx)) = n
           /\ \A i \in 1 .. n : /\ BitOf(tx[i], 0) \in Bit /\ BitOf(tx[i], 1) \in Bit
                                /\ PulsesFor(tx)[i] = [tms |-> BitOf(tx[i], 0), tdi |-> BitOf(tx[i], 1)]
<1>1. ASSUME NEW i \in 1 .. n PROVE BitOf(tx[i], 0) \in Bit /\ BitOf(tx[i], 1) \in Bit
  <2>1. tx[i] \in 0 .. 255
    BY ElementOfSeq
  <2>2. tx[i] \in Nat
    BY <2>1, ByteNumber, Zenon
  <2> QED BY <2>2, BitOfType
<1> DEFINE bit(i) == [tms |-> BitOf(tx[i], 0), tdi |-> BitOf(tx[i], 1)]
<1>2. \A i \in 1 .. n : bit(i) \in PulseBit
  BY <1>1 DEF PulseBit
<1>3. PulsesFor(tx) = [i \in 1 .. n |-> bit(i)]
  <2>1. DOMAIN tx = 1 .. n
    OBVIOUS
  <2> QED BY <2>1, Zenon DEF PulsesFor
<1> HIDE DEF bit
<1>4. PulsesFor(tx) \in Seq(PulseBit) /\ Len(PulsesFor(tx)) = n
      /\ \A i \in 1 .. n : PulsesFor(tx)[i] = bit(i)
  BY <1>2, <1>3
<1> QED BY <1>1, <1>4, Zenon DEF bit

\* Byte after byte, the bytes do what the pulses do.
LEMMA BangsPulse ==
    ASSUME NEW p \in LivePort, p.source = "bb", NEW tx \in Seq(0 .. 255), NEW n \in Nat, n = Len(tx)
    PROVE  /\ Banged(p, BytesFor(tx)) \in BangType /\ Stepped(p, PulsesFor(tx)) \in RunType
           /\ Same(Banged(p, BytesFor(tx)), Stepped(p, PulsesFor(tx)), n)
<1> DEFINE bytes == BytesFor(tx)
<1> DEFINE bits == PulsesFor(tx)
<1>1. /\ bytes \in Seq(0 .. 255) /\ Len(bytes) = 2 * n
      /\ \A i \in 1 .. n : bytes[2 * i - 1] = Clocked(tx[i])[1] /\ bytes[2 * i] = Clocked(tx[i])[2]
  BY BytesForType, Zenon
<1>2. /\ bits \in Seq(PulseBit) /\ Len(bits) = n
      /\ \A i \in 1 .. n : /\ BitOf(tx[i], 0) \in Bit /\ BitOf(tx[i], 1) \in Bit
                           /\ bits[i] = [tms |-> BitOf(tx[i], 0), tdi |-> BitOf(tx[i], 1)]
  BY PulsesForType, Zenon
<1> HIDE DEF bytes, bits
<1> DEFINE A == {run \in BangType : run.port.source = "bb"}
<1>3. PICK bangs \in [0 .. 2 * n -> A] :
         BangRuns(bangs, p, bytes) /\ Banged(p, bytes) = bangs[2 * n]
  <2>1. \E bangs \in [0 .. Len(bytes) -> {run \in BangType : run.port.source = p.source}] :
           BangRuns(bangs, p, bytes) /\ Banged(p, bytes) = bangs[Len(bytes)]
    BY <1>1, BangedIsLast, Zenon
  <2> QED BY <1>1, <2>1, Zenon
<1>4. PICK runs \in [0 .. n -> RunType] : Runs(runs, p, bits) /\ Stepped(p, bits) = runs[n]
  BY <1>2, SteppedIsLast, Zenon
<1>5. /\ bangs[0] = FirstRun(p)
      /\ \A i \in 1 .. 2 * n : bangs[i] = BangStep(bangs[i - 1], bytes[i])
  BY <1>1, <1>3, Zenon DEF BangRuns
<1>6. runs[0] = FirstRun(p) /\ \A i \in 1 .. n : runs[i] = Pulse(runs[i - 1], bits[i])
  BY <1>2, <1>4, Zenon DEF Runs
<1> DEFINE G == {i \in 0 .. n : Same(bangs[2 * i], runs[i], i)}
<1>7. 0 \in G
  <2>1. Same(FirstRun(p), FirstRun(p), 0)
    <3>1. FirstRun(p).port = p /\ FirstRun(p).tdo = <<>>
      BY DEF FirstRun
    <3> QED BY <3>1 DEF Same, Alike
  <2>2. 2 * 0 = 0 /\ 0 \in 0 .. n
    OBVIOUS
  <2> QED BY <1>5, <1>6, <2>1, <2>2, Zenon
<1>8. ASSUME NEW i \in 1 .. n, i - 1 \in G PROVE i \in G
  <2>1. PICK k \in Nat : k = i - 1 /\ k + 1 = i
    OBVIOUS
  <2>2. /\ k \in 0 .. n /\ i \in 0 .. n /\ 2 * k \in 0 .. 2 * n
        /\ 2 * i - 1 \in 1 .. 2 * n /\ 2 * i \in 1 .. 2 * n
        /\ (2 * i - 1) - 1 = 2 * k
    BY <2>1
  <2>3. Same(bangs[2 * k], runs[k], k)
    BY <1>8, <2>1, Zenon
  <2>4. bangs[2 * k] \in BangType /\ bangs[2 * k].port.source = "bb" /\ runs[k] \in RunType
    <3>1. bangs[2 * k] \in A /\ runs[k] \in RunType
      BY <2>2
    <3> QED BY <3>1
  <2>5. PICK b \in 0 .. 255 : b = tx[i]
    <3>1. tx[i] \in 0 .. 255
      BY ElementOfSeq
    <3> QED BY <3>1, Zenon
  <2>6. PICK low \in 0 .. 255, high \in 0 .. 255 :
          /\ Clocked(b) = <<low, high>> /\ BitOf(low, 3) = 0 /\ BitOf(high, 3) = 1
          /\ BitOf(high, 0) = BitOf(b, 0) /\ BitOf(high, 1) = BitOf(b, 1)
    BY ClockedBits, ZenonT(60)
  <2>7. bytes[2 * i - 1] = low /\ bytes[2 * i] = high
    <3>1. <<low, high>>[1] = low /\ <<low, high>>[2] = high
      OBVIOUS
    <3> QED BY <1>1, <2>5, <2>6, <3>1, Zenon
  <2>8. bangs[2 * i] = BangStep(BangStep(bangs[2 * k], low), high)
    <3>1. bangs[2 * i - 1] = BangStep(bangs[2 * k], low)
      BY <1>5, <2>2, <2>7, Zenon
    <3>2. bangs[2 * i] = BangStep(bangs[2 * i - 1], high)
      BY <1>5, <2>2, <2>7, Zenon
    <3> QED BY <3>1, <3>2, Zenon
  <2>9. PICK tms \in Bit, tdi \in Bit :
          tms = BitOf(b, 0) /\ tdi = BitOf(b, 1) /\ bits[i] = [tms |-> tms, tdi |-> tdi]
    BY <1>2, <2>5, Zenon
  <2>10. PICK bang \in BangType, run \in RunType : bang = bangs[2 * k] /\ run = runs[k]
    BY <2>4, Zenon
  <2>11. Same(BangStep(BangStep(bang, low), high), Pulse(run, [tms |-> tms, tdi |-> tdi]), k + 1)
    <3>1. bang.port.source = "bb" /\ Same(bang, run, k)
      BY <2>3, <2>4, <2>10, Zenon
    <3>2. BitOf(low, 3) = 0 /\ BitOf(high, 3) = 1 /\ BitOf(high, 0) = tms /\ BitOf(high, 1) = tdi
      BY <2>6, <2>9, Zenon
    <3> QED BY <3>1, <3>2, ByteIsPulse, ZenonT(60)
  <2>12. runs[i] = Pulse(run, [tms |-> tms, tdi |-> tdi])
    BY <1>6, <2>1, <2>9, <2>10, Zenon
  <2>13. Same(bangs[2 * i], runs[i], i)
    BY <2>1, <2>8, <2>10, <2>11, <2>12, Zenon
  <2> QED BY <2>2, <2>13, Zenon
<1>9. Same(bangs[2 * n], runs[n], n)
  <2> HIDE DEF G
  <2>1. 0 .. n \subseteq G
    BY <1>7, <1>8, Reaches
  <2>2. n \in 0 .. n
    OBVIOUS
  <2> QED BY <2>1, <2>2, Zenon DEF G
<1>10. bangs[2 * n] \in A /\ runs[n] \in RunType
  <2>1. 2 * n \in 0 .. 2 * n /\ n \in 0 .. n
    OBVIOUS
  <2> QED BY <2>1
<1> QED BY <1>3, <1>4, <1>9, <1>10, Zenon DEF bytes, bits

\* A message for bit-banging leaves what its bytes make of the port; the answer is what
\* came in, as much of it as is wanted.
LEMMA PerformedBang ==
    ASSUME NEW p, NEW m, Bangs(m), NEW e \in Performed(p, m)
    PROVE  LET run == Banged(p, m.tx)
           IN /\ e.port = run.port /\ e.trace = run.trace
              /\ e.reply = SubSeq(run.tdo, 1, IF m.want < Len(run.tdo) THEN m.want ELSE Len(run.tdo))
<1> DEFINE bytes(tdo) == IF m.cmd = CmdBBSpi THEN tdo
                         ELSE IF m.cmd = CmdJtag + CmdTdiWO THEN <<0>> ELSE BytesOf(tdo)
<1> DEFINE kept(s) == SubSeq(s, 1, IF m.want < Len(s) THEN m.want ELSE Len(s))
<1> DEFINE run == Banged(p, m.tx)
<1>1. m.cmd = CmdBBSpi /\ m.cmd # CmdJtag + CmdBB
  BY DEF Bangs, CmdBBSpi, CmdJtag, CmdBB
<1>2. e \in {[port |-> r.port, reply |-> kept(bytes(r.tdo)), trace |-> r.trace] :
               r \in {IF m.cmd = CmdBBSpi THEN Banged(p, m.tx) ELSE ShiftOut(p, PulsesOf(m))}}
  BY <1>1, Zenon DEF Performed
<1>3. \A tdo : bytes(tdo) = tdo
  BY <1>1, Zenon
<1> HIDE DEF kept, bytes, run
<1>4. e \in {[port |-> r.port, reply |-> kept(bytes(r.tdo)), trace |-> r.trace] : r \in {run}}
  BY <1>1, <1>2, Zenon DEF run
<1>5. e = [port |-> run.port, reply |-> kept(bytes(run.tdo)), trace |-> run.trace]
  BY <1>4
<1>6. e.port = run.port /\ e.trace = run.trace /\ e.reply = kept(run.tdo)
  BY <1>3, <1>5
<1> QED BY <1>6, Zenon DEF run, kept

\* The calls that bit-bang have one message, which goes out before anything else happened.
BangOps == {"bb", "play"}

Banging ==
    call.op \in BangOps =>
      /\ call \in Calls
      /\ status = "busy" => /\ pending = <<BangMessage(call.tx, call.n)>>
                            /\ port = start /\ trace = <<>> /\ answers = <<>>
      /\ BangsLikePulses

\* A call to bit-bang.
LEMMA BangCalls ==
    ASSUME NEW c \in Calls, c.op \in BangOps
    PROVE  /\ c.tx \in Seq(0 .. 255) /\ c.n \in {0, Len(c.tx)} /\ c.n \in Nat
           /\ Plan(c) = <<BangMessage(c.tx, c.n)>> /\ ~ Mismatched(c)
<1>1. c \in FTCall
  BY CallsAssumption
<1>2. c.tx \in Seq(0 .. 255) /\ c.n \in Nat
  BY <1>1 DEF FTCall, BangOps
<1>3. c.n \in {0, Len(c.tx)}
  BY BangAssumption DEF BangOps
<1>4. Plan(c) = <<BangMessage(c.tx, c.n)>>
  BY DEF Plan, BangOps
<1>5. ~ Mismatched(c)
  BY DEF Mismatched, BangOps
<1> QED BY <1>2, <1>3, <1>4, <1>5

\* Its message is still to go.
LEMMA CallBanging == ASSUME NEW c \in Calls, Call(c) PROVE Banging'
<1> SUFFICES ASSUME c.op \in BangOps
             PROVE  /\ c \in Calls
                    /\ pending' = <<BangMessage(c.tx, c.n)>> /\ status' = "busy"
                    /\ port' = start' /\ trace' = <<>> /\ answers' = <<>>
  BY DEF Banging, BangsLikePulses, Call
<1>1. Plan(c) = <<BangMessage(c.tx, c.n)>> /\ ~ Mismatched(c)
  BY BangCalls
<1>2. Plan(c) # <<>>
  BY <1>1
<1> QED BY <1>1, <1>2 DEF Call

\* Bit 2 of what comes back.
TdoBits(res) == [i \in DOMAIN res |-> BitOf(res[i], 2)]

\* What is read of the bytes with the clock high is TDO.
LEMMA BangReads ==
    ASSUME NEW tx \in Seq(0 .. 255), NEW n \in Nat, n = Len(tx),
           NEW bang \in BangType, NEW run \in RunType, Same(bang, run, n)
    PROVE  TdoBits(BangedBack(tx, bang.tdo)) = run.tdo
<1>1. PICK m \in Nat : m = 2 * n
  OBVIOUS
<1>2. /\ bang.tdo \in Seq(0 .. 255) /\ Len(bang.tdo) = m /\ run.tdo \in Seq(Bit) /\ Len(run.tdo) = n
      /\ \A k \in 1 .. n : BitOf(bang.tdo[2 * k], 2) = run.tdo[k]
  BY <1>1 DEF Same, BangType, RunType
<1>3. BangedBack(tx, bang.tdo) = [i \in 1 .. n |-> bang.tdo[2 * i]]
  <2>1. DOMAIN tx = 1 .. n
    OBVIOUS
  <2>2. ASSUME NEW i \in 1 .. n PROVE 2 * i <= Len(bang.tdo)
    BY <1>1, <1>2
  <2> QED BY <2>1, <2>2, Zenon DEF BangedBack
<1>4. TdoBits(BangedBack(tx, bang.tdo)) = [i \in 1 .. n |-> run.tdo[i]]
  BY <1>2, <1>3, Zenon DEF TdoBits
<1>5. run.tdo = [i \in 1 .. n |-> run.tdo[i]]
  BY <1>2
<1> QED BY <1>4, <1>5, Zenon

\* There is room for all of it.
LEMMA BangFits ==
    ASSUME NEW n \in Nat, NEW bang \in BangType, NEW run, Same(bang, run, n)
    PROVE  SubSeq(bang.tdo, 1, IF 2 * n < Len(bang.tdo) THEN 2 * n ELSE Len(bang.tdo)) = bang.tdo
<1>1. PICK m \in Nat : m = 2 * n
  OBVIOUS
<1>2. bang.tdo \in Seq(0 .. 255) /\ Len(bang.tdo) = m
  BY <1>1 DEF Same, BangType
<1>3. SubSeq(bang.tdo, 1, m) = bang.tdo
  BY <1>2
<1>4. (IF 2 * n < Len(bang.tdo) THEN 2 * n ELSE Len(bang.tdo)) = m
  BY <1>1, <1>2
<1> QED BY <1>3, <1>4, Zenon

\* Its message is exchanged, and of what comes back the call returns what it read.
LEMMA BangGoes ==
    ASSUME Sound, Banging, Exchange, call'.op \in BangOps
    PROVE  LET bang == Banged(start, BytesFor(call.tx)) IN
           /\ call' = call /\ call \in Calls /\ start' = start
           /\ pending' = <<>> /\ status' = "ok"
           /\ port' = bang.port /\ trace' = <<>> \o bang.trace
           /\ \E reply :
                /\ result' = Returned(call, <<reply>>)
                /\ whole' => reply = SubSeq(bang.tdo, 1, IF 2 * call.n < Len(bang.tdo) THEN 2 * call.n
                                                          ELSE Len(bang.tdo))
<1>1. status = "busy" /\ start' = start
  BY DEF Exchange
<1>2. PICK e \in Effects(Head(pending)) : \E reply \in Answered(e.reply) : Goes(e, reply)
  BY Zenon DEF Exchange, Goes
<1>3. PICK reply \in Answered(e.reply) : Goes(e, reply)
  BY <1>2
<1>4. call' = call
  <2>1. CASE call' = [op |-> "readIDs", n |-> ChainLength(reply)]
    BY <2>1 DEF BangOps
  <2>2. CASE call' = call
    BY <2>2
  <2> QED BY <1>3, <2>1, <2>2, Zenon DEF Goes
<1> DEFINE m == BangMessage(call.tx, call.n)
<1>5. /\ call.op \in BangOps /\ call \in Calls
      /\ pending = <<m>> /\ port = start /\ trace = <<>> /\ answers = <<>>
  BY <1>1, <1>4 DEF Banging
<1>6. m.cmd = CmdBBSpi /\ m.tx = BytesFor(call.tx) /\ m.want = 2 * call.n
  BY DEF BangMessage, BytesFor
<1> HIDE DEF m
<1>7. Head(pending) = m /\ Len(pending) = 1
  BY <1>5
<1> DEFINE bang == Banged(start, BytesFor(call.tx))
<1>8. /\ e.port = bang.port /\ e.trace = bang.trace
      /\ e.reply = SubSeq(bang.tdo, 1, IF 2 * call.n < Len(bang.tdo) THEN 2 * call.n ELSE Len(bang.tdo))
  <2>1. m.cmd # CmdJtag + CmdTdiRO + CmdTdiWO
    BY <1>6 DEF CmdBBSpi, CmdJtag, CmdTdiRO, CmdTdiWO
  <2>2. e \in Performed(port, m)
    BY <1>2, <1>7, <2>1, Zenon DEF Effects
  <2>3. Bangs(m)
    BY <1>6 DEF Bangs
  <2>4. /\ e.port = Banged(port, m.tx).port /\ e.trace = Banged(port, m.tx).trace
        /\ e.reply = SubSeq(Banged(port, m.tx).tdo, 1,
                            IF m.want < Len(Banged(port, m.tx).tdo) THEN m.want
                            ELSE Len(Banged(port, m.tx).tdo))
    BY <2>2, <2>3, PerformedBang, Zenon
  <2> QED BY <1>5, <1>6, <2>4, Zenon
<1> HIDE DEF bang
<1>9. /\ port' = e.port /\ trace' = trace \o e.trace /\ whole' = (whole /\ reply = e.reply)
      /\ pending' = <<>> /\ status' = "ok" /\ result' = Returned(call, Append(answers, reply))
  <2>1. ~ (Len(pending) > 1)
    BY <1>7
  <2>2. ~ (call.op = "getIDs" /\ call.n = 0)
    BY <1>5 DEF BangOps
  <2> QED BY <1>3, <2>1, <2>2, Zenon DEF Goes
<1>10. Append(answers, reply) = <<reply>>
  BY <1>5
<1>11. /\ result' = Returned(call, <<reply>>)
       /\ whole' => reply = SubSeq(bang.tdo, 1, IF 2 * call.n < Len(bang.tdo) THEN 2 * call.n
                                                ELSE Len(bang.tdo))
  BY <1>8, <1>9, <1>10, Zenon
<1> QED BY <1>1, <1>4, <1>5, <1>8, <1>9, <1>11, Zenon DEF bang

\* If it comes back whole, it is a byte with TDO in bit 2 for each pulse.
LEMMA BangBrings ==
    ASSUME NEW p \in LivePort, p.source = "bb", NEW tx \in Seq(0 .. 255), NEW n \in Nat, n = Len(tx)
    PROVE  LET bang == Banged(p, BytesFor(tx)) IN
           \A reply :
             reply = SubSeq(bang.tdo, 1, IF 2 * n < Len(bang.tdo) THEN 2 * n ELSE Len(bang.tdo)) =>
               TdoBits(BangedBack(tx, reply)) = Stepped(p, PulsesFor(tx)).tdo
<1> DEFINE bang == Banged(p, BytesFor(tx))
<1> DEFINE run == Stepped(p, PulsesFor(tx))
<1>1. bang \in BangType /\ run \in RunType /\ Same(bang, run, n)
  BY BangsPulse, Zenon
<1> HIDE DEF bang, run
<1>2. SubSeq(bang.tdo, 1, IF 2 * n < Len(bang.tdo) THEN 2 * n ELSE Len(bang.tdo)) = bang.tdo
  BY <1>1, BangFits, Zenon
<1>3. TdoBits(BangedBack(tx, bang.tdo)) = run.tdo
  BY <1>1, BangReads, ZenonT(60)
<1> QED BY <1>2, <1>3, Zenon DEF bang, run

\* With its message all of it happens.
LEMMA ExchangeBanging == ASSUME Sound, Banging, Exchange PROVE Banging'
<1> SUFFICES ASSUME call'.op \in BangOps
             PROVE  /\ call' \in Calls
                    /\ status' = "busy" => /\ pending' = <<BangMessage(call'.tx, call'.n)>>
                                           /\ port' = start' /\ trace' = <<>> /\ answers' = <<>>
                    /\ BangsLikePulses'
  BY DEF Banging
<1> DEFINE bang == Banged(start, BytesFor(call.tx))
<1>1. PICK reply :
        /\ call' = call /\ call \in Calls /\ start' = start
        /\ pending' = <<>> /\ status' = "ok"
        /\ port' = bang.port /\ trace' = <<>> \o bang.trace
        /\ result' = Returned(call, <<reply>>)
        /\ whole' => reply = SubSeq(bang.tdo, 1, IF 2 * call.n < Len(bang.tdo) THEN 2 * call.n
                                                 ELSE Len(bang.tdo))
  BY BangGoes, Zenon
<1> HIDE DEF bang
<1>2. call.op \in BangOps
  BY <1>1
<1>3. call.tx \in Seq(0 .. 255) /\ call.n \in {0, Len(call.tx)} /\ call.n \in Nat
  BY <1>1, <1>2, BangCalls
<1> DEFINE run == Stepped(start, PulsesFor(call.tx))
<1>4. ASSUME start.source = "bb"
      PROVE  /\ port'.tap = run.port.tap /\ port'.reg = run.port.reg /\ port'.instr = run.port.instr
             /\ trace' = run.trace
             /\ call.op = "bb" /\ call.n > 0 /\ whole' =>
                  [i \in DOMAIN result' |-> BitOf(result'[i], 2)] = run.tdo
  <2>1. PICK n \in Nat : n = Len(call.tx)
    BY <1>3
  <2>2. start \in LivePort
    BY DEF Sound
  <2>3. bang \in BangType /\ run \in RunType /\ Same(bang, run, n)
    BY <1>3, <1>4, <2>1, <2>2, BangsPulse, Zenon DEF bang
  <2> HIDE DEF run
  <2>4. trace' = bang.trace
    <3>1. bang.trace \in Seq(ShiftBit)
      BY <2>3 DEF BangType
    <3>2. <<>> \o bang.trace = bang.trace
      BY <3>1
    <3> QED BY <1>1, <3>2, Zenon
  <2>5. ASSUME call.op = "bb", call.n > 0, whole'
        PROVE  [i \in DOMAIN result' |-> BitOf(result'[i], 2)] = run.tdo
    <3>1. call.n = n
      BY <1>3, <2>1, <2>5
    <3>2. Returned(call, <<reply>>) = BangedBack(call.tx, reply)
      <4>1. call.n # 0 /\ <<reply>>[1] = reply
        BY <2>5
      <4> QED BY <2>5, <4>1 DEF Returned
    <3>3. TdoBits(BangedBack(call.tx, reply)) = run.tdo
      <4>1. reply = SubSeq(bang.tdo, 1, IF 2 * n < Len(bang.tdo) THEN 2 * n ELSE Len(bang.tdo))
        BY <1>1, <2>5, <3>1, Zenon
      <4> QED BY <1>3, <1>4, <2>1, <2>2, <4>1, BangBrings, Zenon DEF bang, run
    <3> QED BY <1>1, <3>2, <3>3, Zenon DEF TdoBits
  <2> QED BY <1>1, <2>3, <2>4, <2>5, Zenon DEF Same, Alike
<1>5. BangsLikePulses'
  <2> HIDE DEF run
  <2> QED BY <1>1, <1>4, Zenon DEF BangsLikePulses, run, PulsesFor
<1>6. status' # "busy"
  BY <1>1
<1> QED BY <1>1, <1>5, <1>6, Zenon

\* No other step has to do with it.
LEMMA NextBanging == Sound /\ Banging /\ [Next]_vars => Banging'
<1> SUFFICES ASSUME Sound, Banging, [Next]_vars PROVE Banging'
  OBVIOUS
<1>1. CASE \E c \in Calls : Call(c)
  BY <1>1, CallBanging
<1>2. CASE Exchange
  BY <1>2, ExchangeBanging
<1>3. CASE Fail
  <2>1. status' = "error" /\ call' = call
    BY <1>3 DEF Fail
  <2> QED BY <2>1 DEF Banging, BangsLikePulses
<1>4. CASE \E scratch \in 0 .. 3 : SelectPins(scratch)
  <2>1. call' = [op |-> "none"]
    BY <1>4 DEF SelectPins
  <2> QED BY <2>1 DEF Banging, BangOps
<1>5. CASE UNCHANGED vars
  BY <1>5 DEF vars, Banging, BangsLikePulses
<1> QED BY <1>1, <1>2, <1>3, <1>4, <1>5 DEF Next

\* Bit-banging makes one pulse of each byte, with its TMS and TDI, whatever the clock bit
\* of the byte or of the port was, for any number of bytes, and brings TDO back in bit 2
\* (FTEmul.cpp, FW::bb, and what play.cpp makes of it).
THEOREM ByteIsAPulse == Spec => []BangsLikePulses
<1>1. Init => Sound /\ Banging
  BY InitSound DEF Init, Banging, BangOps
<1>2. Sound /\ Banging /\ [Next]_vars => (Sound /\ Banging)'
  BY NextSound, NextBanging
<1>3. Banging => BangsLikePulses
  BY DEF Banging, BangsLikePulses, BangOps
<1> QED BY <1>1, <1>2, <1>3, PTL DEF Spec

-----------------------------------------------------------------------------
(* What the bytes of an answer say. *)

\* Dividing by a greater number leaves all.
LEMMA SmallRest == ASSUME NEW n \in Nat, NEW u \in Nat, n < u PROVE n % u = n
OBVIOUS

\* The number of zeros at the low end is the only one there is.
LEMMA LowZerosIs ==
    ASSUME NEW b, NEW k \in 0 .. 8, \A i \in 0 .. k - 1 : BitOf(b, i) = 0,
           k = 8 \/ BitOf(b, k) = 1
    PROVE  LowZeros(b) = k
<1> DEFINE P(x) == (x = 8 \/ BitOf(b, x) = 1) /\ \A i \in 0 .. x - 1 : BitOf(b, i) = 0
<1>1. P(k)
  OBVIOUS
<1>2. ASSUME NEW x \in 0 .. 8, P(x) PROVE x = k
  <2>1. CASE x < k
    <3>1. x \in 0 .. k - 1 /\ x # 8
      BY <2>1
    <3>2. BitOf(b, x) = 0 /\ BitOf(b, x) = 1
      BY <1>2, <3>1, Zenon
    <3> QED BY <3>2
  <2>2. CASE k < x
    <3>1. k \in 0 .. x - 1 /\ k # 8
      BY <2>2
    <3>2. BitOf(b, k) = 0 /\ BitOf(b, k) = 1
      BY <1>2, <3>1, Zenon
    <3> QED BY <3>2
  <2> QED BY <2>1, <2>2
<1>3. LowZeros(b) = CHOOSE x \in 0 .. 8 : P(x)
  BY Zenon DEF LowZeros
<1> HIDE DEF P
<1> QED BY <1>1, <1>2, <1>3, Zenon

\* Of two bytes countChainLength adds up the zeros, less the eight that it shifted in.
LEMMA ChainLengthOfTwo ==
    ASSUME NEW rep \in Seq(0 .. 255), Len(rep) = 2
    PROVE  ChainLength(rep) = (LowZeros(rep[1]) + LowZeros(rep[2]) - 8) % UnsignedMod
<1> DEFINE E(h) == h = [i \in 0 .. 2 |-> IF i = 0 THEN 0 ELSE h[i - 1] + LowZeros(rep[i])]
<1> DEFINE zeros == CHOOSE h : E(h)
<1>1. ChainLength(rep) = (zeros[2] - 8) % UnsignedMod
  BY Zenon DEF ChainLength
<1>2. PICK a \in Nat, b \in Nat : a = LowZeros(rep[1]) /\ b = LowZeros(rep[2])
  <2>1. rep[1] \in 0 .. 255 /\ rep[2] \in 0 .. 255
    <3>1. 1 \in 1 .. Len(rep) /\ 2 \in 1 .. Len(rep)
      OBVIOUS
    <3>2. \A i \in 1 .. Len(rep) : rep[i] \in 0 .. 255
      BY ElementOfSeq
    <3> QED BY <3>1, <3>2, ZenonT(60)
  <2>2. LowZeros(rep[1]) \in 0 .. 8 /\ LowZeros(rep[2]) \in 0 .. 8
    BY <2>1, LowZerosType
  <2> QED BY <2>2
<1> DEFINE f == [i \in 0 .. 2 |-> IF i = 0 THEN 0 ELSE IF i = 1 THEN a ELSE a + b]
<1>3. E(f)
  <2>1. ASSUME NEW i \in 0 .. 2
        PROVE  f[i] = IF i = 0 THEN 0 ELSE f[i - 1] + LowZeros(rep[i])
    <3>1. CASE i = 0
      BY <3>1
    <3>2. CASE i = 1
      BY <1>2, <3>2
    <3>3. CASE i = 2
      BY <1>2, <3>3
    <3> QED BY <3>1, <3>2, <3>3
  <2>2. f = [i \in 0 .. 2 |-> f[i]]
    OBVIOUS
  <2> HIDE DEF f
  <2>3. f = [i \in 0 .. 2 |-> IF i = 0 THEN 0 ELSE f[i - 1] + LowZeros(rep[i])]
    BY <2>1, <2>2, Zenon
  <2> QED BY <2>3, Zenon
<1>4. E(zeros)
  <2> HIDE DEF E
  <2> QED BY <1>3, Zenon
<1> HIDE DEF zeros, f
<1>5. \A i \in 0 .. 2 : zeros[i] = IF i = 0 THEN 0 ELSE zeros[i - 1] + LowZeros(rep[i])
  BY <1>4, Zenon
<1>6. zeros[2] = a + b
  <2>1. zeros[0] = 0 /\ zeros[1] = zeros[0] + a /\ zeros[2] = zeros[1] + b
    BY <1>2, <1>5
  <2> QED BY <2>1
<1> QED BY <1>1, <1>2, <1>6

\* Bytes that hold eight bits each.
WholeBytes(bytes, bits, k) ==
    /\ bytes \in Seq(0 .. 255) /\ Len(bytes) = k
    /\ \A j \in 1 .. k : \A q \in 0 .. 7 : BitOf(bytes[j], q) = bits[8 * (j - 1) + q + 1]

\* They hold as many as a multiple of eight.
LEMMA WholePacked ==
    ASSUME NEW bits, NEW k \in Nat, Len(bits) = 8 * k, NEW bytes
    PROVE  Packed(bytes, bits) <=> WholeBytes(bytes, bits, k)
<1> DEFINE n == (Len(bits) + 7) \div 8
<1> DEFINE filled(j) == IF j < n THEN 8 ELSE Len(bits) - 8 * (n - 1)
<1> DEFINE in(j) == [q \in 1 .. filled(j) |-> bits[8 * (j - 1) + q]]
<1>1. n = k
  OBVIOUS
<1>2. ASSUME NEW j \in 1 .. k PROVE filled(j) = 8
  BY <1>1
<1>3. Packed(bytes, bits) <=>
        /\ bytes \in Seq(0 .. 255) /\ Len(bytes) = n
        /\ \A j \in 1 .. n : Entered(bytes[j], in(j), filled(j))
  BY Zenon DEF Packed
<1> HIDE DEF n
<1>4. ASSUME bytes \in Seq(0 .. 255), Len(bytes) = k, NEW j \in 1 .. k
      PROVE  Entered(bytes[j], in(j), filled(j)) <=>
               \A q \in 0 .. 7 : BitOf(bytes[j], q) = bits[8 * (j - 1) + q + 1]
  <2>1. bytes[j] \in 0 .. 255
    BY <1>4, ElementOfSeq
  <2>2. \A q \in 1 .. 8 : in(j)[q] = bits[8 * (j - 1) + q]
    BY <1>2
  <2> DEFINE b == bytes[j]
  <2> DEFINE s == in(j)
  <2>3. filled(j) = 8
    BY <1>2
  <2>21. \A q \in 1 .. 8 : s[q] = bits[8 * (j - 1) + q]
    BY <2>2, Zenon
  <2>4. PICK o \in Int : o = 8 * (j - 1)
    OBVIOUS
  <2> HIDE DEF b, s, filled
  <2>5. Entered(b, s, 8) <=> b \in 0 .. 255 /\ \A q \in 1 .. 8 : BitOf(b, 7 - 8 + q) = s[q]
    <3>1. 0 .. 7 - 8 = {}
      OBVIOUS
    <3> QED BY <3>1, Zenon DEF Entered
  <2>6. (\A q \in 1 .. 8 : BitOf(b, 7 - 8 + q) = s[q]) <=>
        (\A q \in 0 .. 7 : BitOf(b, q) = s[q + 1])
    <3>1. ASSUME \A q \in 1 .. 8 : BitOf(b, 7 - 8 + q) = s[q], NEW q \in 0 .. 7
          PROVE  BitOf(b, q) = s[q + 1]
      <4>1. q + 1 \in 1 .. 8 /\ 7 - 8 + (q + 1) = q
        OBVIOUS
      <4> QED BY <3>1, <4>1
    <3>2. ASSUME \A q \in 0 .. 7 : BitOf(b, q) = s[q + 1], NEW q \in 1 .. 8
          PROVE  BitOf(b, 7 - 8 + q) = s[q]
      <4>1. 7 - 8 + q \in 0 .. 7 /\ (7 - 8 + q) + 1 = q
        OBVIOUS
      <4> QED BY <3>2, <4>1
    <3> QED BY <3>1, <3>2, Zenon
  <2>7. \A q \in 0 .. 7 : s[q + 1] = bits[8 * (j - 1) + q + 1]
    <3> TAKE q \in 0 .. 7
    <3>1. q + 1 \in 1 .. 8 /\ 8 * (j - 1) + (q + 1) = 8 * (j - 1) + q + 1
      BY <2>4
    <3>2. s[q + 1] = bits[8 * (j - 1) + (q + 1)]
      BY <2>21, <3>1, Zenon
    <3> QED BY <3>1, <3>2
  <2> QED BY <2>1, <2>3, <2>5, <2>6, <2>7, Zenon DEF b, s
<1> HIDE DEF in, filled
<1> QED BY <1>1, <1>3, <1>4, Zenon DEF WholeBytes

\* A zero of each device and the eight that were shifted in: countChainLength finds how
\* many devices there are.
LEMMA ChainReply ==
    ASSUME NEW n \in 1 .. 8, n < UnsignedMod, NEW rep, NEW tdo \in Seq(Bit),
           Len(tdo) = 16, Packed(rep, tdo),
           \A i \in 1 .. 16 : tdo[i] = IF i <= 8 + n THEN 0 ELSE 1
    PROVE  ChainLength(rep) = n
<1>1. /\ rep \in Seq(0 .. 255) /\ Len(rep) = 2
      /\ \A j \in 1 .. 2 : \A q \in 0 .. 7 : BitOf(rep[j], q) = tdo[8 * (j - 1) + q + 1]
  <2>1. Len(tdo) = 8 * 2
    OBVIOUS
  <2>2. WholeBytes(rep, tdo, 2)
    BY <2>1, WholePacked
  <2> QED BY <2>2, Zenon DEF WholeBytes
<1>2. LowZeros(rep[1]) = 8
  <2>1. \A q \in 0 .. 8 - 1 : BitOf(rep[1], q) = 0
    <3> TAKE q \in 0 .. 8 - 1
    <3>0. q \in 0 .. 7 /\ q + 1 \in 1 .. 16 /\ 1 \in 1 .. 2 /\ 8 * (1 - 1) + q + 1 = q + 1
      OBVIOUS
    <3>1. q + 1 <= 8 + n
      BY <3>0
    <3>2. BitOf(rep[1], q) = tdo[q + 1]
      BY <1>1, <3>0, Zenon
    <3> QED BY <3>0, <3>1, <3>2, Zenon
  <2>2. 8 \in 0 .. 8
    OBVIOUS
  <2> QED BY <2>1, <2>2, LowZerosIs, Zenon
<1>3. LowZeros(rep[2]) = n
  <2>1. ASSUME NEW q \in 0 .. 7 PROVE BitOf(rep[2], q) = IF q < n THEN 0 ELSE 1
    <3>1. 2 \in 1 .. 2 /\ 9 + q \in 1 .. 16 /\ 8 * (2 - 1) + q + 1 = 9 + q
      OBVIOUS
    <3>2. BitOf(rep[2], q) = tdo[9 + q]
      BY <1>1, <3>1, Zenon
    <3>3. (9 + q <= 8 + n) <=> q < n
      OBVIOUS
    <3> QED BY <3>1, <3>2, <3>3, Zenon
  <2>2. \A q \in 0 .. n - 1 : BitOf(rep[2], q) = 0
    <3> TAKE q \in 0 .. n - 1
    <3>1. q \in 0 .. 7 /\ q < n
      OBVIOUS
    <3> QED BY <2>1, <3>1, Zenon
  <2>3. n = 8 \/ BitOf(rep[2], n) = 1
    <3>1. CASE n # 8
      <4>1. n \in 0 .. 7 /\ ~ (n < n)
        BY <3>1
      <4> QED BY <2>1, <4>1, Zenon
    <3> QED BY <3>1
  <2>4. n \in 0 .. 8
    OBVIOUS
  <2> QED BY <2>2, <2>3, <2>4, LowZerosIs, Zenon
<1>4. (8 + n - 8) % UnsignedMod = n
  <2>1. PICK u \in Nat : u = UnsignedMod /\ n < u
    BY UnsignedModAssumption
  <2>2. 8 + n - 8 = n /\ n \in Nat
    OBVIOUS
  <2>3. n % u = n
    BY <2>1, <2>2, SmallRest
  <2> QED BY <2>1, <2>2, <2>3, Zenon
<1> QED BY <1>1, <1>2, <1>3, <1>4, ChainLengthOfTwo

\* Four bytes out of many.
LEMMA FourBytes ==
    ASSUME NEW n \in Nat, NEW rep \in Seq(0 .. 255), Len(rep) = 4 * n, NEW d \in 1 .. n
    PROVE  LET s == SubSeq(rep, 4 * d - 3, 4 * d) IN
           /\ s \in Seq(0 .. 255) /\ Len(s) = 4
           /\ \A j \in 1 .. 4 : s[j] = rep[4 * d - 4 + j]
<1>1. PICK a \in Int, b \in Int : /\ a = 4 * d - 3 /\ b = 4 * d
                                  /\ 1 <= a /\ a <= b /\ b <= 4 * n /\ b - a + 1 = 4
  OBVIOUS
<1>2. \A i \in a .. b : rep[i] \in 0 .. 255
  <2> TAKE i \in a .. b
  <2>1. i \in 1 .. Len(rep)
    BY <1>1
  <2> QED BY <2>1, ElementOfSeq
<1> DEFINE s == SubSeq(rep, a, b)
<1>3. s \in Seq(0 .. 255) /\ Len(s) = 4 /\ \A j \in 1 .. 4 : s[j] = rep[a + j - 1]
  BY <1>1, <1>2, SubSeqProperties, SMTT(30)
<1> HIDE DEF s
<1>4. ASSUME NEW j \in 1 .. 4 PROVE s[j] = rep[4 * d - 4 + j]
  <2>1. a + j - 1 = 4 * d - 4 + j
    BY <1>1
  <2> QED BY <1>3, <2>1
<1> QED BY <1>1, <1>3, <1>4, Zenon DEF s

\* Where a bit is among the bytes and among the identifiers.
LEMMA BitPlace ==
    ASSUME NEW n \in Nat, NEW d \in 1 .. n, NEW j \in 1 .. 4, NEW q \in 0 .. 7
    PROVE  /\ 4 * d - 4 + j \in 1 .. 4 * n /\ 8 * (j - 1) + q + 1 \in 1 .. 32
           /\ 8 * ((4 * d - 4 + j) - 1) + q + 1 = 32 * (d - 1) + (8 * (j - 1) + q + 1)
OBVIOUS

\* Four bytes of what came out are the bytes of one identifier.
LEMMA IDsReply ==
    ASSUME Identifiable, NEW n \in Nat, n <= Len(Chain), NEW rep, NEW tdo, IDBits(tdo, n),
           Packed(rep, tdo)
    PROVE  IDs(rep) = [d \in 1 .. n |-> BytesOf(Chain[d].id)]
<1>1. PICK k \in Nat : k = 4 * n
  OBVIOUS
<1>0. PICK l \in Nat : l = Len(Chain) /\ n <= l /\ Devices = 1 .. l
  BY ChainLength1
<1>2. /\ rep \in Seq(0 .. 255) /\ Len(rep) = k
      /\ \A j \in 1 .. k : \A q \in 0 .. 7 : BitOf(rep[j], q) = tdo[8 * (j - 1) + q + 1]
  <2>1. Len(tdo) = 8 * k
    BY <1>1 DEF IDBits
  <2>2. WholeBytes(rep, tdo, k)
    BY <2>1, WholePacked
  <2> QED BY <2>2, Zenon DEF WholeBytes
<1>3. ASSUME NEW d \in 1 .. n PROVE SubSeq(rep, 4 * d - 3, 4 * d) = BytesOf(Chain[d].id)
  <2>1. PICK id \in Seq(Bit) : id = Chain[d].id /\ Len(id) = 32
    <3>1. d \in 1 .. l
      BY <1>0
    <3>2. Chain[d].id \in Seq(Bit) /\ Len(Chain[d].id) = 32
      BY <1>0, <3>1, DeviceType, Zenon DEF Identifiable
    <3> QED BY <3>2, Zenon
  <2>2. PICK s \in Seq(0 .. 255) :
          /\ s = SubSeq(rep, 4 * d - 3, 4 * d) /\ Len(s) = 4
          /\ \A j \in 1 .. 4 : s[j] = rep[4 * d - 4 + j]
    BY <1>1, <1>2, FourBytes, ZenonT(60)
  <2>3. ASSUME NEW j \in 1 .. 4, NEW q \in 0 .. 7
        PROVE  BitOf(s[j], q) = id[8 * (j - 1) + q + 1]
    <3>1. PICK x \in 1 .. k : x = 4 * d - 4 + j
      BY <1>1, BitPlace, Zenon
    <3>2. PICK i \in 1 .. 32 : i = 8 * (j - 1) + q + 1
      BY BitPlace, Zenon
    <3>3. 8 * (x - 1) + q + 1 = 32 * (d - 1) + i
      BY <3>1, <3>2, BitPlace, Zenon
    <3>4. BitOf(rep[x], q) = tdo[8 * (x - 1) + q + 1]
      BY <1>2, Zenon
    <3>5. tdo[32 * (d - 1) + i] = id[i]
      BY <2>1, Zenon DEF IDBits
    <3>6. s[j] = rep[x]
      BY <2>2, <3>1, Zenon
    <3>7. BitOf(s[j], q) = id[i]
      BY <3>3, <3>4, <3>5, <3>6, Zenon
    <3> QED BY <3>2, <3>7, Zenon
  <2>4. WholeBytes(s, id, 4)
    BY <2>2, <2>3, Zenon DEF WholeBytes
  <2>5. Packed(s, id)
    <3>1. Len(id) = 8 * 4 /\ 4 \in Nat
      BY <2>1
    <3> QED BY <2>4, <3>1, WholePacked
  <2>6. s = BytesOf(id)
    BY <2>5, BytesPacked, PackedOnce
  <2> QED BY <2>1, <2>2, <2>6, Zenon
<1>4. Len(rep) \div 4 = n
  BY <1>1, <1>2
<1> QED BY <1>3, <1>4, Zenon DEF IDs

-----------------------------------------------------------------------------
(* The messages that count and identify. *)

\* Bytes behind the one that says eight bits make a message that shifts them.
LEMMA WholeMessage ==
    ASSUME NEW tx \in Seq(0 .. 255), tx # <<>>, NEW req \in Seq(0 .. 255),
           Tail(req) = tx, Len(req) = Len(tx) + 1, Head(req) = 7
    PROVE  /\ ShiftMessage(X(req, FALSE), tx)
           /\ X(req, FALSE).cmd # CmdJtag + CmdTdiRO + CmdTdiWO
<1> DEFINE m == X(req, FALSE)
<1>1. m.cmd = CmdJtag /\ m.len = 7 /\ m.tx = tx /\ m.want = Len(req)
  BY DEF X, CmdJtag
<1>2. m \in Exchanged
  <2>1. req # <<>> /\ Head(req) \in 0 .. 7 \cup 128 .. 135
    <3>1. Len(tx) \in Nat
      OBVIOUS
    <3> QED BY <3>1
  <2>2. m \in OkMsg
    BY <2>1, XType
  <2> HIDE DEF m
  <2> QED BY <2>2, OkMsgExchanged
<1> HIDE DEF m
<1>3. m.want > Len(tx)
  <2>1. Len(tx) \in Nat
    OBVIOUS
  <2> QED BY <1>1, <2>1
<1>4. ShiftMessage(m, tx)
  BY <1>1, <1>2, <1>3, Zenon DEF ShiftMessage
<1>5. m.cmd # CmdJtag + CmdTdiRO + CmdTdiWO
  BY <1>1 DEF CmdJtag, CmdTdiRO, CmdTdiWO
<1> QED BY <1>4, <1>5 DEF m

\* What countChainLength shifts into the instruction registers.
LEMMA OnesMessage ==
    LET m == X(<<\h07, \hff, \hff, \hff, \hff>>, FALSE) IN
    /\ \E tx \in Seq(0 .. 255) : FourOnes(tx) /\ ShiftMessage(m, tx)
    /\ m.cmd # CmdJtag + CmdTdiRO + CmdTdiWO
<1> DEFINE req == <<7, 255, 255, 255, 255>>
<1> DEFINE tx == <<255, 255, 255, 255>>
<1>1. /\ req \in Seq(0 .. 255) /\ tx \in Seq(0 .. 255) /\ Len(tx) = 4 /\ tx # <<>>
      /\ Len(req) = 5 /\ Head(req) = 7 /\ Tail(req) = tx
  OBVIOUS
<1>2. FourOnes(tx)
  BY DEF FourOnes
<1> HIDE DEF tx
<1>3. Len(req) = Len(tx) + 1
  BY <1>1
<1> HIDE DEF req
<1>4. ShiftMessage(X(req, FALSE), tx) /\ X(req, FALSE).cmd # CmdJtag + CmdTdiRO + CmdTdiWO
  BY <1>1, <1>3, WholeMessage
<1>5. \E t \in Seq(0 .. 255) : FourOnes(t) /\ ShiftMessage(X(req, FALSE), t)
  BY <1>1, <1>2, <1>4, Zenon
<1> QED BY <1>4, <1>5, ZenonT(60) DEF req

\* What it shifts through the bypass registers.
LEMMA ZerosMessage ==
    LET m == X(<<\h07, \h00, \hff>>, FALSE) IN
    /\ \E tx \in Seq(0 .. 255) : ZeroOnes(tx) /\ ShiftMessage(m, tx)
    /\ m.cmd # CmdJtag + CmdTdiRO + CmdTdiWO
<1> DEFINE req == <<7, 0, 255>>
<1> DEFINE tx == <<0, 255>>
<1>1. /\ req \in Seq(0 .. 255) /\ tx \in Seq(0 .. 255) /\ Len(tx) = 2 /\ tx # <<>>
      /\ Len(req) = 3 /\ Head(req) = 7 /\ Tail(req) = tx
  OBVIOUS
<1>2. ZeroOnes(tx)
  BY DEF ZeroOnes
<1> HIDE DEF tx
<1>3. Len(req) = Len(tx) + 1
  BY <1>1
<1> HIDE DEF req
<1>4. ShiftMessage(X(req, FALSE), tx) /\ X(req, FALSE).cmd # CmdJtag + CmdTdiRO + CmdTdiWO
  BY <1>1, <1>3, WholeMessage
<1>5. \E t \in Seq(0 .. 255) : ZeroOnes(t) /\ ShiftMessage(X(req, FALSE), t)
  BY <1>1, <1>2, <1>4, Zenon
<1> QED BY <1>4, <1>5 DEF req

\* What brings n identifiers out.
LEMMA IDsMessage ==
    ASSUME NEW n \in Nat \ {0}
    PROVE  LET m == X(<<\h07>> \o [i \in 1 .. 4 * n |-> 0], FALSE) IN
           /\ \E tx \in Seq(0 .. 255) : Len(tx) = 4 * n /\ ShiftMessage(m, tx)
           /\ m.cmd # CmdJtag + CmdTdiRO + CmdTdiWO
<1> DEFINE zeros == [i \in 1 .. 4 * n |-> 0]
<1> DEFINE one == <<7>>
<1>1. /\ zeros \in Seq(0 .. 255) /\ Len(zeros) = 4 * n /\ zeros # <<>>
      /\ one \in Seq(0 .. 255) /\ Len(one) = 1 /\ one[1] = 7
  OBVIOUS
<1> HIDE DEF zeros, one
<1> DEFINE req == one \o zeros
<1>2. req \in Seq(0 .. 255) /\ Len(req) = Len(one) + Len(zeros) /\ req[1] = one[1]
  <2>1. 1 \in 1 .. Len(one)
    BY <1>1
  <2>2. one \in Seq(0 .. 255) /\ zeros \in Seq(0 .. 255)
    BY <1>1
  <2>3. ASSUME NEW a, NEW b, a = Len(one), b = Len(zeros)
        PROVE  /\ one \o zeros \in Seq(0 .. 255) /\ Len(one \o zeros) = a + b
               /\ \A i \in 1 .. a : (one \o zeros)[i] = one[i]
    BY <2>2, <2>3, ConcatParts, SMTT(60)
  <2> QED BY <2>1, <2>3, Zenon
<1> HIDE DEF req
<1>3. PICK k \in Nat \ {0} : k = Len(zeros) /\ Len(req) = k + 1 /\ k = 4 * n
  BY <1>1, <1>2
<1>4. req # <<>> /\ Head(req) = 7
  BY <1>1, <1>2, <1>3
<1>5. /\ Tail(req) \in Seq(0 .. 255) /\ Len(Tail(req)) = k
      /\ \A i \in 1 .. Len(Tail(req)) : Tail(req)[i] = req[i + 1]
  <2>1. Len(req) - 1 = k
    BY <1>3
  <2> QED BY <1>2, <1>4, <2>1, HeadTailProperties
<1>6. ShiftMessage(X(req, FALSE), Tail(req)) /\ X(req, FALSE).cmd # CmdJtag + CmdTdiRO + CmdTdiWO
  <2>1. Tail(req) # <<>> /\ Len(req) = Len(Tail(req)) + 1
    BY <1>3, <1>5
  <2> QED BY <1>2, <1>4, <1>5, <2>1, WholeMessage
<1> QED BY <1>3, <1>5, <1>6, Zenon DEF req, zeros, one

-----------------------------------------------------------------------------
(* The devices are counted, and their identifiers read: what each message does to the chain. *)

\* The chain has no more devices than countChainLength shifts zeros behind them, its
\* instruction registers no more bits than the ones it shifts and the last one.
Countable == Len(Chain) <= 8 /\ Len(CapturedIR) <= 33 /\ Len(Chain) < UnsignedMod

\* Where the chain is with k messages to go of those that count the devices.
CountState(p, k) ==
    /\ k = 4 => p.tap = "RunTestIdle"
    /\ k = 3 => p.tap = "ShiftIR" /\ p.reg = CapturedIR
    /\ k = 2 => /\ p.tap = "ShiftIR" /\ Len(p.reg) = Len(CapturedIR)
                /\ \A j \in 2 .. Len(CapturedIR) : p.reg[j] = 1
    /\ k = 1 => p.tap = "ShiftDR" /\ p.reg = CapturedDR(AllBYPASS)

\* The same for those that read the identifiers.
ReadState(p, k) ==
    /\ k = 2 => p.tap = "RunTestIdle" /\ p.instr = AllIDCODE
    /\ k = 1 => p.tap = "ShiftDR" /\ p.reg = CapturedDR(AllIDCODE)

\* The messages that move the TAP, as TmsMessages.
LEMMA TmsOnes ==
    /\ TmsMessage(X(IdlePath, TRUE), \h7f, 8)
    /\ TmsMessage(X(<<\h03, \h03>>, TRUE), \h03, 4)
    /\ TmsMessage(X(<<\h02, \h01>>, TRUE), \h01, 3)
    /\ TmsMessage(X(Filler, TRUE), \h07, 5) /\ HighTdi(X(Filler, TRUE)) = 1
    /\ X(IdlePath, TRUE).cmd # CmdJtag + CmdTdiRO + CmdTdiWO
    /\ X(<<\h03, \h03>>, TRUE).cmd # CmdJtag + CmdTdiRO + CmdTdiWO
    /\ X(<<\h02, \h01>>, TRUE).cmd # CmdJtag + CmdTdiRO + CmdTdiWO
    /\ X(Filler, TRUE).cmd # CmdJtag + CmdTdiRO + CmdTdiWO
<1> DEFINE Other(m) == m.cmd # CmdJtag + CmdTdiRO + CmdTdiWO
<1>1. TmsMessage(X(<<7, 127>>, TRUE), 127, 8) /\ Other(X(<<7, 127>>, TRUE))
  <2>1. SaysBits(7, 127, 8)
    BY DEF SaysBits
  <2> QED BY <2>1, TwoBytes, Zenon
<1>2. TmsMessage(X(<<3, 3>>, TRUE), 3, 4) /\ Other(X(<<3, 3>>, TRUE))
  <2>1. SaysBits(3, 3, 4)
    BY DEF SaysBits
  <2> QED BY <2>1, TwoBytes, Zenon
<1>3. TmsMessage(X(<<2, 1>>, TRUE), 1, 3) /\ Other(X(<<2, 1>>, TRUE))
  <2>1. SaysBits(2, 1, 3)
    BY DEF SaysBits
  <2> QED BY <2>1, TwoBytes, Zenon
<1>4. TmsMessage(X(<<132, 7>>, TRUE), 7, 5) /\ Other(X(<<132, 7>>, TRUE))
  <2>1. SaysBits(132, 7, 5)
    BY DEF SaysBits
  <2> QED BY <2>1, TwoBytes, Zenon
<1>5. HighTdi(X(<<132, 7>>, TRUE)) = 1
  BY DEF HighTdi, X, TmsTdiHi
<1> QED BY <1>1, <1>2, <1>3, <1>4, <1>5, Zenon DEF IdlePath, Filler

\* Message by message the devices are counted.
LEMMA CountingSteps ==
    ASSUME NEW p \in LivePort, p.source = "jtag", Countable
    PROVE  /\ \A e \in Performed(p, X(IdlePath, TRUE)) : CountState(e.port, 4)
           /\ CountState(p, 4) =>
                \A e \in Performed(p, X(<<\h03, \h03>>, TRUE)) : CountState(e.port, 3)
           /\ CountState(p, 3) =>
                \A e \in Performed(p, X(<<\h07, \hff, \hff, \hff, \hff>>, FALSE)) :
                  CountState(e.port, 2)
           /\ CountState(p, 2) => \A e \in Performed(p, X(Filler, TRUE)) : CountState(e.port, 1)
           /\ CountState(p, 1) =>
                \A e \in Performed(p, X(<<\h07, \h00, \hff>>, FALSE)) :
                  ChainLength(e.reply) = Len(Chain)
<1>1. ASSUME NEW e \in Performed(p, X(IdlePath, TRUE)) PROVE CountState(e.port, 4)
  <2>1. e.port.tap = "RunTestIdle"
    BY TmsOnes, ToIdleResets, Zenon
  <2> QED BY <2>1 DEF CountState
<1>2. ASSUME CountState(p, 4), NEW e \in Performed(p, X(<<3, 3>>, TRUE))
      PROVE  CountState(e.port, 3)
  <2>1. p.tap \in Between
    BY <1>2 DEF CountState, Between
  <2>2. e.port.tap = "ShiftIR" /\ e.port.reg = CapturedIR
    BY <1>2, <2>1, TmsOnes, ToShiftIRCaptures, Zenon
  <2> QED BY <2>2 DEF CountState
<1>3. ASSUME CountState(p, 3), NEW e \in Performed(p, X(<<7, 255, 255, 255, 255>>, FALSE))
      PROVE  CountState(e.port, 2)
  <2>1. p.tap = "ShiftIR" /\ p.reg = CapturedIR
    BY <1>3 DEF CountState
  <2> DEFINE m == X(<<7, 255, 255, 255, 255>>, FALSE)
  <2>2. PICK tx \in Seq(0 .. 255) : FourOnes(tx) /\ ShiftMessage(m, tx)
    BY OnesMessage, Zenon
  <2>3. e \in Performed(p, m)
    BY <1>3
  <2> HIDE DEF m
  <2>4. Len(CapturedIR) <= 33 /\ p.tap \in Shifting
    BY <2>1 DEF Countable, Shifting
  <2>5. /\ e.port.tap = p.tap /\ Len(e.port.reg) = Len(CapturedIR)
        /\ \A j \in 2 .. Len(CapturedIR) : e.port.reg[j] = 1
    BY <2>1, <2>2, <2>3, <2>4, OnesFill, SMTT(60)
  <2> QED BY <2>1, <2>5 DEF CountState
<1>4. ASSUME CountState(p, 2), NEW e \in Performed(p, X(Filler, TRUE))
      PROVE  CountState(e.port, 1)
  <2>1. /\ p.tap = "ShiftIR" /\ Len(p.reg) = Len(CapturedIR)
        /\ \A j \in 2 .. Len(CapturedIR) : p.reg[j] = 1
    BY <1>4, Zenon DEF CountState
  <2>2. e.port.tap = "ShiftDR" /\ e.port.reg = CapturedDR(AllBYPASS)
    BY <1>4, <2>1, TmsOnes, OnesBypass, Zenon
  <2> QED BY <2>2 DEF CountState
<1>5. ASSUME CountState(p, 1), NEW e \in Performed(p, X(<<7, 0, 255>>, FALSE))
      PROVE  ChainLength(e.reply) = Len(Chain)
  <2>1. p.tap = "ShiftDR" /\ p.reg = CapturedDR(AllBYPASS)
    BY <1>5 DEF CountState
  <2> DEFINE m == X(<<7, 0, 255>>, FALSE)
  <2>2. PICK tx \in Seq(0 .. 255) : ZeroOnes(tx) /\ ShiftMessage(m, tx)
    BY ZerosMessage, Zenon
  <2>3. e \in Performed(p, m)
    BY <1>5
  <2> HIDE DEF m
  <2>4. PICK n \in 1 .. 8 : n = Len(Chain) /\ n < UnsignedMod
    <3>1. PICK k \in Nat \ {0} : k = Len(Chain)
      BY ChainLength1
    <3>2. k <= 8 /\ k < UnsignedMod
      BY <3>1, Zenon DEF Countable
    <3>3. k \in 1 .. 8
      BY <3>2
    <3> QED BY <3>1, <3>2, <3>3, Zenon
  <2>5. PICK tdo \in Seq(Bit) :
          /\ Len(tdo) = 16 /\ Packed(e.reply, tdo)
          /\ \A i \in 1 .. 16 : tdo[i] = IF i <= 8 + n THEN 0 ELSE 1
    <3>1. Len(Chain) <= 8
      BY Zenon DEF Countable
    <3> QED BY <2>1, <2>2, <2>3, <2>4, <3>1, BypassedBits, SMTT(60)
  <2>6. ChainLength(e.reply) = n
    BY <2>4, <2>5, ChainReply, Zenon
  <2> QED BY <2>4, <2>6
<1> QED BY <1>1, <1>2, <1>3, <1>4, <1>5, Zenon

\* Message by message the identifiers are read.
LEMMA ReadingSteps ==
    ASSUME NEW p \in LivePort, p.source = "jtag", Identifiable
    PROVE  /\ \A e \in Performed(p, X(IdlePath, TRUE)) : ReadState(e.port, 2)
           /\ ReadState(p, 2) =>
                \A e \in Performed(p, X(<<\h02, \h01>>, TRUE)) : ReadState(e.port, 1)
           /\ ReadState(p, 1) =>
                \A n \in 1 .. Len(Chain) :
                  \A e \in Performed(p, X(<<\h07>> \o [i \in 1 .. 4 * n |-> 0], FALSE)) :
                    IDs(e.reply) = [d \in 1 .. n |-> BytesOf(Chain[d].id)]
<1>1. ASSUME NEW e \in Performed(p, X(IdlePath, TRUE)) PROVE ReadState(e.port, 2)
  <2>1. e.port.tap = "RunTestIdle" /\ e.port.instr = AllIDCODE
    BY TmsOnes, ToIdleResets, Zenon
  <2> QED BY <2>1 DEF ReadState
<1>2. ASSUME ReadState(p, 2), NEW e \in Performed(p, X(<<2, 1>>, TRUE))
      PROVE  ReadState(e.port, 1)
  <2>1. p.tap \in Between /\ p.instr = AllIDCODE
    BY <1>2 DEF ReadState, Between
  <2>2. e.port.tap = "ShiftDR" /\ e.port.reg = CapturedDR(p.instr)
    BY <1>2, <2>1, TmsOnes, ToShiftDRCaptures, Zenon
  <2> QED BY <2>1, <2>2 DEF ReadState
<1>3. ASSUME ReadState(p, 1), NEW n \in 1 .. Len(Chain),
             NEW e \in Performed(p, X(<<\h07>> \o [i \in 1 .. 4 * n |-> 0], FALSE))
      PROVE  IDs(e.reply) = [d \in 1 .. n |-> BytesOf(Chain[d].id)]
  <2>1. p.tap = "ShiftDR" /\ p.reg = CapturedDR(AllIDCODE)
    BY <1>3 DEF ReadState
  <2> DEFINE m == X(<<\h07>> \o [i \in 1 .. 4 * n |-> 0], FALSE)
  <2>2. n \in Nat \ {0} /\ n <= Len(Chain)
    BY ChainLength1
  <2>3. PICK tx \in Seq(0 .. 255) : Len(tx) = 4 * n /\ ShiftMessage(m, tx)
    BY <2>2, IDsMessage, Zenon
  <2>4. e \in Performed(p, m)
    BY <1>3
  <2> HIDE DEF m
  <2>5. PICK tdo \in Seq(Bit) : IDBits(tdo, n) /\ Packed(e.reply, tdo)
    BY <2>1, <2>3, <2>4, IdentifierBits, SMTT(60)
  <2>7. n \in Nat
    BY <2>2
  <2> QED BY <2>2, <2>5, <2>7, IDsReply, Zenon
<1> QED BY <1>1, <1>2, <1>3, Zenon

-----------------------------------------------------------------------------
(* How far a call is. *)

\* The calls that count the devices, and those that read the identifiers.
Counts(c) == c.op = "countChainLength" \/ (c.op = "getIDs" /\ c.n = 0)
Reads(c) == c.op = "readIDs" \/ (c.op = "getIDs" /\ c.n > 0)

\* A count that goes on has the chain where its next message expects it; when it is over
\* the number is known, to getIDs too, if no answer was short.
CountUnderway ==
    status \in {"busy", "ok"} =>
      /\ status = "ok" => ~ (call.op = "getIDs" /\ call.n = 0)
      /\ start.source = "jtag" =>
           /\ status = "busy" /\ Counts(call) => CountState(port, Len(pending))
           /\ call.op = "readIDs" /\ whole => call.n = Len(Chain)
           /\ status = "ok" /\ whole /\ call.op = "countChainLength" => result = Len(Chain)

\* The same for the identifiers.
ReadsUnderway ==
    status \in {"busy", "ok"} =>
      /\ call.op = "getIDs" => call.n <= Len(Chain)
      /\ start.source = "jtag" =>
           /\ status = "busy" /\ Reads(call) => ReadState(port, Len(pending))
           /\ status = "ok" /\ whole /\ Reads(call) =>
                result = [d \in 1 .. call.n |-> BytesOf(Chain[d].id)]

\* The message at the head of what is left of a call.
LEMMA HeadOf ==
    ASSUME NEW c, NEW queue \in Seq(OkMsg), queue # <<>>, Behind(c, queue),
           NEW n \in Nat, n = Len(Program(c))
    PROVE  Len(queue) \in 1 .. n /\ Head(queue) = Program(c)[n - Len(queue) + 1]
<1>1. PICK l \in Nat \ {0} : l = Len(queue)
  OBVIOUS
<1>2. l <= n /\ \A i \in 1 .. l : queue[i] = Program(c)[n - l + i]
  BY <1>1, Zenon DEF Behind
<1>3. 1 \in 1 .. l /\ l \in 1 .. n
  BY <1>1, <1>2
<1>4. Head(queue) = queue[1]
  OBVIOUS
<1> QED BY <1>1, <1>2, <1>3, <1>4, Zenon

\* The messages of these calls.
LEMMA ChainPrograms ==
    ASSUME NEW c \in AnyCall
    PROVE  /\ Counts(c) => Program(c) = CountChain
           /\ Reads(c) => c.n \in Nat /\ Program(c) = GetIDs(c.n)
<1>1. ASSUME c.op = "countChainLength" PROVE Program(c) = CountChain
  <2>1. Plan(c) = CountChain /\ c.op # "readIDs"
    BY <1>1 DEF Plan
  <2> QED BY <2>1, Zenon DEF Program
<1>2. ASSUME c.op = "getIDs", c.n = 0 PROVE Program(c) = CountChain
  <2>1. Plan(c) = CountChain /\ c.op # "readIDs"
    BY <1>2 DEF Plan
  <2> QED BY <2>1, Zenon DEF Program
<1>3. ASSUME c.op = "getIDs", c.n > 0 PROVE c.n \in Nat /\ Program(c) = GetIDs(c.n)
  <2>1. c.n \in Nat
    BY <1>3 DEF AnyCall, FTCall
  <2>2. Plan(c) = GetIDs(c.n) /\ c.op # "readIDs"
    BY <1>3, <2>1 DEF Plan
  <2> QED BY <2>1, <2>2, Zenon DEF Program
<1>4. ASSUME c.op = "readIDs" PROVE c.n \in Nat /\ Program(c) = GetIDs(c.n)
  <2>1. c.n \in Nat
    BY <1>4 DEF AnyCall, FTCall
  <2> QED BY <1>4, <2>1, Zenon DEF Program
<1> QED BY <1>1, <1>2, <1>3, <1>4, Zenon DEF Counts, Reads

\* The message a count sends next.
LEMMA CountMessage ==
    ASSUME Sound, Underway, status = "busy", Counts(call)
    PROVE  /\ Len(pending) \in 1 .. 5
           /\ Len(pending) = 5 => Head(pending) = X(IdlePath, TRUE)
           /\ Len(pending) = 4 => Head(pending) = X(<<\h03, \h03>>, TRUE)
           /\ Len(pending) = 3 => Head(pending) = X(<<\h07, \hff, \hff, \hff, \hff>>, FALSE)
           /\ Len(pending) = 2 => Head(pending) = X(Filler, TRUE)
           /\ Len(pending) = 1 => Head(pending) = X(<<\h07, \h00, \hff>>, FALSE)
<1> DEFINE a == X(IdlePath, TRUE)
<1> DEFINE b == X(<<\h03, \h03>>, TRUE)
<1> DEFINE c == X(<<\h07, \hff, \hff, \hff, \hff>>, FALSE)
<1> DEFINE d == X(Filler, TRUE)
<1> DEFINE e == X(<<\h07, \h00, \hff>>, FALSE)
<1>1. CountChain = <<a, b, c, d, e>>
  BY Plans
<1> HIDE DEF a, b, c, d, e
<1>2. /\ Len(CountChain) = 5 /\ CountChain[1] = a /\ CountChain[2] = b /\ CountChain[3] = c
      /\ CountChain[4] = d /\ CountChain[5] = e
  BY <1>1
<1>3. pending \in Seq(OkMsg) /\ pending # <<>> /\ call \in AnyCall /\ Behind(call, pending)
  BY DEF Sound, Underway
<1>4. Program(call) = CountChain
  BY <1>3, ChainPrograms
<1>5. PICK k \in 1 .. 5 : k = Len(pending) /\ Head(pending) = CountChain[5 - k + 1]
  <2>1. 5 \in Nat /\ 5 = Len(Program(call))
    BY <1>2, <1>4
  <2>2. Len(pending) \in 1 .. 5 /\ Head(pending) = Program(call)[5 - Len(pending) + 1]
    BY <1>3, <2>1, HeadOf, Zenon
  <2> QED BY <1>4, <2>2, Zenon
<1>6. /\ k = 5 => Head(pending) = a
      /\ k = 4 => Head(pending) = b
      /\ k = 3 => Head(pending) = c
      /\ k = 2 => Head(pending) = d
      /\ k = 1 => Head(pending) = e
  <2>1. /\ k = 5 => 5 - k + 1 = 1
        /\ k = 4 => 5 - k + 1 = 2
        /\ k = 3 => 5 - k + 1 = 3
        /\ k = 2 => 5 - k + 1 = 4
        /\ k = 1 => 5 - k + 1 = 5
    OBVIOUS
  <2> QED BY <1>2, <1>5, <2>1, Zenon
<1>7. /\ Len(pending) \in 1 .. 5
      /\ Len(pending) = 5 => Head(pending) = a
      /\ Len(pending) = 4 => Head(pending) = b
      /\ Len(pending) = 3 => Head(pending) = c
      /\ Len(pending) = 2 => Head(pending) = d
      /\ Len(pending) = 1 => Head(pending) = e
  BY <1>5, <1>6, Zenon
<1> QED BY <1>7 DEF a, b, c, d, e

\* The message sent next of those that read the identifiers.
LEMMA ReadMessage ==
    ASSUME Sound, Underway, status = "busy", Reads(call)
    PROVE  /\ call.n \in Nat /\ Len(pending) \in 1 .. 3
           /\ Len(pending) = 3 => Head(pending) = X(IdlePath, TRUE)
           /\ Len(pending) = 2 => Head(pending) = X(<<\h02, \h01>>, TRUE)
           /\ Len(pending) = 1 =>
                Head(pending) = X(<<\h07>> \o [i \in 1 .. 4 * call.n |-> 0], FALSE)
<1>3. pending \in Seq(OkMsg) /\ pending # <<>> /\ call \in AnyCall /\ Behind(call, pending)
  BY DEF Sound, Underway
<1>4. PICK n \in Nat : n = call.n /\ Program(call) = GetIDs(n)
  BY <1>3, ChainPrograms, Zenon
<1> DEFINE a == X(IdlePath, TRUE)
<1> DEFINE b == X(<<\h02, \h01>>, TRUE)
<1> DEFINE c == X(<<\h07>> \o [i \in 1 .. 4 * n |-> 0], FALSE)
<1>1. GetIDs(n) = <<a, b, c>>
  BY Plans
<1>7. \A i \in Nat : i = call.n => c = X(<<\h07>> \o [j \in 1 .. 4 * i |-> 0], FALSE)
  BY <1>4, Zenon
<1> HIDE DEF a, b, c
<1>2. Len(GetIDs(n)) = 3 /\ GetIDs(n)[1] = a /\ GetIDs(n)[2] = b /\ GetIDs(n)[3] = c
  BY <1>1
<1>5. PICK k \in 1 .. 3 : k = Len(pending) /\ Head(pending) = GetIDs(n)[3 - k + 1]
  <2>1. 3 \in Nat /\ 3 = Len(Program(call))
    BY <1>2, <1>4
  <2>2. Len(pending) \in 1 .. 3 /\ Head(pending) = Program(call)[3 - Len(pending) + 1]
    BY <1>3, <2>1, HeadOf, Zenon
  <2> QED BY <1>4, <2>2, Zenon
<1>6. /\ k = 3 => Head(pending) = a
      /\ k = 2 => Head(pending) = b
      /\ k = 1 => Head(pending) = c
  <2>1. (k = 3 => 3 - k + 1 = 1) /\ (k = 2 => 3 - k + 1 = 2) /\ (k = 1 => 3 - k + 1 = 3)
    OBVIOUS
  <2> QED BY <1>2, <1>5, <2>1, Zenon
<1>8. /\ call.n \in Nat /\ Len(pending) \in 1 .. 3
      /\ Len(pending) = 3 => Head(pending) = a
      /\ Len(pending) = 2 => Head(pending) = b
      /\ Len(pending) = 1 => Head(pending) = c
  BY <1>4, <1>5, <1>6, Zenon
<1>9. c = X(<<\h07>> \o [j \in 1 .. 4 * call.n |-> 0], FALSE)
  BY <1>4, <1>7, Zenon
<1> QED BY <1>8, <1>9, Zenon DEF a, b

\* A message of a count does to the chain what the next one expects.
LEMMA CountEffect ==
    ASSUME Sound, Underway, Countable, status = "busy", Counts(call), start.source = "jtag",
           CountState(port, Len(pending)), NEW e \in Effects(Head(pending))
    PROVE  /\ Len(pending) > 1 => CountState(e.port, Len(pending) - 1)
           /\ ~ (Len(pending) > 1) => ChainLength(e.reply) = Len(Chain)
<1> DEFINE m == Head(pending)
<1>1. port \in LivePort /\ port.source = "jtag"
  BY DEF Sound
<1>2. Len(pending) \in 1 .. 5
  BY CountMessage, Zenon
<1>3. /\ Len(pending) = 5 => m = X(IdlePath, TRUE)
      /\ Len(pending) = 4 => m = X(<<\h03, \h03>>, TRUE)
      /\ Len(pending) = 3 => m = X(<<\h07, \hff, \hff, \hff, \hff>>, FALSE)
      /\ Len(pending) = 2 => m = X(Filler, TRUE)
      /\ Len(pending) = 1 => m = X(<<\h07, \h00, \hff>>, FALSE)
  BY CountMessage
<1> HIDE DEF m
<1>5. ASSUME m.cmd # CmdJtag + CmdTdiRO + CmdTdiWO PROVE e \in Performed(port, m)
  BY <1>5, Zenon DEF Effects, m
<1>6. CASE Len(pending) = 5
  <2>1. e \in Performed(port, X(IdlePath, TRUE))
    BY <1>3, <1>5, <1>6, TmsOnes, Zenon
  <2>2. CountState(e.port, 4)
    BY <1>1, <2>1, CountingSteps, Zenon
  <2> QED BY <1>2, <1>6, <2>2
<1>7. CASE Len(pending) = 4
  <2>1. e \in Performed(port, X(<<3, 3>>, TRUE))
    BY <1>3, <1>5, <1>7, TmsOnes, Zenon
  <2>2. CountState(e.port, 3)
    BY <1>1, <1>7, <2>1, CountingSteps, Zenon
  <2> QED BY <1>2, <1>7, <2>2
<1>8. CASE Len(pending) = 3
  <2>1. e \in Performed(port, X(<<7, 255, 255, 255, 255>>, FALSE))
    BY <1>3, <1>5, <1>8, OnesMessage, ZenonT(60)
  <2>2. CountState(e.port, 2)
    BY <1>1, <1>8, <2>1, CountingSteps, ZenonT(60)
  <2> QED BY <1>2, <1>8, <2>2
<1>9. CASE Len(pending) = 2
  <2>1. e \in Performed(port, X(Filler, TRUE))
    BY <1>3, <1>5, <1>9, TmsOnes, Zenon
  <2>2. CountState(e.port, 1)
    BY <1>1, <1>9, <2>1, CountingSteps, Zenon
  <2> QED BY <1>2, <1>9, <2>2
<1>10. CASE Len(pending) = 1
  <2>1. e \in Performed(port, X(<<7, 0, 255>>, FALSE))
    BY <1>3, <1>5, <1>10, ZerosMessage, ZenonT(60)
  <2>2. ChainLength(e.reply) = Len(Chain)
    BY <1>1, <1>10, <2>1, CountingSteps, ZenonT(60)
  <2> QED BY <1>2, <1>10, <2>2
<1> QED BY <1>2, <1>6, <1>7, <1>8, <1>9, <1>10

\* The same of those that read the identifiers.
LEMMA ReadEffect ==
    ASSUME Sound, Underway, Identifiable, status = "busy", Reads(call), start.source = "jtag",
           ReadState(port, Len(pending)), NEW e \in Effects(Head(pending))
    PROVE  /\ Len(pending) > 1 => ReadState(e.port, Len(pending) - 1)
           /\ ~ (Len(pending) > 1) /\ call.n \in 1 .. Len(Chain) =>
                IDs(e.reply) = [d \in 1 .. call.n |-> BytesOf(Chain[d].id)]
<1> DEFINE m == Head(pending)
<1>1. port \in LivePort /\ port.source = "jtag"
  BY DEF Sound
<1>2. PICK k \in 1 .. 3 : k = Len(pending)
  BY ReadMessage, Zenon
<1>3. PICK n \in Nat : n = call.n
  BY ReadMessage, Zenon
<1>4. /\ k = 3 => m = X(IdlePath, TRUE)
      /\ k = 2 => m = X(<<\h02, \h01>>, TRUE)
      /\ k = 1 => m = X(<<\h07>> \o [i \in 1 .. 4 * n |-> 0], FALSE)
  BY <1>2, <1>3, ReadMessage, Zenon
<1>5. ReadState(port, k)
  BY <1>2, Zenon
<1> HIDE DEF m
<1>6. ASSUME m.cmd # CmdJtag + CmdTdiRO + CmdTdiWO PROVE e \in Performed(port, m)
  BY <1>6, Zenon DEF Effects, m
<1>7. CASE k = 3
  <2>1. e \in Performed(port, X(IdlePath, TRUE))
    BY <1>4, <1>6, <1>7, TmsOnes, Zenon
  <2>2. ReadState(e.port, 2)
    BY <1>1, <2>1, ReadingSteps, Zenon
  <2> QED BY <1>2, <1>7, <2>2
<1>8. CASE k = 2
  <2>1. e \in Performed(port, X(<<2, 1>>, TRUE))
    BY <1>4, <1>6, <1>8, TmsOnes, Zenon
  <2>2. ReadState(e.port, 1)
    BY <1>1, <1>5, <1>8, <2>1, ReadingSteps, Zenon
  <2> QED BY <1>2, <1>8, <2>2
<1>9. CASE k = 1
  <2>1. ASSUME n \in 1 .. Len(Chain)
        PROVE  IDs(e.reply) = [d \in 1 .. n |-> BytesOf(Chain[d].id)]
    <3>1. n \in Nat \ {0}
      BY <2>1, ChainLength1
    <3> DEFINE w == X(<<\h07>> \o [i \in 1 .. 4 * n |-> 0], FALSE)
    <3>2. w.cmd # CmdJtag + CmdTdiRO + CmdTdiWO
      BY <3>1, IDsMessage, Zenon
    <3>3. m = w
      BY <1>4, <1>9, Zenon
    <3> HIDE DEF w
    <3>4. e \in Performed(port, w)
      BY <1>6, <3>2, <3>3, Zenon
    <3>5. ReadState(port, 1)
      BY <1>5, <1>9, Zenon
    <3> QED BY <1>1, <2>1, <3>4, <3>5, ReadingSteps, Zenon DEF w
  <2>2. ~ (Len(pending) > 1)
    BY <1>2, <1>9
  <2> QED BY <1>3, <2>1, <2>2, Zenon
<1> QED BY <1>7, <1>8, <1>9

-----------------------------------------------------------------------------
(* Every step leaves the calls under way. *)

\* What an exchange does, and what is read of it.
LEMMA ExchangeGoes ==
    ASSUME Sound, Exchange
    PROVE  \E e \in Effects(Head(pending)) : \E reply \in Seq(0 .. 255) :
             /\ Goes(e, reply) /\ status = "busy" /\ start' = start
             /\ LastOf(Append(answers, reply)) = reply
<1>1. status = "busy" /\ start' = start
  BY DEF Exchange
<1>2. PICK e \in Effects(Head(pending)) : \E reply \in Answered(e.reply) : Goes(e, reply)
  BY Zenon DEF Exchange, Goes
<1>3. PICK reply \in Answered(e.reply) : Goes(e, reply)
  BY <1>2
<1>4. Head(pending) \in OkMsg
  BY <1>1, ExchangeParts
<1>5. e.reply \in Seq(0 .. 255)
  BY <1>4, EffectsType DEF Sound
<1>6. reply \in Seq(0 .. 255)
  BY <1>5, AnsweredType
<1>7. LastOf(Append(answers, reply)) = reply
  <2>1. answers \in Seq(Seq(0 .. 255))
    BY DEF Sound
  <2> QED BY <1>6, <2>1 DEF LastOf
<1> QED BY <1>1, <1>3, <1>6, <1>7, Zenon

\* A call begins with all its messages to go.
LEMMA CallBegins ==
    ASSUME NEW c \in Calls, Call(c)
    PROVE  /\ call' = c /\ c \in FTCall /\ whole' = TRUE
           /\ Counts(c) => status' = "busy" /\ Len(pending') = 5
           /\ Reads(c) => status' = "busy" /\ Len(pending') = 3
<1>1. c \in FTCall /\ c \in AnyCall /\ call' = c /\ whole' = TRUE
  BY CallsAssumption DEF AnyCall, Call
<1>2. ASSUME Counts(c) \/ Reads(c)
      PROVE  ~ Mismatched(c) /\ Program(c) = Plan(c)
  <2>1. c.op # "readIDs"
    BY <1>1 DEF FTCall
  <2>2. c.op \in {"countChainLength", "getIDs"}
    BY <1>2, <2>1 DEF Counts, Reads
  <2> QED BY <2>1, <2>2 DEF Mismatched, Program
<1>3. ASSUME Counts(c) PROVE status' = "busy" /\ Len(pending') = 5
  <2>1. Plan(c) = CountChain
    BY <1>1, <1>2, <1>3, ChainPrograms, Zenon
  <2>2. Len(CountChain) = 5 /\ CountChain # <<>>
    BY Plans
  <2> QED BY <1>2, <1>3, <2>1, <2>2, Zenon DEF Call
<1>4. ASSUME Reads(c) PROVE status' = "busy" /\ Len(pending') = 3
  <2>1. PICK n \in Nat : Plan(c) = GetIDs(n)
    BY <1>1, <1>2, <1>4, ChainPrograms, Zenon
  <2>2. Len(GetIDs(n)) = 3
    BY GetIDsType
  <2>3. GetIDs(n) # <<>>
    BY <2>2
  <2> QED BY <1>2, <1>4, <2>1, <2>2, <2>3, Zenon DEF Call
<1> QED BY <1>1, <1>3, <1>4

\* So the chain may be anywhere.
LEMMA CallCounting == ASSUME NEW c \in Calls, Call(c) PROVE CountUnderway'
<1>1. /\ call' = c /\ c \in FTCall
      /\ Counts(c) => status' = "busy" /\ Len(pending') = 5
  BY CallBegins, Zenon
<1>2. c.op # "readIDs"
  BY <1>1 DEF FTCall
<1>3. CountState(port', 5)
  BY DEF CountState
<1>4. status' = "ok" => ~ Counts(c)
  BY <1>1
<1> QED BY <1>1, <1>2, <1>3, <1>4, Zenon DEF CountUnderway, Counts

\* Nor is anything known yet of the identifiers.
LEMMA CallReading ==
    ASSUME \A c \in Calls : c.op = "getIDs" => c.n <= Len(Chain), NEW c \in Calls, Call(c)
    PROVE  ReadsUnderway'
<1>1. /\ call' = c /\ c \in FTCall
      /\ Reads(c) => status' = "busy" /\ Len(pending') = 3
  BY CallBegins, Zenon
<1>3. ReadState(port', 3)
  BY DEF ReadState
<1>4. status' = "ok" => ~ Reads(c)
  BY <1>1
<1> QED BY <1>1, <1>3, <1>4, Zenon DEF ReadsUnderway

\* A message of a count brings it on, the last one brings the number.
LEMMA ExchangeCounting ==
    ASSUME Sound, Underway, Countable, CountUnderway, Exchange
    PROVE  CountUnderway'
<1>1. PICK e \in Effects(Head(pending)), reply \in Seq(0 .. 255) :
        /\ Goes(e, reply) /\ status = "busy" /\ start' = start
        /\ LastOf(Append(answers, reply)) = reply
  BY ExchangeGoes, Zenon
<1>2. port' = e.port /\ (whole' => whole /\ reply = e.reply)
  BY <1>1, Zenon DEF Goes
<1>3. ASSUME start.source = "jtag"
      PROVE  /\ Counts(call) /\ Len(pending) > 1 => CountState(e.port, Len(pending) - 1)
             /\ Counts(call) /\ ~ (Len(pending) > 1) => ChainLength(e.reply) = Len(Chain)
             /\ call.op = "readIDs" /\ whole => call.n = Len(Chain)
  <2>1. /\ Counts(call) => CountState(port, Len(pending))
        /\ call.op = "readIDs" /\ whole => call.n = Len(Chain)
    BY <1>1, <1>3, Zenon DEF CountUnderway
  <2> QED BY <1>1, <1>3, <2>1, CountEffect, Zenon
<1>4. CASE Len(pending) > 1
  <2>1. pending' = Tail(pending) /\ call' = call /\ status' = "busy"
    BY <1>1, <1>4, Zenon DEF Goes
  <2>2. Len(pending') = Len(pending) - 1
    BY <1>1, <2>1, ExchangeParts, Zenon
  <2>3. status' # "ok"
    BY <2>1
  <2> QED BY <1>1, <1>2, <1>3, <1>4, <2>1, <2>2, <2>3, Zenon DEF CountUnderway
<1>5. CASE ~ (Len(pending) > 1) /\ call.op = "getIDs" /\ call.n = 0
  <2>1. call' = [op |-> "readIDs", n |-> ChainLength(reply)] /\ status' \in {"error", "busy"}
    BY <1>1, <1>5 DEF Goes
  <2>2. call'.op = "readIDs" /\ call'.n = ChainLength(reply) /\ status' # "ok"
    BY <2>1
  <2>3. ~ Counts(call')
    BY <2>2 DEF Counts
  <2>4. Counts(call)
    BY <1>5 DEF Counts
  <2>5. Counts(call)' <=> Counts(call')
    BY DEF Counts
  <2> QED BY <1>1, <1>2, <1>3, <1>5, <2>2, <2>3, <2>4, <2>5, Zenon DEF CountUnderway
<1>6. CASE ~ (Len(pending) > 1) /\ ~ (call.op = "getIDs" /\ call.n = 0)
  <2>1. call' = call /\ status' = "ok" /\ result' = Returned(call, Append(answers, reply))
    BY <1>1, <1>6, Zenon DEF Goes
  <2>2. status' # "busy"
    BY <2>1
  <2>3. ASSUME call.op = "countChainLength" PROVE result' = ChainLength(reply) /\ Counts(call)
    <3>1. Returned(call, Append(answers, reply)) = ChainLength(LastOf(Append(answers, reply)))
      BY <2>3 DEF Returned
    <3> QED BY <1>1, <2>1, <2>3, <3>1, Zenon DEF Counts
  <2> QED BY <1>1, <1>2, <1>3, <1>6, <2>1, <2>2, <2>3, Zenon DEF CountUnderway
<1> QED BY <1>4, <1>5, <1>6

\* The same of those that read the identifiers.
LEMMA ExchangeReading ==
    ASSUME Sound, Underway, Identifiable, CountUnderway, ReadsUnderway, Exchange
    PROVE  ReadsUnderway'
<1>1. PICK e \in Effects(Head(pending)), reply \in Seq(0 .. 255) :
        /\ Goes(e, reply) /\ status = "busy" /\ start' = start
        /\ LastOf(Append(answers, reply)) = reply
  BY ExchangeGoes, Zenon
<1>2. port' = e.port /\ (whole' => whole /\ reply = e.reply)
  BY <1>1, Zenon DEF Goes
<1>7. call.op = "getIDs" => call.n <= Len(Chain)
  BY <1>1, Zenon DEF ReadsUnderway
<1>8. ASSUME start.source = "jtag", Reads(call), whole PROVE call.n \in 1 .. Len(Chain)
  <2>1. PICK l \in Nat \ {0} : l = Len(Chain)
    BY ChainLength1
  <2>2. CASE call.op = "readIDs"
    <3>1. call.n = l
      BY <1>1, <1>8, <2>1, <2>2, Zenon DEF CountUnderway
    <3>2. l \in 1 .. l
      BY <2>1
    <3> QED BY <2>1, <3>1, <3>2
  <2>3. CASE call.op = "getIDs" /\ call.n > 0
    <3>1. PICK n \in Nat : n = call.n
      BY <1>1, <1>8, ReadMessage, Zenon
    <3>2. n > 0 /\ n <= l
      BY <1>7, <2>1, <2>3, <3>1, Zenon
    <3>3. n \in 1 .. l
      BY <3>1, <3>2
    <3> QED BY <2>1, <3>1, <3>3, Zenon
  <2> QED BY <1>8, <2>2, <2>3 DEF Reads
<1>3. ASSUME start.source = "jtag", Reads(call)
      PROVE  /\ Len(pending) > 1 => ReadState(e.port, Len(pending) - 1)
             /\ ~ (Len(pending) > 1) /\ whole =>
                  IDs(e.reply) = [d \in 1 .. call.n |-> BytesOf(Chain[d].id)]
  <2>1. ReadState(port, Len(pending))
    BY <1>1, <1>3, Zenon DEF ReadsUnderway
  <2>2. /\ Len(pending) > 1 => ReadState(e.port, Len(pending) - 1)
        /\ ~ (Len(pending) > 1) /\ call.n \in 1 .. Len(Chain) =>
             IDs(e.reply) = [d \in 1 .. call.n |-> BytesOf(Chain[d].id)]
    BY <1>1, <1>3, <2>1, ReadEffect, Zenon
  <2> QED BY <1>3, <1>8, <2>2, Zenon
<1>4. CASE Len(pending) > 1
  <2>1. pending' = Tail(pending) /\ call' = call /\ status' = "busy"
    BY <1>1, <1>4, Zenon DEF Goes
  <2>2. Len(pending') = Len(pending) - 1
    BY <1>1, <2>1, ExchangeParts, Zenon
  <2>3. status' # "ok"
    BY <2>1
  <2> QED BY <1>1, <1>2, <1>3, <1>4, <1>7, <2>1, <2>2, <2>3, Zenon DEF ReadsUnderway
<1>5. CASE ~ (Len(pending) > 1) /\ call.op = "getIDs" /\ call.n = 0
  <2>1. PICK n \in Nat : n = ChainLength(reply)
    BY <1>1, ChainLengthType
  <2>2. /\ call' = [op |-> "readIDs", n |-> n]
        /\ status' = "busy" => pending' = GetIDs(n)
        /\ status' # "ok"
    BY <1>1, <1>5, <2>1 DEF Goes
  <2>3. call'.op = "readIDs" /\ call'.op # "getIDs"
    BY <2>2
  <2>4. status' = "busy" => Len(pending') = 3
    BY <2>2, GetIDsType, Zenon
  <2>5. ReadState(port', 3)
    BY DEF ReadState
  <2> QED BY <2>2, <2>3, <2>4, <2>5, Zenon DEF ReadsUnderway
<1>6. CASE ~ (Len(pending) > 1) /\ ~ (call.op = "getIDs" /\ call.n = 0)
  <2>1. call' = call /\ status' = "ok" /\ result' = Returned(call, Append(answers, reply))
    BY <1>1, <1>6, Zenon DEF Goes
  <2>2. status' # "busy"
    BY <2>1
  <2>3. ASSUME Reads(call) PROVE result' = IDs(reply)
    <3>1. call.op \in {"getIDs", "readIDs"} /\ call.op # "countChainLength"
      BY <2>3 DEF Reads
    <3>2. Returned(call, Append(answers, reply)) = IDs(LastOf(Append(answers, reply)))
      BY <3>1 DEF Returned
    <3> QED BY <1>1, <2>1, <3>2, Zenon
  <2> QED BY <1>1, <1>2, <1>3, <1>6, <1>7, <2>1, <2>2, <2>3, Zenon DEF ReadsUnderway
<1> QED BY <1>4, <1>5, <1>6

\* No step takes a count off its way.
LEMMA NextCounting ==
    Sound /\ Underway /\ Countable /\ CountUnderway /\ [Next]_vars => CountUnderway'
<1> SUFFICES ASSUME Sound, Underway, Countable, CountUnderway, [Next]_vars
             PROVE  CountUnderway'
  OBVIOUS
<1>1. CASE \E c \in Calls : Call(c)
  BY <1>1, CallCounting
<1>2. CASE Exchange
  BY <1>2, ExchangeCounting
<1>3. CASE Fail
  <2>1. status' = "error"
    BY <1>3 DEF Fail
  <2> QED BY <2>1 DEF CountUnderway
<1>4. CASE \E scratch \in 0 .. 3 : SelectPins(scratch)
  <2>1. status' = "idle"
    BY <1>4 DEF SelectPins
  <2> QED BY <2>1 DEF CountUnderway
<1>5. CASE UNCHANGED vars
  BY <1>5 DEF vars, CountUnderway, Counts
<1> QED BY <1>1, <1>2, <1>3, <1>4, <1>5 DEF Next

\* No step takes a call that reads the identifiers off its way.
LEMMA NextReading ==
    ASSUME \A c \in Calls : c.op = "getIDs" => c.n <= Len(Chain)
    PROVE  Sound /\ Underway /\ Identifiable /\ CountUnderway /\ ReadsUnderway /\ [Next]_vars
             => ReadsUnderway'
<1> SUFFICES ASSUME Sound, Underway, Identifiable, CountUnderway, ReadsUnderway, [Next]_vars
             PROVE  ReadsUnderway'
  OBVIOUS
<1>1. CASE \E c \in Calls : Call(c)
  BY <1>1, CallReading
<1>2. CASE Exchange
  BY <1>2, ExchangeReading
<1>3. CASE Fail
  <2>1. status' = "error"
    BY <1>3 DEF Fail
  <2> QED BY <2>1 DEF ReadsUnderway
<1>4. CASE \E scratch \in 0 .. 3 : SelectPins(scratch)
  <2>1. status' = "idle"
    BY <1>4 DEF SelectPins
  <2> QED BY <2>1 DEF ReadsUnderway
<1>5. CASE UNCHANGED vars
  BY <1>5 DEF vars, ReadsUnderway, Reads
<1> QED BY <1>1, <1>2, <1>3, <1>4, <1>5 DEF Next

\* countChainLength returns the number of devices, whatever they were used for before and
\* whatever failed, on every chain of no more than eight devices whose instruction
\* registers have no more than 33 bits, the number the ones it shifts can fill (FTEmul.cpp,
\* countChainLength), if none of its answers was short.
THEOREM DevicesAreCounted ==
    ASSUME Countable
    PROVE  Spec => []CountsDevices
<1>1. Init => Sound /\ Underway /\ CountUnderway
  BY InitSound, InitUnderway DEF Init, CountUnderway
<1>2. Sound /\ Underway /\ CountUnderway /\ [Next]_vars
        => (Sound /\ Underway /\ CountUnderway)'
  BY NextSound, NextUnderway, NextCounting
<1>3. CountUnderway => CountsDevices
  BY DEF CountUnderway, CountsDevices, Succeeded, Returns
<1> QED BY <1>1, <1>2, <1>3, PTL DEF Spec

\* What getIDs counts when nobody tells it is the number of devices.
CountsIDs == status \in {"busy", "ok"} /\ start.source = "jtag" /\ call.op = "readIDs" /\ whole =>
    call.n = Len(Chain)

\* getIDs returns the identifiers, each in its device's place, on every chain that can be
\* counted and whose devices have one: of as many as it was told, of all if it was told
\* none (FTEmul.cpp, getIDs).
THEOREM IDsAreFound ==
    ASSUME Countable, Identifiable, \A c \in Calls : c.op = "getIDs" => c.n <= Len(Chain)
    PROVE  Spec => [](FindsIDs /\ CountsIDs)
<1>1. Init => Sound /\ Underway /\ CountUnderway /\ ReadsUnderway
  BY InitSound, InitUnderway DEF Init, CountUnderway, ReadsUnderway
<1>2. Sound /\ Underway /\ CountUnderway /\ ReadsUnderway /\ [Next]_vars
        => (Sound /\ Underway /\ CountUnderway /\ ReadsUnderway)'
  BY NextSound, NextUnderway, NextCounting, NextReading
<1>3. Sound /\ CountUnderway /\ ReadsUnderway => FindsIDs /\ CountsIDs
  <2> SUFFICES ASSUME Sound, CountUnderway, ReadsUnderway PROVE FindsIDs /\ CountsIDs
    OBVIOUS
  <2>1. CountsIDs
    BY Zenon DEF CountUnderway, CountsIDs
  <2>2. ASSUME Succeeded({"getIDs", "readIDs"})
        PROVE  result = [d \in 1 .. call.n |-> BytesOf(Chain[d].id)]
    <3>1. status = "ok" /\ start.source = "jtag" /\ whole /\ call.op \in {"getIDs", "readIDs"}
      BY <2>2 DEF Succeeded, Returns
    <3>2. Reads(call)
      <4>1. CASE call.op = "readIDs"
        BY <4>1 DEF Reads
      <4>2. CASE call.op = "getIDs"
        <5>1. call.n # 0
          BY <3>1, <4>2 DEF CountUnderway
        <5>2. call.n \in Nat
          <6>1. call \in AnyCall
            BY <4>2 DEF Sound
          <6> QED BY <4>2, <6>1 DEF AnyCall, FTCall
        <5> QED BY <4>2, <5>1, <5>2 DEF Reads
      <4> QED BY <3>1, <4>1, <4>2
    <3> QED BY <3>1, <3>2, Zenon DEF ReadsUnderway
  <2> QED BY <2>1, <2>2, Zenon DEF FindsIDs
<1> QED BY <1>1, <1>2, <1>3, PTL DEF Spec

-----------------------------------------------------------------------------
(* What play's own sequence of pulses does. *)

\* What the first device captures as its identifier is in front of all others.
LEMMA FirstCaptured ==
    ASSUME Len(Chain[1].id) = 32
    PROVE  LET reg == CapturedDR(AllIDCODE) IN
           Len(reg) >= 32 /\ \A i \in 1 .. 32 : reg[i] = Chain[1].id[i]
<1> DEFINE q == [d \in Devices |-> DataOf(d, AllIDCODE[d])]
<1>1. PICK l \in Nat \ {0} : l = Len(Chain) /\ Devices = 1 .. l
  BY ChainLength1
<1>2. ASSUME NEW d \in Devices PROVE DataOf(d, AllIDCODE[d]) \in Seq(Bit)
  <2>1. Chain[d].id \in Seq(Bit)
    BY DeviceType
  <2>2. <<1, 0>> \in Seq(Bit) /\ <<0>> \in Seq(Bit)
    BY DEF Bit
  <2> QED BY <2>1, <2>2 DEF DataOf
<1>3. 1 \in Devices
  BY <1>1
<1>4. DataOf(1, AllIDCODE[1]) = Chain[1].id /\ Chain[1].id \in Seq(Bit)
  <2>1. Chain[1].id \in Seq(Bit)
    BY <1>3, DeviceType
  <2>2. Chain[1].id # <<>>
    <3>1. Len(<<>>) # 32
      OBVIOUS
    <3> QED BY <3>1, Zenon
  <2>3. AllIDCODE[1] = "IDCODE"
    BY <1>3 DEF AllIDCODE
  <2> QED BY <2>1, <2>2, <2>3 DEF DataOf
<1>5. q \in Seq(Seq(Bit)) /\ Len(q) = l /\ q[1] = Chain[1].id
  <2> HIDE DEF Devices
  <2>1. \A d \in 1 .. l : DataOf(d, AllIDCODE[d]) \in Seq(Bit)
    BY <1>1, <1>2, Zenon
  <2>2. q = [d \in 1 .. l |-> DataOf(d, AllIDCODE[d])]
    BY <1>1, Zenon
  <2> QED BY <1>4, <2>1, <2>2
<1>6. CapturedDR(AllIDCODE) = FlattenSeq(q)
  BY Zenon DEF CapturedDR
<1> HIDE DEF q
<1>7. q # <<>> /\ Head(q) = q[1] /\ Tail(q) \in Seq(Seq(Bit))
  BY <1>1, <1>5
<1>8. FlattenSeq(q) = Chain[1].id \o FlattenSeq(Tail(q)) /\ FlattenSeq(Tail(q)) \in Seq(Bit)
  BY <1>5, <1>7, FlattenTail, FlattenType
<1>9. PICK a \in Seq(Bit), b \in Seq(Bit) :
        a = Chain[1].id /\ Len(a) = 32 /\ FlattenSeq(q) = a \o b
  BY <1>4, <1>8, Zenon
<1>10. /\ Len(a \o b) >= 32 /\ \A i \in 1 .. 32 : (a \o b)[i] = a[i]
  <2>1. PICK m \in Nat : m = Len(b)
    OBVIOUS
  <2>2. Len(a \o b) = 32 + m /\ \A i \in 1 .. 32 : (a \o b)[i] = a[i]
    <3>1. 32 \in Nat /\ 32 = Len(a)
      BY <1>9
    <3>2. Glue(a \o b, a, b, 32, m)
      BY <2>1, <3>1, ConcatGlue, Zenon
    <3> QED BY <3>2, Zenon DEF Glue
  <2>3. 32 + m >= 32
    BY <2>1
  <2> QED BY <2>2, <2>3, Zenon
<1>11. /\ Len(FlattenSeq(q)) >= 32
       /\ \A i \in 1 .. 32 : FlattenSeq(q)[i] = Chain[1].id[i]
  BY <1>9, <1>10, Zenon
<1> QED BY <1>6, <1>11, Zenon

\* TMS of the pulses of play: six ones, to run-test-idle, to Shift-DR, 32 bits, the last
\* one with TMS.
LEMMA PlayTms ==
    LET bits == PulsesFor(PlaySequence) IN
    /\ PlaySequence \in Seq(0 .. 255) /\ Len(PlaySequence) = 44
    /\ bits \in Seq(PulseBit) /\ Len(bits) = 44
    /\ \A i \in 1 .. 6 : bits[i].tms = 1
    /\ bits[7].tms = 0 /\ bits[8].tms = 1
    /\ \A i \in 9 .. 41 : bits[i].tms = 0
<1> DEFINE head == <<1, 1, 1, 1, 1, 1, 0, 1, 0, 0>>
<1> DEFINE zeros == [i \in 1 .. 31 |-> 0]
<1> DEFINE end == <<1, 1, 0>>
<1>1. /\ head \in Seq(0 .. 255) /\ 10 = Len(head)
      /\ zeros \in Seq(0 .. 255) /\ 31 = Len(zeros)
      /\ end \in Seq(0 .. 255) /\ 3 = Len(end)
  OBVIOUS
<1>2. /\ \A i \in 1 .. 6 : head[i] = 1
      /\ head[7] = 0 /\ head[8] = 1 /\ head[9] = 0 /\ head[10] = 0
      /\ \A i \in 1 .. 31 : zeros[i] = 0
  OBVIOUS
<1>3. PlaySequence = head \o zeros \o end
  BY Zenon DEF PlaySequence
<1> HIDE DEF head, zeros, end
<1>4. PICK both \in Seq(0 .. 255) : both = head \o zeros /\ 41 = Len(both)
        /\ (\A i \in 1 .. 10 : both[i] = head[i]) /\ \A i \in 1 .. 31 : both[10 + i] = zeros[i]
  <2>1. 10 + 31 = 41 /\ 10 \in Nat /\ 31 \in Nat
    OBVIOUS
  <2>2. Glue(head \o zeros, head, zeros, 10, 31)
    BY <1>1, <2>1, ConcatGlue, ZenonT(60)
  <2>3. head \o zeros \in Seq(0 .. 255)
    BY <1>1
  <2> QED BY <2>1, <2>2, <2>3, Zenon DEF Glue
<1>5. /\ PlaySequence \in Seq(0 .. 255) /\ 44 = Len(PlaySequence)
      /\ \A i \in 1 .. 41 : PlaySequence[i] = both[i]
  <2>1. 41 + 3 = 44 /\ PlaySequence = both \o end
    <3>1. 41 + 3 = 44
      OBVIOUS
    <3> QED BY <1>3, <1>4, <3>1, Zenon
  <2>2. Glue(both \o end, both, end, 41, 3)
    <3>1. 41 \in Nat /\ 3 \in Nat
      OBVIOUS
    <3> QED BY <1>1, <1>4, <3>1, ConcatGlue, Zenon
  <2>3. both \o end \in Seq(0 .. 255)
    BY <1>1
  <2> QED BY <2>1, <2>2, <2>3, Zenon DEF Glue
<1>6. /\ \A i \in 1 .. 6 : PlaySequence[i] = 1
      /\ PlaySequence[7] = 0 /\ PlaySequence[8] = 1
      /\ \A i \in 9 .. 41 : PlaySequence[i] = 0
  <2>1. \A i \in 1 .. 10 : i \in 1 .. 41
    OBVIOUS
  <2>2. \A i \in 1 .. 10 : PlaySequence[i] = head[i]
    BY <1>4, <1>5, <2>1, Zenon
  <2>3. ASSUME NEW i \in 11 .. 41 PROVE PlaySequence[i] = 0
    <3>1. PICK j \in 1 .. 31 : i = 10 + j
      <4>1. i - 10 \in 1 .. 31 /\ i = 10 + (i - 10)
        OBVIOUS
      <4> QED BY <4>1
    <3>2. i \in 1 .. 41
      OBVIOUS
    <3> QED BY <1>2, <1>4, <1>5, <3>1, <3>2, Zenon
  <2>4. \A i \in 9 .. 41 : i = 9 \/ i = 10 \/ i \in 11 .. 41
    OBVIOUS
  <2>5. /\ \A i \in 1 .. 6 : i \in 1 .. 10
        /\ 7 \in 1 .. 10 /\ 8 \in 1 .. 10 /\ 9 \in 1 .. 10 /\ 10 \in 1 .. 10
    OBVIOUS
  <2> QED BY <1>2, <2>2, <2>3, <2>4, <2>5, ZenonT(60)
<1>7. BitOf(1, 0) = 1 /\ BitOf(0, 0) = 0
  BY Powers DEF BitOf
<1> DEFINE bits == PulsesFor(PlaySequence)
<1>8. /\ bits \in Seq(PulseBit) /\ Len(bits) = 44
      /\ \A i \in 1 .. 44 : bits[i] = [tms |-> BitOf(PlaySequence[i], 0), tdi |-> BitOf(PlaySequence[i], 1)]
  <2>1. 44 \in Nat
    OBVIOUS
  <2> QED BY <1>5, <2>1, PulsesForType, ZenonT(60)
<1> HIDE DEF bits
<1>9. \A i \in 1 .. 44 : bits[i].tms = BitOf(PlaySequence[i], 0)
  <2> TAKE i \in 1 .. 44
  <2>1. PICK x, y : x = BitOf(PlaySequence[i], 0) /\ bits[i] = [tms |-> x, tdi |-> y]
    BY <1>8, ZenonT(60)
  <2>2. bits[i].tms = x
    BY <2>1
  <2> QED BY <2>1, <2>2, Zenon
<1>10. /\ \A i \in 1 .. 6 : i \in 1 .. 44
       /\ 7 \in 1 .. 44 /\ 8 \in 1 .. 44 /\ \A i \in 9 .. 41 : i \in 1 .. 44
  OBVIOUS
<1>11. /\ \A i \in 1 .. 6 : bits[i].tms = 1
       /\ bits[7].tms = 0 /\ bits[8].tms = 1
       /\ \A i \in 9 .. 41 : bits[i].tms = 0
  BY <1>6, <1>7, <1>9, <1>10, ZenonT(60)
<1>12. Len(PlaySequence) = 44
  BY <1>5
<1> QED BY <1>5, <1>8, <1>11, <1>12, Zenon DEF bits

\* From run to run the port moves and one bit more is out.
LEMMA RunsMove ==
    ASSUME NEW p \in LivePort, NEW n \in Nat, NEW bits \in Seq(PulseBit), n = Len(bits),
           NEW runs \in [0 .. n -> RunType], Runs(runs, p, bits)
    PROVE  /\ \A i \in 1 .. n :
                Moved(runs[i - 1].port, runs[i].port, bits[i].tms, bits[i].tdi)
           /\ \A i \in 0 .. n : Len(runs[i].tdo) = i
<1>1. \A i \in 1 .. n : bits[i] \in PulseBit /\ i - 1 \in 0 .. n /\ i \in 0 .. n
  BY ElementOfSeq
<1>2. runs[0] = FirstRun(p) /\ \A i \in 1 .. n : runs[i] = Pulse(runs[i - 1], bits[i])
  BY Zenon DEF Runs
<1>3. ASSUME NEW i \in 1 .. n
      PROVE  /\ Moved(runs[i - 1].port, runs[i].port, bits[i].tms, bits[i].tdi)
             /\ Len(runs[i].tdo) = Len(runs[i - 1].tdo) + 1
  <2>1. PICK run \in RunType, bit \in PulseBit : run = runs[i - 1] /\ bit = bits[i]
    BY <1>1
  <2>2. runs[i] = Pulse(run, bit)
    BY <1>2, <2>1, Zenon
  <2>3. run.port \in LivePort /\ run.tdo \in Seq(Bit) /\ bit.tms \in Bit /\ bit.tdi \in Bit
    BY DEF RunType, PulseBit
  <2>4. /\ Pulse(run, bit).port = Clock(run.port, bit.tms, bit.tdi)
        /\ Pulse(run, bit).tdo = Append(run.tdo, TdoOf(run.port))
    BY PulseType, Zenon
  <2>5. Moved(run.port, Clock(run.port, bit.tms, bit.tdi), bit.tms, bit.tdi)
    BY <2>3, ClockMoves
  <2>6. Len(Append(run.tdo, TdoOf(run.port))) = Len(run.tdo) + 1
    BY <2>3
  <2> QED BY <2>1, <2>2, <2>4, <2>5, <2>6, Zenon
<1> DEFINE G == {i \in 0 .. n : Len(runs[i].tdo) = i}
<1>4. 0 \in G
  <2>1. Len(FirstRun(p).tdo) = 0 /\ 0 \in 0 .. n
    BY DEF FirstRun
  <2> QED BY <1>2, <2>1, Zenon
<1>5. ASSUME NEW i \in 1 .. n, i - 1 \in G PROVE i \in G
  <2>1. Len(runs[i - 1].tdo) = i - 1 /\ i \in 0 .. n /\ (i - 1) + 1 = i
    BY <1>5
  <2> QED BY <1>3, <2>1, Zenon
<1> HIDE DEF G
<1>6. 0 .. n \subseteq G
  BY <1>4, <1>5, Reaches
<1> QED BY <1>3, <1>6, Zenon DEF G

\* What comes out stays where it is.
LEMMA PulseKeeps ==
    ASSUME NEW run \in RunType, NEW bit \in PulseBit, NEW k \in 1 .. Len(run.tdo)
    PROVE  Pulse(run, bit).tdo[k] = run.tdo[k]
<1>1. run.port \in LivePort /\ run.tdo \in Seq(Bit)
  BY DEF RunType
<1>2. Pulse(run, bit).tdo = Append(run.tdo, TdoOf(run.port))
  BY PulseType, Zenon
<1>3. Append(run.tdo, TdoOf(run.port))[k] = run.tdo[k]
  BY <1>1
<1> QED BY <1>2, <1>3, Zenon

\* The ports between the pulses of play.
PlayPath(ports, tdi) ==
    /\ \A i \in 1 .. 6 : Moved(ports[i - 1], ports[i], 1, tdi[i])
    /\ Moved(ports[6], ports[7], 0, tdi[7])
    /\ Moved(ports[7], ports[8], 1, tdi[8])
    /\ \A i \in 9 .. 41 : Moved(ports[i - 1], ports[i], 0, tdi[i])

\* In reset with TMS high it stays, from run-test-idle it goes on.
LEMMA PlayHigh ==
    ASSUME NEW p, NEW q, NEW tdi, Moved(p, q, 1, tdi)
    PROVE  /\ p.tap = "TestLogicReset" => q.tap = "TestLogicReset" /\ q.instr = AllIDCODE
           /\ p.tap = "RunTestIdle" => q.tap = "SelectDR" /\ q.instr = p.instr
<1>1. /\ TapPaths["TestLogicReset"][1 + 1] = "TestLogicReset"
      /\ TapPaths["RunTestIdle"][1 + 1] = "SelectDR"
      /\ "SelectDR" # "TestLogicReset" /\ "SelectDR" # "UpdateIR"
  BY DEF TapPaths
<1>2. /\ q.tap = TapPaths[p.tap][1 + 1]
      /\ q.instr = IF TapPaths[p.tap][1 + 1] = "TestLogicReset" THEN AllIDCODE
                   ELSE IF TapPaths[p.tap][1 + 1] = "UpdateIR" THEN Decoded(p.reg) ELSE p.instr
  BY Zenon DEF Moved
<1>3. ASSUME p.tap = "TestLogicReset" PROVE q.tap = "TestLogicReset" /\ q.instr = AllIDCODE
  BY <1>1, <1>2, <1>3, Zenon
<1>4. ASSUME p.tap = "RunTestIdle" PROVE q.tap = "SelectDR" /\ q.instr = p.instr
  BY <1>1, <1>2, <1>4, Zenon
<1> QED BY <1>3, <1>4, Zenon

\* The first ten pulses lead to Shift-DR, with the identifiers in the register, and 31
\* more stay there.
LEMMA PlayLeads ==
    ASSUME NEW ports \in [0 .. 44 -> LivePort], NEW tdi, PlayPath(ports, tdi)
    PROVE  /\ ports[10].reg = CapturedDR(AllIDCODE)
           /\ \A i \in 10 .. 41 : ports[i].tap = "ShiftDR"
<1>1. \A i \in 1 .. 6 : Moved(ports[i - 1], ports[i], 1, tdi[i])
  BY Zenon DEF PlayPath
<1> DEFINE taps == [i \in 0 .. 6 |-> ports[i].tap]
<1>2. taps[5] = "TestLogicReset"
  <2>1. taps \in [0 .. 6 -> TapStates]
    <3>1. \A q \in LivePort : q.tap \in TapStates
      BY DEF LivePort, Port
    <3> QED BY <3>1
  <2>2. ASSUME NEW i \in 1 .. 5 PROVE taps[i] = TapPaths[taps[i - 1]][2]
    <3>1. i \in 1 .. 6 /\ i \in 0 .. 6 /\ i - 1 \in 0 .. 6 /\ 1 + 1 = 2
      OBVIOUS
    <3> QED BY <1>1, <3>1 DEF Moved
  <2>3. 6 \in 5 .. 8
    OBVIOUS
  <2> HIDE DEF taps
  <2> QED BY <2>1, <2>2, <2>3, FiveOnesReset
<1>3. ports[5].tap = "TestLogicReset"
  <2>1. 5 \in 0 .. 6
    OBVIOUS
  <2> QED BY <1>2, <2>1, Zenon
<1>4. /\ TapPaths["TestLogicReset"][1] = "RunTestIdle" /\ TapPaths["SelectDR"][1] = "CaptureDR"
      /\ TapPaths["CaptureDR"][1] = "ShiftDR" /\ TapPaths["ShiftDR"][1] = "ShiftDR"
  BY DEF TapPaths
<1>5. ports[6].tap = "TestLogicReset" /\ ports[6].instr = AllIDCODE
  <2>1. Moved(ports[5], ports[6], 1, tdi[6])
    <3>1. 6 \in 1 .. 6 /\ 6 - 1 = 5
      OBVIOUS
    <3> QED BY <1>1, <3>1, Zenon
  <2> QED BY <1>3, <2>1, PlayHigh, Zenon
<1>6. ports[7].tap = "RunTestIdle" /\ ports[7].instr = AllIDCODE
  <2>1. Moved(ports[6], ports[7], 0, tdi[7])
    BY Zenon DEF PlayPath
  <2> QED BY <1>4, <1>5, <2>1, MovesLow
<1>7. ports[8].tap = "SelectDR" /\ ports[8].instr = AllIDCODE
  <2>1. Moved(ports[7], ports[8], 1, tdi[8])
    BY Zenon DEF PlayPath
  <2> QED BY <1>6, <2>1, PlayHigh, Zenon
<1>8. /\ Moved(ports[8], ports[9], 0, tdi[9]) /\ Moved(ports[9], ports[10], 0, tdi[10])
      /\ \A i \in 11 .. 41 : Moved(ports[i - 1], ports[i], 0, tdi[i])
  <2>1. 9 \in 9 .. 41 /\ 9 - 1 = 8 /\ 10 \in 9 .. 41 /\ 10 - 1 = 9 /\ \A i \in 11 .. 41 : i \in 9 .. 41
    OBVIOUS
  <2> QED BY <2>1, Zenon DEF PlayPath
<1>9. ports[9].tap = "CaptureDR" /\ ports[9].instr = AllIDCODE
  BY <1>4, <1>7, <1>8, MovesLow
<1>10. ports[10].tap = "ShiftDR" /\ ports[10].reg = CapturedDR(AllIDCODE)
  BY <1>4, <1>8, <1>9, MovesLow
<1> DEFINE G == {k \in 0 .. 31 : ports[10 + k].tap = "ShiftDR"}
<1>11. 0 \in G
  <2>1. 0 \in 0 .. 31 /\ 10 + 0 = 10
    OBVIOUS
  <2> QED BY <1>10, <2>1, Zenon
<1>12. ASSUME NEW k \in 1 .. 31, k - 1 \in G PROVE k \in G
  <2>1. k \in 0 .. 31 /\ 10 + k \in 11 .. 41 /\ 10 + (k - 1) = (10 + k) - 1
    OBVIOUS
  <2>2. PICK i \in 11 .. 41 : i = 10 + k
    BY <2>1
  <2>3. ports[i - 1].tap = "ShiftDR"
    BY <1>12, <2>1, <2>2, Zenon
  <2>4. Moved(ports[i - 1], ports[i], 0, tdi[i])
    BY <1>8, Zenon
  <2>5. ports[i].tap = "ShiftDR"
    BY <1>4, <2>3, <2>4, MovesLow
  <2> QED BY <2>1, <2>2, <2>5, Zenon
<1> HIDE DEF G
<1>13. 0 .. 31 \subseteq G
  <2>1. 31 \in Nat
    OBVIOUS
  <2> QED BY <1>11, <1>12, <2>1, Reaches
<1>14. ASSUME NEW i \in 10 .. 41 PROVE ports[i].tap = "ShiftDR"
  <2>1. i - 10 \in 0 .. 31 /\ 10 + (i - 10) = i
    OBVIOUS
  <2> QED BY <1>13, <2>1, Zenon DEF G
<1> QED BY <1>10, <1>14, Zenon

\* Places of pulses.
LEMMA PlayPlaces ==
    /\ \A i \in 1 .. 44 : i \in 0 .. 44 /\ i - 1 \in 0 .. 44
    /\ \A k \in 1 .. 32 : k \in 0 .. 32 /\ k - 1 \in 0 .. 31 /\ k = (k - 1) + 1
    /\ \A n \in 0 .. 31 :
         /\ 10 + n \in 10 .. 41 /\ 10 + n \in 0 .. 44 /\ 10 + n + 1 \in 1 .. 44
         /\ 10 + n + 1 = 10 + (n + 1) /\ (10 + n + 1) - 1 = 10 + n /\ n \in Nat
    /\ \A i \in 1 .. 32 : 10 + i \in 1 .. 42 /\ 10 + i \in 1 .. 43
    /\ \A i \in 1 .. 32 : \A l \in Int : l >= 32 => i <= l
BY SMT

\* The bits that come out from the eleventh on are those of the first device's identifier.
LEMMA PlaysID ==
    ASSUME NEW p \in LivePort, Len(Chain[1].id) = 32
    PROVE  LET run == Stepped(p, PulsesFor(PlaySequence)) IN
           \A i \in 1 .. 32 : run.tdo[10 + i] = Chain[1].id[i]
<1>1. PICK bits \in Seq(PulseBit) :
        /\ bits = PulsesFor(PlaySequence) /\ 44 = Len(bits)
        /\ \A i \in 1 .. 6 : bits[i].tms = 1
        /\ bits[7].tms = 0 /\ bits[8].tms = 1
        /\ \A i \in 9 .. 41 : bits[i].tms = 0
  BY PlayTms, Zenon
<1>0. 44 = Len(bits)
  BY <1>1
<1>2. PICK runs \in [0 .. 44 -> RunType] : Runs(runs, p, bits) /\ Stepped(p, bits) = runs[44]
  BY <1>0, SteppedIsLast, ZenonT(60)
<1>3. /\ \A i \in 1 .. 44 : Moved(runs[i - 1].port, runs[i].port, bits[i].tms, bits[i].tdi)
      /\ \A i \in 0 .. 44 : Len(runs[i].tdo) = i
  <2>1. 44 \in Nat
    OBVIOUS
  <2> QED BY <1>0, <1>2, <2>1, RunsMove, ZenonT(60)
<1>4. \A i \in 1 .. 44 : runs[i] = Pulse(runs[i - 1], bits[i]) /\ bits[i] \in PulseBit
  <2>1. \A i \in 1 .. 44 : bits[i] \in PulseBit
    BY <1>1, ElementOfSeq
  <2> QED BY <1>1, <1>2, <2>1, Zenon DEF Runs
<1> DEFINE ports == [i \in 0 .. 44 |-> runs[i].port]
<1> DEFINE tdi == [i \in 1 .. 44 |-> bits[i].tdi]
<1>5. ports \in [0 .. 44 -> LivePort]
  BY DEF RunType
<1>6. \A i \in 1 .. 44 : Moved(ports[i - 1], ports[i], bits[i].tms, tdi[i])
  <2> TAKE i \in 1 .. 44
  <2>1. i \in 0 .. 44 /\ i - 1 \in 0 .. 44
    BY PlayPlaces, Zenon
  <2>2. ports[i] = runs[i].port /\ ports[i - 1] = runs[i - 1].port /\ tdi[i] = bits[i].tdi
    BY <2>1
  <2> HIDE DEF ports, tdi
  <2> QED BY <1>3, <2>2, Zenon
<1>7. \A i \in 0 .. 44 : ports[i] = runs[i].port
  OBVIOUS
<1> HIDE DEF ports, tdi
<1>8. PlayPath(ports, tdi)
  <2>1. /\ \A i \in 1 .. 6 : i \in 1 .. 44
        /\ 7 \in 1 .. 44 /\ 7 - 1 = 6 /\ 8 \in 1 .. 44 /\ 8 - 1 = 7 /\ \A i \in 9 .. 41 : i \in 1 .. 44
    OBVIOUS
  <2>2. /\ \A i \in 1 .. 6 : Moved(ports[i - 1], ports[i], 1, tdi[i])
        /\ \A i \in 9 .. 41 : Moved(ports[i - 1], ports[i], 0, tdi[i])
    BY <1>1, <1>6, <2>1, Zenon
  <2>3. Moved(ports[6], ports[7], 0, tdi[7]) /\ Moved(ports[7], ports[8], 1, tdi[8])
    BY <1>1, <1>6, <2>1, Zenon
  <2> QED BY <2>2, <2>3, Zenon DEF PlayPath
<1>9. /\ ports[10].reg = CapturedDR(AllIDCODE)
      /\ \A i \in 10 .. 41 : ports[i].tap = "ShiftDR"
  BY <1>5, <1>8, PlayLeads
<1>10. PICK base \in RunType : base = runs[10] /\ Len(base.tdo) = 10
  <2>1. 10 \in 0 .. 44
    OBVIOUS
  <2>2. PICK base \in RunType : base = runs[10]
    BY <2>1
  <2> QED BY <1>3, <2>1, <2>2, Zenon
<1>11. Len(base.port.reg) >= 32 /\ \A i \in 1 .. 32 : base.port.reg[i] = Chain[1].id[i]
  <2>1. base.port.reg = CapturedDR(AllIDCODE)
    <3>1. 10 \in 0 .. 44
      OBVIOUS
    <3> QED BY <1>7, <1>9, <1>10, <3>1, Zenon
  <2> QED BY <2>1, FirstCaptured, Zenon
<1> DEFINE G == {k \in 0 .. 32 : Queued(runs[10 + k], base, bits, 10, k)}
<1>12. 0 \in G
  <2>1. 0 \in 0 .. 32 /\ 10 + 0 = 10 /\ 10 \in Nat
    OBVIOUS
  <2>2. Queued(base, base, bits, 10, 0)
    BY <1>10, <2>1, QueuedFirst
  <2> QED BY <1>10, <2>1, <2>2, Zenon
<1>13. ASSUME NEW k \in 1 .. 32, k - 1 \in G PROVE k \in G
  <2>1. PICK n \in 0 .. 31 : n = k - 1 /\ k = n + 1
    BY PlayPlaces, Zenon
  <2>2. /\ 10 + n \in 10 .. 41 /\ 10 + n \in 0 .. 44 /\ 10 + n + 1 \in 1 .. 44 /\ 10 + n + 1 = 10 + k
        /\ (10 + n + 1) - 1 = 10 + n /\ n \in Nat /\ 10 \in Nat /\ k \in 0 .. 32
    <3>1. 10 \in Nat
      OBVIOUS
    <3> QED BY <2>1, <3>1, PlayPlaces, ZenonT(60)
  <2>3. PICK run \in RunType : run = runs[10 + n]
    BY <2>2
  <2>4. PICK bit \in PulseBit : bit = bits[10 + n + 1] /\ runs[10 + n + 1] = Pulse(run, bit)
    BY <1>4, <2>2, <2>3, Zenon
  <2>5. run.port.tap \in Shifting
    <3>1. run.port.tap = "ShiftDR"
      BY <1>7, <1>9, <2>2, <2>3, Zenon
    <3> QED BY <3>1 DEF Shifting
  <2>6. Queued(run, base, bits, 10, n)
    BY <1>13, <2>1, <2>3, Zenon
  <2>7. Queued(Pulse(run, bit), base, bits, 10, n + 1)
    BY <2>2, <2>4, <2>5, <2>6, QueuedNext
  <2> QED BY <2>1, <2>2, <2>4, <2>7, ZenonT(60)
<1> HIDE DEF G
<1>14. Queued(runs[42], base, bits, 10, 32)
  <2>1. 32 \in Nat /\ 32 \in 0 .. 32 /\ 10 + 32 = 42
    OBVIOUS
  <2>2. 0 .. 32 \subseteq G
    BY <1>12, <1>13, <2>1, Reaches
  <2> QED BY <2>1, <2>2, Zenon DEF G
<1>15. ASSUME NEW i \in 1 .. 32 PROVE runs[42].tdo[10 + i] = Chain[1].id[i]
  <2>1. i <= Len(base.port.reg)
    <3>1. base.port.reg \in Seq(Bit)
      <4>1. base.port \in LivePort
        BY DEF RunType
      <4> QED BY <4>1 DEF LivePort, Port
    <3>2. Len(base.port.reg) \in Int
      <4>1. \A s \in Seq(Bit) : Len(s) \in Int
        OBVIOUS
      <4> QED BY <3>1, <4>1, Zenon
    <3> QED BY <1>11, <3>2, PlayPlaces, Zenon
  <2>2. runs[42].tdo[10 + i] = QueueBit(base.port.reg, bits, 10, i)
    BY <1>14, Zenon DEF Queued
  <2> QED BY <1>11, <2>1, <2>2, Zenon DEF QueueBit
<1>16. ASSUME NEW i \in 1 .. 32 PROVE runs[44].tdo[10 + i] = runs[42].tdo[10 + i]
  <2>1. /\ 42 \in 0 .. 44 /\ 43 \in 0 .. 44 /\ 43 \in 1 .. 44 /\ 44 \in 1 .. 44
        /\ 43 - 1 = 42 /\ 44 - 1 = 43
    OBVIOUS
  <2>2. PICK a \in RunType, b \in RunType : a = runs[42] /\ b = runs[43]
    BY <2>1
  <2>3. /\ runs[43] = Pulse(a, bits[43]) /\ runs[44] = Pulse(b, bits[44])
        /\ bits[43] \in PulseBit /\ bits[44] \in PulseBit
    BY <1>4, <2>1, <2>2, ZenonT(60)
  <2>4. Len(a.tdo) = 42 /\ Len(b.tdo) = 43
    BY <1>3, <2>1, <2>2, Zenon
  <2>5. 10 + i \in 1 .. Len(a.tdo) /\ 10 + i \in 1 .. Len(b.tdo)
    BY <2>4, PlayPlaces, Zenon
  <2>6. Pulse(a, bits[43]).tdo[10 + i] = a.tdo[10 + i] /\ Pulse(b, bits[44]).tdo[10 + i] = b.tdo[10 + i]
    BY <2>3, <2>5, PulseKeeps, Zenon
  <2> QED BY <2>2, <2>3, <2>6, ZenonT(60)
<1>17. \A i \in 1 .. 32 : Stepped(p, bits).tdo[10 + i] = Chain[1].id[i]
  BY <1>2, <1>15, <1>16, Zenon
<1> QED BY <1>1, <1>17, Zenon

\* play is called as play.cpp does it.
PlayCalls == \A c \in Calls : c.op = "play" => c.tx = PlaySequence /\ c.n = Len(PlaySequence)

\* What comes back of the sequence is the identifier.
LEMMA ExchangePlaying ==
    ASSUME Sound, Banging, PlayFindsID, Exchange, PlayCalls, Len(Chain[1].id) = 32
    PROVE  PlayFindsID'
<1> SUFFICES ASSUME call'.op = "play", start'.source = "bb", whole'
             PROVE  result' = Chain[1].id
  BY DEF PlayFindsID
<1> DEFINE bang == Banged(start, BytesFor(call.tx))
<1>1. PICK reply :
        /\ call' = call /\ call \in Calls /\ start' = start
        /\ result' = Returned(call, <<reply>>)
        /\ whole' => reply = SubSeq(bang.tdo, 1, IF 2 * call.n < Len(bang.tdo) THEN 2 * call.n
                                                 ELSE Len(bang.tdo))
  <2>1. call'.op \in BangOps
    BY DEF BangOps
  <2> QED BY <2>1, BangGoes, Zenon
<1> HIDE DEF bang
<1>2. call.tx = PlaySequence /\ call.n = Len(PlaySequence) /\ call.op = "play"
  BY <1>1 DEF PlayCalls
<1>3. /\ call.n = 44 /\ call.tx \in Seq(0 .. 255) /\ 44 = Len(call.tx) /\ 44 \in Nat
  <2>1. PlaySequence \in Seq(0 .. 255) /\ Len(PlaySequence) = 44
    BY PlayTms, Zenon
  <2>2. 44 \in Nat
    OBVIOUS
  <2> QED BY <1>2, <2>1, <2>2, Zenon
<1> DEFINE run == Stepped(start, PulsesFor(call.tx))
<1>4. start \in LivePort /\ start.source = "bb"
  BY <1>1 DEF Sound
<1>5. TdoBits(BangedBack(call.tx, reply)) = run.tdo
  <2>1. reply = SubSeq(bang.tdo, 1, IF 2 * 44 < Len(bang.tdo) THEN 2 * 44 ELSE Len(bang.tdo))
    BY <1>1, <1>3, Zenon
  <2> QED BY <1>3, <1>4, <2>1, BangBrings, ZenonT(60) DEF bang
<1>6. \A i \in 1 .. 32 : run.tdo[10 + i] = Chain[1].id[i]
  BY <1>2, <1>4, PlaysID, Zenon
<1> HIDE DEF run
<1> DEFINE back == BangedBack(call.tx, reply)
<1>7. result' = PlayedID(back)
  <2>1. <<reply>>[1] = reply
    OBVIOUS
  <2> QED BY <1>1, <1>2, <2>1 DEF Returned
<1>8. DOMAIN back = 1 .. 44
  <2>1. DOMAIN call.tx = 1 .. 44
    BY <1>3
  <2> QED BY <2>1, Zenon DEF BangedBack
<1> HIDE DEF back
<1>9. ASSUME NEW i \in 1 .. 32 PROVE BitOf(back[10 + i], 2) = Chain[1].id[i]
  <2>1. 10 + i \in 1 .. 44
    OBVIOUS
  <2>2. TdoBits(back)[10 + i] = BitOf(back[10 + i], 2)
    BY <1>8, <2>1, Zenon DEF TdoBits
  <2> QED BY <1>5, <1>6, <2>2, Zenon DEF back
<1>10. PlayedID(back) = [i \in 1 .. 32 |-> Chain[1].id[i]]
  BY <1>9, Zenon DEF PlayedID
<1>11. Chain[1].id = [i \in 1 .. 32 |-> Chain[1].id[i]]
  <2>1. 1 \in Devices
    BY ChainLength1
  <2>2. PICK s \in Seq(Bit) : s = Chain[1].id /\ Len(s) = 32
    BY <2>1, DeviceType
  <2>3. s = [i \in 1 .. 32 |-> s[i]]
    <3>1. PICK n \in Nat : n = Len(s)
      OBVIOUS
    <3>2. s = [i \in 1 .. n |-> s[i]]
      BY <3>1
    <3> QED BY <2>2, <3>1, <3>2, Zenon
  <2> QED BY <2>2, <2>3, Zenon
<1> QED BY <1>7, <1>10, <1>11, Zenon

\* No other step returns from play.
LEMMA NextPlaying ==
    ASSUME Sound, Banging, PlayFindsID, [Next]_vars, PlayCalls, Len(Chain[1].id) = 32
    PROVE  PlayFindsID'
<1>1. CASE \E c \in Calls : Call(c)
  <2>1. PICK c \in Calls : Call(c)
    BY <1>1
  <2>2. ASSUME call'.op = "play" PROVE status' = "busy"
    <3>1. call' = c
      BY <2>1 DEF Call
    <3>2. c.op \in BangOps
      BY <2>2, <3>1 DEF BangOps
    <3>3. Plan(c) = <<BangMessage(c.tx, c.n)>> /\ ~ Mismatched(c)
      BY <3>2, BangCalls, Zenon
    <3>4. Plan(c) # <<>>
      BY <3>3
    <3> QED BY <2>1, <3>3, <3>4 DEF Call
  <2> QED BY <2>2 DEF PlayFindsID
<1>2. CASE Exchange
  BY <1>2, ExchangePlaying
<1>3. CASE Fail
  <2>1. status' = "error"
    BY <1>3 DEF Fail
  <2> QED BY <2>1 DEF PlayFindsID
<1>4. CASE \E scratch \in 0 .. 3 : SelectPins(scratch)
  <2>1. status' = "idle"
    BY <1>4 DEF SelectPins
  <2> QED BY <2>1 DEF PlayFindsID
<1>5. CASE UNCHANGED vars
  BY <1>5 DEF vars, PlayFindsID
<1> QED BY <1>1, <1>2, <1>3, <1>4, <1>5 DEF Next

\* play finds the identifier of the first device, wherever the TAP was, if that has one,
\* whatever is behind it in the chain (play.cpp, main without a file).
THEOREM PlayFindsFirst ==
    ASSUME PlayCalls, Len(Chain[1].id) = 32
    PROVE  Spec => []PlayFindsID
<1>1. Init => Sound /\ Banging /\ PlayFindsID
  BY InitSound DEF Init, Banging, BangOps, PlayFindsID
<1>2. Sound /\ Banging /\ PlayFindsID /\ [Next]_vars => (Sound /\ Banging /\ PlayFindsID)'
  BY NextSound, NextBanging, NextPlaying
<1> QED BY <1>1, <1>2, PTL DEF Spec

=============================================================================
