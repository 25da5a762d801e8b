-------------------------- MODULE InEndpointProofs --------------------------
(***************************************************************************)
(* For every packet size and every transfer length: the answer _reply puts *)
(* together, headers included, fits the transfer the host asked for, leaves *)
(* no room in it while payload waits, and brings the payload in order.     *)
(***************************************************************************)
EXTENDS InEndpoint, FlattenProofs, FiniteSetTheorems

-----------------------------------------------------------------------------
(* Arithmetic of the quota. *)

\* Quotient and remainder of a transfer length by the packet size.
LEMMA DivMod ==
    ASSUME NEW len \in Nat
    PROVE  /\ len \div PktSize \in Nat
           /\ len % PktSize \in 0 .. PktSize - 1
           /\ len = PktSize * (len \div PktSize) + (len % PktSize)
BY PktSizeAssumption, SMT DEF HdrSize

\* There is one quotient and one remainder only.
LEMMA DivModUnique ==
    ASSUME NEW P \in Nat \ {0}, NEW q1 \in Int, NEW q2 \in Int,
           NEW r1 \in 0 .. P - 1, NEW r2 \in 0 .. P - 1,
           P * q1 + r1 = P * q2 + r2
    PROVE  q1 = q2 /\ r1 = r2
<1>1. P * (q1 - q2) = r2 - r1
  BY SMT
<1>2. CASE q1 >= q2 + 1
  <2>1. P * (q1 - q2) >= P
    BY <1>2, SMT
  <2> QED
    BY <1>1, <2>1, SMT
<1>3. CASE q2 >= q1 + 1
  <2>1. P * (q1 - q2) <= -P
    BY <1>3, SMT
  <2> QED
    BY <1>1, <2>1, SMT
<1>4. CASE q1 = q2
  BY <1>1, <1>4, SMT
<1> QED
  BY <1>2, <1>3, <1>4, SMT

\* The same for the operators on numbers.
LEMMA DivOf ==
    ASSUME NEW P \in Nat \ {0}, NEW len \in Nat, NEW q \in Int, NEW r \in 0 .. P - 1,
           len = P * q + r
    PROVE  len \div P = q /\ len % P = r
<1>1. PICK q2 \in Int, r2 \in 0 .. P - 1 :
        q2 = len \div P /\ r2 = len % P /\ len = P * q2 + r2
  <2>1. len \div P \in Int /\ len % P \in 0 .. P - 1 /\ len = P * (len \div P) + (len % P)
    BY SMT
  <2> QED
    BY <2>1
<1>2. P * q2 + r2 = P * q + r
  BY <1>1
<1>3. q2 = q /\ r2 = r
  BY <1>2, DivModUnique
<1> QED
  BY <1>1, <1>3

\* Quotient and remainder are what DivMod says they are, for any that fit.
LEMMA DivModOf ==
    ASSUME NEW len \in Nat, NEW q \in Int, NEW r \in 0 .. PktSize - 1, len = PktSize * q + r
    PROVE  len \div PktSize = q /\ len % PktSize = r
<1>1. PktSize \in Nat \ {0}
  BY PktSizeAssumption DEF HdrSize
<1> QED
  BY <1>1, DivOf

\* A quota is a number of bytes.
LEMMA QuotaType ==
    ASSUME NEW len \in Nat
    PROVE  Quota(len) \in Nat
<1>1. Chunk \in Nat \ {0}
  BY PktSizeAssumption DEF Chunk, HdrSize
<1>2. (len \div PktSize) * Chunk \in Nat
  BY <1>1, DivMod, SMT
<1> QED
  BY <1>2, DivMod, PktSizeAssumption, SMT DEF Quota, HdrSize

\* A transfer shorter than a packet has room for all but the header.
LEMMA QuotaShort ==
    ASSUME NEW len \in Nat, len < PktSize
    PROVE  Quota(len) = IF len > HdrSize THEN len - HdrSize ELSE 0
<1>1. len \div PktSize = 0 /\ len % PktSize = len
  <2>1. len \in 0 .. PktSize - 1 /\ len = PktSize * 0 + len
    BY PktSizeAssumption, SMT DEF HdrSize
  <2> QED
    BY <2>1, DivModOf
<1>2. 0 * Chunk = 0
  BY PktSizeAssumption DEF Chunk, HdrSize
<1> QED
  BY <1>1, <1>2, PktSizeAssumption DEF Quota, HdrSize

\* Every whole packet adds a chunk.
LEMMA QuotaPacket ==
    ASSUME NEW len \in Nat, len >= PktSize
    PROVE  Quota(len - PktSize) = Quota(len) - Chunk
<1> DEFINE q == len \div PktSize
           r == len % PktSize
           m == len - PktSize
<1>1. PktSize \in Nat /\ PktSize > 2 /\ m \in Nat /\ Chunk \in Nat
  BY PktSizeAssumption DEF Chunk, HdrSize
<1>2. q \in Nat /\ r \in 0 .. PktSize - 1 /\ len = PktSize * q + r
  BY DivMod
<1>3. m = PktSize * (q - 1) + r
  <2> HIDE DEF q, r
  <2>1. PktSize * (q - 1) = PktSize * q - PktSize
    BY <1>1, <1>2, SMT
  <2> QED
    BY <1>1, <1>2, <2>1, SMT
<1>5. m \div PktSize = q - 1 /\ m % PktSize = r
  <2> HIDE DEF q, r, m
  <2> QED
    BY <1>1, <1>2, <1>3, DivModOf
<1>6. (q - 1) * Chunk = q * Chunk - Chunk
  <2> HIDE DEF q
  <2> QED
    BY <1>1, <1>2, SMT
<1>7. q * Chunk \in Int
  BY <1>1, <1>2
<1> HIDE DEF q, r
<1>8. Quota(m) = (q - 1) * Chunk + (IF r > HdrSize THEN r - HdrSize ELSE 0)
  BY <1>5 DEF Quota
<1>9. Quota(len) = q * Chunk + (IF r > HdrSize THEN r - HdrSize ELSE 0)
  BY DEF Quota, q, r
<1> DEFINE full == q * Chunk
           part == IF r > HdrSize THEN r - HdrSize ELSE 0
<1>10. part \in Int /\ full \in Int
  BY <1>2, <1>7 DEF HdrSize
<1>11. Quota(m) = (full - Chunk) + part /\ Quota(len) = full + part
  BY <1>6, <1>8, <1>9
<1> HIDE DEF full, part
<1> QED
  BY <1>1, <1>10, <1>11

\* Only a transfer that is no longer than a header has no room for payload.
LEMMA QuotaZero ==
    ASSUME NEW len \in Nat, Quota(len) = 0
    PROVE  len <= HdrSize
<1>1. PktSize \in Nat /\ PktSize > HdrSize /\ Chunk = PktSize - HdrSize /\ HdrSize = 2
  BY PktSizeAssumption DEF Chunk, HdrSize
<1>2. CASE len < PktSize
  BY <1>1, <1>2, QuotaShort
<1>3. CASE len >= PktSize
  <2>1. Quota(len - PktSize) = Quota(len) - Chunk
    BY <1>3, QuotaPacket
  <2>2. len - PktSize \in Nat
    BY <1>1, <1>3
  <2>3. Quota(len - PktSize) \in Nat
    BY <2>2, QuotaType
  <2> QED
    BY <1>1, <2>1, <2>3
<1> QED
  BY <1>1, <1>2, <1>3

-----------------------------------------------------------------------------
(* The invariant. *)

\* One packet: what is left to pack and what is left of the transfer keep in step.
LEMMA PackFits ==
    ASSUME NEW room \in Nat, NEW left \in Nat \ {0}, left <= Quota(room)
    PROVE  /\ HdrSize + Least(left, Chunk) <= room
           /\ left - Least(left, Chunk) <= Quota(room - (HdrSize + Least(left, Chunk)))
              \/ left <= Chunk
<1>1. PktSize \in Nat /\ PktSize > HdrSize /\ Chunk = PktSize - HdrSize /\ HdrSize = 2
  BY PktSizeAssumption DEF Chunk, HdrSize
<1>2. CASE room < PktSize
  <2>1. left <= room - HdrSize
    BY <1>1, <1>2, QuotaShort
  <2> QED
    BY <1>1, <1>2, <2>1 DEF Least
<1>3. CASE room >= PktSize
  <2>1. Quota(room - PktSize) = Quota(room) - Chunk /\ Quota(room) \in Nat
    BY <1>3, QuotaPacket, QuotaType
  <2>2. CASE left <= Chunk
    BY <1>1, <1>3, <2>2 DEF Least
  <2>3. CASE left > Chunk
    <3>1. Least(left, Chunk) = Chunk /\ HdrSize + Chunk = PktSize
      BY <1>1, <2>3 DEF Least
    <3> QED
      BY <1>1, <1>3, <2>1, <2>3, <3>1
  <2> QED
    BY <1>1, <2>2, <2>3
<1> QED
  BY <1>1, <1>2, <1>3

\* Inv holds at first.
LEMMA InitInv == Init => Inv
BY InBoundsAssumption, EmptySeq DEF Init, Inv, TypeOK, RoomLeft, FitsUrb

\* A buffer the device writes changes nothing that Inv speaks of.
LEMMA WriteInv ==
    ASSUME Inv, NEW n \in BufLens, Write(n)
    PROVE  Inv'
<1> DEFINE buf == [i \in 1 .. n |-> Len(written) + i]
<1>1. n \in Nat /\ Len(written) \in Nat /\ written \in Seq(Nat) /\ queue \in Seq(Seq(Nat))
  BY BufLensAssumption, LenProperties DEF Inv, TypeOK
<1>2. buf \in Seq(Nat)
  BY <1>1
<1>3. written' = written \o buf /\ queue' = Append(queue, buf)
  BY DEF Write
<1> HIDE DEF buf
<1>4. written' \in Seq(Nat) /\ queue' \in Seq(Seq(Nat)) /\ queue' # <<>>
  BY <1>1, <1>2, <1>3, ConcatProperties, AppendProperties
<1>5. writes' \in 0 .. MaxWrites
  BY InBoundsAssumption DEF Inv, TypeOK, Write
<1>6. queue # <<>> => Head(queue') = Head(queue)
  BY <1>1, <1>2, <1>3, HeadTailAppend
<1> QED
  BY <1>4, <1>5, <1>6 DEF Inv, TypeOK, RoomLeft, FitsUrb, Write

\* A transfer the host asks for joins the others, each at least a header long.
LEMMA PostUrbInv ==
    ASSUME Inv, NEW l \in UrbLens, PostUrb(l)
    PROVE  Inv'
<1>1. urbs' \in Seq(UrbLens) /\ urbs' # <<>>
  <2>1. urbs \in Seq(UrbLens) /\ urbs' = Append(urbs, l)
    BY DEF Inv, TypeOK, PostUrb
  <2> QED
    BY <2>1, AppendProperties
<1>2. urbs # <<>> => Head(urbs') = Head(urbs)
  BY HeadTailAppend DEF Inv, TypeOK, PostUrb
<1> QED
  BY <1>1, <1>2 DEF Inv, TypeOK, RoomLeft, FitsUrb, PostUrb

\* While an answer is put together there are a transfer and a buffer for it.
LEMMA HeadsType ==
    ASSUME Inv, urbs # <<>>, queue # <<>>
    PROVE  /\ Head(urbs) \in Nat /\ Head(urbs) >= HdrSize
           /\ Head(queue) \in Seq(Nat) /\ Len(Head(queue)) \in Nat
           /\ Tail(urbs) \in Seq(UrbLens) /\ Tail(queue) \in Seq(Seq(Nat))
<1>1. Head(urbs) \in UrbLens /\ Tail(urbs) \in Seq(UrbLens)
  BY HeadTailProperties DEF Inv, TypeOK
<1>2. Head(queue) \in Seq(Nat) /\ Tail(queue) \in Seq(Seq(Nat))
  BY HeadTailProperties DEF Inv, TypeOK
<1> QED
  BY <1>1, <1>2, UrbLensAssumption, LenProperties

\* A new answer has packed nothing, and its quota is that of the whole transfer.
LEMMA StartReplyInv ==
    ASSUME Inv, StartReply
    PROVE  Inv'
<1>1. Head(urbs) \in Nat /\ Head(urbs) >= HdrSize /\ Len(Head(queue)) \in Nat
  BY HeadsType DEF StartReply
<1>2. Quota(Head(urbs)) \in Nat
  BY <1>1, QuotaType
<1>3. consumed' \in Nat /\ consumed' <= Quota(Head(urbs)) /\ consumed' <= Len(Head(queue))
  BY <1>1, <1>2 DEF StartReply, Least
<1>4. CASE consumed' = 0
  <2>1. sg' = <<0, 0>> /\ pc' = "send" /\ taken' = 0
    BY <1>4 DEF StartReply, StatusByte
  <2>2. sg' \in Seq(Nat) /\ Len(sg') = 2
    BY <2>1
  <2> QED
    BY <1>1, <1>3, <2>1, <2>2 DEF Inv, TypeOK, RoomLeft, FitsUrb, StartReply, HdrSize
<1>5. CASE consumed' # 0
  <2>1. sg' = <<>> /\ pc' = "pack" /\ taken' = 0
    BY <1>5 DEF StartReply
  <2>2. sg' \in Seq(Nat) /\ Len(sg') = 0
    BY <2>1, EmptySeq
  <2> QED
    BY <1>1, <1>2, <1>3, <1>5, <2>1, <2>2, SMTT(60) DEF Inv, TypeOK, RoomLeft, FitsUrb, StartReply
<1> QED
  BY <1>4, <1>5

\* A packet is a header and its payload.
LEMMA PackedLength ==
    ASSUME Inv, Pack
    PROVE  /\ sg' \in Seq(Nat)
           /\ Len(sg') = Len(sg) + HdrSize + Least(consumed - taken, Chunk)
<1> DEFINE sz   == Least(consumed - taken, Chunk)
           part == SubSeq(Head(queue), taken + 1, taken + sz)
<1>1. /\ Head(urbs) \in Nat /\ Head(queue) \in Seq(Nat) /\ Len(Head(queue)) \in Nat
      /\ sg \in Seq(Nat) /\ Len(sg) \in Nat /\ taken \in Nat /\ consumed \in Nat
      /\ taken < consumed /\ consumed <= Len(Head(queue))
  BY HeadsType, LenProperties DEF Inv, TypeOK, RoomLeft, Pack
<1>2. Chunk \in Nat \ {0}
  BY PktSizeAssumption DEF Chunk, HdrSize
<1>4. sz \in Nat \ {0} /\ sz <= consumed - taken
  BY <1>1, <1>2 DEF Least
<1>6. sg' = sg \o <<0, 0>> \o part
  BY DEF Pack, PacketHeader, StatusByte
<1>7. part \in Seq(Nat) /\ Len(part) = sz
  <2>2. taken + sz <= Len(Head(queue))
    BY <1>1, <1>4
  <2> HIDE DEF sz
  <2>1. \A i \in taken + 1 .. taken + sz : Head(queue)[i] \in Nat
    <3> SUFFICES ASSUME NEW i \in taken + 1 .. taken + sz
                 PROVE  Head(queue)[i] \in Nat
      OBVIOUS
    <3>1. i \in 1 .. Len(Head(queue))
      BY <1>1, <1>4, <2>2
    <3> QED
      BY <1>1, <3>1, ElementOfSeq
  <2> QED
    BY <1>1, <1>4, <2>1, SubSeqProperties
<1> HIDE DEF sz, part
<1>8. sg' \in Seq(Nat) /\ Len(sg') = Len(sg) + 2 + sz
  <2>1. <<0, 0>> \in Seq(Nat) /\ Len(<<0, 0>>) = 2
    OBVIOUS
  <2>2. sg \o <<0, 0>> \in Seq(Nat) /\ Len(sg \o <<0, 0>>) = Len(sg) + 2
    BY <1>1, <2>1, ConcatProperties
  <2> DEFINE head == sg \o <<0, 0>>
  <2>3. sg' = head \o part
    BY <1>6
  <2>4. head \in Seq(Nat) /\ Len(head) = Len(sg) + 2
    BY <2>2
  <2> HIDE DEF head
  <2>5. head \o part \in Seq(Nat) /\ Len(head \o part) = Len(head) + Len(part)
    BY <1>7, <2>4, ConcatProperties
  <2> QED
    BY <1>1, <1>4, <1>7, <2>3, <2>4, <2>5
<1> QED
  BY <1>8 DEF sz, HdrSize

\* A packet takes from what is left to pack what it takes from the room.
LEMMA PackInv ==
    ASSUME Inv, Pack
    PROVE  Inv'
<1> DEFINE left == consumed - taken
           room == Head(urbs) - Len(sg)
           sz   == Least(left, Chunk)
<1>1. /\ Head(urbs) \in Nat /\ Head(queue) \in Seq(Nat) /\ Len(Head(queue)) \in Nat
      /\ sg \in Seq(Nat) /\ Len(sg) \in Nat /\ taken \in Nat /\ consumed \in Nat
      /\ taken < consumed /\ consumed <= Len(Head(queue))
  BY HeadsType, LenProperties DEF Inv, TypeOK, RoomLeft, Pack
<1>2. left \in Nat \ {0} /\ room \in Nat /\ left <= Quota(room)
  <2>1. pc = "pack" /\ pc # "idle"
    BY DEF Pack
  <2>2. left <= Quota(room) /\ Len(sg) <= Head(urbs)
    BY <2>1, Zenon DEF Inv, RoomLeft, FitsUrb
  <2>3. left \in Nat \ {0}
    BY <1>1
  <2>4. room \in Nat
    BY <1>1, <2>2, SMTT(60)
  <2> QED
    BY <2>2, <2>3, <2>4
<1>3. Chunk \in Nat \ {0}
  BY PktSizeAssumption DEF Chunk, HdrSize
<1>4. sz \in Nat \ {0} /\ sz <= left /\ (left > Chunk \/ sz = left)
  BY <1>2, <1>3 DEF Least
<1>5. HdrSize + sz <= room /\ (left - sz <= Quota(room - (HdrSize + sz)) \/ left <= Chunk)
  BY <1>2, PackFits
<1>6. /\ taken' = taken + sz
      /\ pc' = IF taken + sz = consumed THEN "send" ELSE "pack"
  BY DEF Pack
<1>8. sg' \in Seq(Nat) /\ Len(sg') = Len(sg) + HdrSize + sz
  BY PackedLength
<1> HIDE DEF left, room, sz
<1>9. Len(sg') <= Head(urbs) /\ Head(urbs) - Len(sg') = room - (HdrSize + sz)
  BY <1>1, <1>4, <1>5, <1>8, SMTT(60) DEF room, HdrSize
<1>10. taken' \in Nat /\ taken' <= consumed /\ consumed - taken' = left - sz
  BY <1>1, <1>2, <1>4, <1>6 DEF left
<1>11. pc' = "pack" => taken' < consumed /\ consumed - taken' <= Quota(Head(urbs) - Len(sg'))
  <2> SUFFICES ASSUME pc' = "pack"
               PROVE  taken' < consumed /\ consumed - taken' <= Quota(Head(urbs) - Len(sg'))
    OBVIOUS
  <2>1. taken + sz # consumed
    BY <1>6
  <2>2. left # sz /\ left > Chunk
    BY <1>1, <1>4, <2>1 DEF left
  <2>3. left - sz <= Quota(room - (HdrSize + sz))
    BY <1>2, <1>3, <1>5, <2>2
  <2>4. left - sz > 0
    BY <1>2, <1>4, <2>2
  <2>5. consumed - taken' <= Quota(Head(urbs) - Len(sg'))
    BY <1>9, <1>10, <2>3
  <2> QED
    BY <1>1, <1>10, <2>4, <2>5
<1> QED
  BY <1>6, <1>8, <1>9, <1>10, <1>11 DEF Inv, TypeOK, RoomLeft, FitsUrb, Pack

\* An answer that goes out ends the packing.
LEMMA SendInv ==
    ASSUME Inv, Send
    PROVE  Inv'
<1>1. Head(queue) \in Seq(Nat) /\ Tail(urbs) \in Seq(UrbLens)
      /\ Tail(queue) \in Seq(Seq(Nat)) /\ consumed \in Nat /\ sg \in Seq(Nat)
      /\ consumed <= Len(Head(queue)) /\ Len(Head(queue)) \in Nat
  BY HeadsType DEF Inv, TypeOK, RoomLeft, Send
<1>2. From(Head(queue), consumed) \in Seq(Nat)
  BY <1>1, ElementOfSeq, SubSeqProperties, SMTT(30) DEF From
<1>3. queue' \in Seq(Seq(Nat))
  BY <1>1, <1>2, ConcatProperties DEF Send
<1>4. urbs' \in Seq(UrbLens) /\ pc' = "idle" /\ consumed' = 0 /\ taken' = 0
      /\ sg' = <<>> /\ sg' \in Seq(Nat)
  BY <1>1, EmptySeq DEF Send
<1> QED
  BY <1>3, <1>4 DEF Inv, TypeOK, RoomLeft, FitsUrb, Send

\* A step that changes nothing keeps Inv.
LEMMA StutterInv ==
    ASSUME Inv, UNCHANGED vars
    PROVE  Inv'
BY DEF Inv, TypeOK, RoomLeft, FitsUrb, vars

\* Every step keeps the invariant.
LEMMA NextInv ==
    ASSUME Inv, [Next]_vars
    PROVE  Inv'
<1>1. CASE \E n \in BufLens : Write(n)
  BY <1>1, WriteInv
<1>2. CASE \E l \in UrbLens : PostUrb(l)
  BY <1>2, PostUrbInv
<1>3. CASE StartReply
  BY <1>3, StartReplyInv
<1>4. CASE Pack
  BY <1>4, PackInv
<1>5. CASE Send
  BY <1>5, SendInv
<1>6. CASE UNCHANGED vars
  BY <1>6, StutterInv
<1> QED
  BY <1>1, <1>2, <1>3, <1>4, <1>5, <1>6 DEF Next, Reply

-----------------------------------------------------------------------------
\* The invariant of _reply's loop: no answer is longer than the transfer the host asked
\* for, and what consumed_len still promises fits what is left of it, whatever the
\* packet size, the transfer lengths and the buffers.
THEOREM Invariance == Spec => []Inv
<1>1. Init => Inv
  BY InitInv
<1>2. Inv /\ [Next]_vars => Inv'
  BY NextInv
<1> QED
  BY <1>1, <1>2, PTL DEF Spec

-----------------------------------------------------------------------------
(* No room is wasted. *)

\* If the buffer does not fit as a whole, what is still to be packed is all that fits
\* what is left of the transfer.
RoomUsed ==
    pc = "pack" /\ consumed < Len(Head(queue)) =>
        consumed - taken = Quota(Head(urbs) - Len(sg))

\* One packet of a transfer that is to be filled.
LEMMA PackFills ==
    ASSUME NEW room \in Nat, NEW left \in Nat \ {0}, left = Quota(room)
    PROVE  /\ left > Chunk => left - Chunk = Quota(room - PktSize)
           /\ left <= Chunk => left + HdrSize + HdrSize >= room
<1>1. PktSize \in Nat /\ PktSize > HdrSize /\ Chunk = PktSize - HdrSize /\ HdrSize = 2
  BY PktSizeAssumption DEF Chunk, HdrSize
<1>2. CASE room < PktSize
  <2>1. left = room - HdrSize
    BY <1>1, <1>2, QuotaShort
  <2> QED
    BY <1>1, <1>2, <2>1
<1>3. CASE room >= PktSize
  <2>1. Quota(room - PktSize) = left - Chunk
    BY <1>3, QuotaPacket
  <2>2. room - PktSize \in Nat
    BY <1>1, <1>3
  <2>3. Quota(room - PktSize) \in Nat
    BY <2>2, QuotaType
  <2>4. left <= Chunk => room - PktSize <= HdrSize
    BY <1>1, <2>1, <2>2, <2>3, QuotaZero
  <2>5. left <= Chunk => left = Chunk
    BY <1>1, <2>1, <2>3
  <2> QED
    BY <1>1, <2>1, <2>2, <2>4, <2>5
<1> QED
  BY <1>1, <1>2, <1>3

\* The first packet: all of the quota is promised if the buffer is longer.
LEMMA StartFills ==
    ASSUME Inv, StartReply
    PROVE  RoomUsed' /\ FillsUrb'
<1>1. Head(urbs) \in Nat /\ Len(Head(queue)) \in Nat /\ HdrSize = 2
  BY HeadsType DEF StartReply, HdrSize
<1>2. Quota(Head(urbs)) \in Nat
  BY <1>1, QuotaType
<1>3. /\ queue' = queue /\ urbs' = urbs /\ taken' = 0
      /\ consumed' = Least(Quota(Head(urbs)), Len(Head(queue)))
  BY DEF StartReply
<1>4. consumed' < Len(Head(queue)) => consumed' = Quota(Head(urbs))
  BY <1>1, <1>2, <1>3 DEF Least
<1>5. CASE consumed' = 0
  <2>1. pc' = "send" /\ sg' = <<0, 0>>
    BY <1>5 DEF StartReply, StatusByte
  <2>2. Len(sg') = 2
    BY <2>1
  <2>3. consumed' < Len(Head(queue)) => Head(urbs) <= 2
    BY <1>1, <1>4, <1>5, QuotaZero
  <2> QED
    BY <1>1, <1>3, <2>1, <2>2, <2>3 DEF RoomUsed, FillsUrb
<1>6. CASE consumed' # 0
  <2>1. pc' = "pack" /\ sg' = <<>>
    BY <1>6 DEF StartReply
  <2>2. Head(urbs) - Len(sg') = Head(urbs)
    BY <1>1, <2>1, EmptySeq
  <2>3. consumed' - taken' = consumed'
    BY <1>1, <1>2, <1>3 DEF Least
  <2> QED
    BY <1>3, <1>4, <2>1, <2>2, <2>3 DEF RoomUsed, FillsUrb
<1> QED
  BY <1>5, <1>6

\* A packet leaves the answer as full as it will get.
LEMMA PackKeepsFilling ==
    ASSUME Inv, RoomUsed, Pack
    PROVE  RoomUsed' /\ FillsUrb'
<1> DEFINE left == consumed - taken
           room == Head(urbs) - Len(sg)
           sz   == Least(left, Chunk)
<1>1. /\ Head(urbs) \in Nat /\ Len(Head(queue)) \in Nat
      /\ Len(sg) \in Nat /\ taken \in Nat /\ consumed \in Nat
      /\ taken < consumed /\ Len(sg) <= Head(urbs)
  BY HeadsType, LenProperties DEF Inv, TypeOK, RoomLeft, FitsUrb, Pack
<1>2. /\ queue' = queue /\ urbs' = urbs /\ consumed' = consumed /\ taken' = taken + sz
      /\ pc' = IF taken + sz = consumed THEN "send" ELSE "pack"
  BY DEF Pack
<1>3. Len(sg') = Len(sg) + HdrSize + sz
  BY PackedLength
<1>4. CASE consumed < Len(Head(queue))
  <2>1. left = Quota(room)
    BY <1>4 DEF RoomUsed, Pack
  <2>2. room \in Nat /\ left \in Nat \ {0}
    BY <1>1
  <2>3. PktSize \in Nat /\ Chunk \in Nat \ {0} /\ HdrSize + Chunk = PktSize /\ HdrSize = 2
    BY PktSizeAssumption DEF Chunk, HdrSize
  <2> HIDE DEF left, room
  <2>4. /\ left > Chunk => left - Chunk = Quota(room - PktSize)
        /\ left <= Chunk => left + HdrSize + HdrSize >= room
    BY <2>1, <2>2, PackFills
  <2>5. CASE left > Chunk
    <3>1. sz = Chunk
      BY <2>2, <2>3, <2>5 DEF Least
    <3>2. pc' = "pack" /\ consumed' - taken' = left - Chunk
      BY <1>1, <1>2, <2>2, <2>3, <2>5, <3>1 DEF left
    <3>3. Head(urbs') - Len(sg') = room - PktSize
      BY <1>1, <1>2, <1>3, <2>3, <3>1 DEF room
    <3> QED
      BY <2>4, <2>5, <3>2, <3>3 DEF RoomUsed, FillsUrb
  <2>6. CASE left <= Chunk
    <3>1. sz = left
      BY <2>2, <2>3, <2>6 DEF Least
    <3>2. pc' = "send"
      BY <1>1, <1>2, <3>1 DEF left
    <3>3. Len(sg') + HdrSize >= Head(urbs')
      BY <1>1, <1>2, <1>3, <2>2, <2>3, <2>4, <2>6, <3>1 DEF room
    <3> QED
      BY <3>2, <3>3 DEF RoomUsed, FillsUrb
  <2> QED
    BY <2>2, <2>3, <2>5, <2>6
<1>5. CASE ~ (consumed < Len(Head(queue)))
  BY <1>2, <1>5 DEF RoomUsed, FillsUrb
<1> QED
  BY <1>4, <1>5

\* Outside of the loop a step changes neither the answer nor the buffer it is made of.
LEMMA OthersKeepFilling ==
    ASSUME Inv, RoomUsed, FillsUrb,
           (\E n \in BufLens : Write(n)) \/ (\E l \in UrbLens : PostUrb(l)) \/ Send
             \/ UNCHANGED vars
    PROVE  RoomUsed' /\ FillsUrb'
<1>1. CASE \E n \in BufLens : Write(n)
  <2> PICK n \in BufLens : Write(n)
    BY <1>1
  <2>1. queue \in Seq(Seq(Nat)) /\ n \in Nat /\ Len(written) \in Nat
    BY BufLensAssumption, LenProperties DEF Inv, TypeOK
  <2>2. [i \in 1 .. n |-> Len(written) + i] \in Seq(Nat)
    BY <2>1
  <2>3. queue # <<>> => Head(queue') = Head(queue)
    BY <2>1, <2>2, HeadTailAppend DEF Write
  <2>4. pc # "idle" => queue # <<>>
    BY DEF Inv, RoomLeft
  <2> QED
    BY <2>3, <2>4 DEF RoomUsed, FillsUrb, Write
<1>2. CASE \E l \in UrbLens : PostUrb(l)
  <2> PICK l \in UrbLens : PostUrb(l)
    BY <1>2
  <2>1. urbs # <<>> => Head(urbs') = Head(urbs)
    BY HeadTailAppend DEF Inv, TypeOK, PostUrb
  <2>2. pc # "idle" => urbs # <<>>
    BY DEF Inv, RoomLeft
  <2> QED
    BY <2>1, <2>2 DEF RoomUsed, FillsUrb, PostUrb
<1>3. CASE Send
  BY <1>3 DEF RoomUsed, FillsUrb, Send
<1>4. CASE UNCHANGED vars
  BY <1>4 DEF RoomUsed, FillsUrb, vars
<1> QED
  BY <1>1, <1>2, <1>3, <1>4

\* If payload stays behind, the answer had no room for another byte of it and its header:
\* maxlen is exact, for every packet size and every transfer.
THEOREM AnswersFill == Spec => []FillsUrb
<1>1. Init => RoomUsed /\ FillsUrb
  BY DEF Init, RoomUsed, FillsUrb
<1>2. Inv /\ RoomUsed /\ FillsUrb /\ [Next]_vars => (RoomUsed /\ FillsUrb)'
  BY StartFills, PackKeepsFilling, OthersKeepFilling DEF Next, Reply
<1> QED
  BY <1>1, <1>2, Invariance, PTL DEF Spec

-----------------------------------------------------------------------------
(* What the host gets. *)

\* The places of payload in an answer of n bytes, and the place of the k-th payload byte.
PayloadAt(n) == {i \in 1 .. n : (i - 1) % PktSize >= HdrSize}
Place(k) == k + HdrSize * (((k - 1) \div Chunk) + 1)

\* Arithmetic the next lemmas need of packets and chunks.
LEMMA PacketSizes ==
    /\ PktSize \in Nat \ {0} /\ Chunk \in Nat \ {0} /\ HdrSize = 2 /\ PktSize = Chunk + 2
    /\ \A m \in Nat : m * Chunk \in Nat /\ m * PktSize \in Nat /\ m * PktSize = m * Chunk + 2 * m
<1>1. PktSize \in Nat \ {0} /\ Chunk \in Nat \ {0} /\ HdrSize = 2 /\ PktSize = Chunk + 2
  BY PktSizeAssumption DEF Chunk, HdrSize
<1>2. ASSUME NEW m \in Nat
      PROVE  m * Chunk \in Nat /\ m * PktSize \in Nat /\ m * PktSize = m * Chunk + 2 * m
  <2>1. PICK c \in Nat : c = Chunk /\ PktSize = c + 2
    BY <1>1
  <2>2. m * c \in Nat /\ m * (c + 2) \in Nat /\ m * (c + 2) = m * c + 2 * m
    OBVIOUS
  <2> QED
    BY <2>1, <2>2
<1> QED
  BY <1>1, <1>2

\* Behind m whole packets the j-th byte of the next chunk is the j-th behind its header.
LEMMA NextPlace ==
    ASSUME NEW m \in Nat, NEW j \in 1 .. Chunk
    PROVE  Place(m * Chunk + j) = m * PktSize + 2 + j
<1>1. Chunk \in Nat \ {0} /\ HdrSize = 2 /\ m * Chunk \in Nat /\ m * PktSize = m * Chunk + 2 * m
  BY PacketSizes
<1>2. PICK c \in Nat \ {0} : c = Chunk /\ j \in 1 .. c
  BY <1>1
<1>3. (m * c + j - 1) \div c = m
  <2>1. m * c + j - 1 \in Nat /\ j - 1 \in 0 .. c - 1 /\ m * c + j - 1 = c * m + (j - 1)
    <3>1. m * c \in Nat /\ m * c = c * m
      OBVIOUS
    <3> QED
      BY <1>2, <3>1
  <2> QED
    BY <2>1, DivOf
<1>4. Place(m * c + j) = (m * c + j) + 2 * (m + 1)
  BY <1>1, <1>2, <1>3 DEF Place
<1>5. PICK x \in Nat : x = m * c /\ m * PktSize = x + 2 * m
  BY <1>1, <1>2
<1> QED
  BY <1>2, <1>4, <1>5

\* A packet of z payload bytes adds just these to the payload.
LEMMA PayloadGrows ==
    ASSUME NEW m \in Nat, NEW z \in 0 .. Chunk,
           NEW t \in Nat, Cardinality(PayloadAt(m * PktSize)) = t
    PROVE  Cardinality(PayloadAt(m * PktSize + 2 + z)) = t + z
<1>1. PktSize \in Nat \ {0} /\ Chunk \in Nat \ {0} /\ HdrSize = 2 /\ PktSize = Chunk + 2
      /\ m * PktSize \in Nat /\ m * PktSize = PktSize * m
  BY PacketSizes
<1>2. PICK n \in Nat, p \in Nat : n = m * PktSize /\ p = PktSize /\ n = p * m /\ z <= p - 2
  BY <1>1
<1>3. ASSUME NEW i \in n + 1 .. n + 2 + z
      PROVE  (i - 1) % p = i - 1 - n
  <2>1. PICK l \in Nat, r \in 0 .. p - 1 : l = i - 1 /\ r = i - 1 - n /\ l = p * m + r
    <3>1. i - 1 \in Nat /\ i - 1 - n \in 0 .. p - 1 /\ i - 1 = n + (i - 1 - n)
      BY <1>1, <1>2
    <3> QED
      BY <1>2, <3>1
  <2>2. p \in Nat \ {0} /\ m \in Int
    BY <1>1, <1>2
  <2>3. l % p = r
    BY <2>1, <2>2, DivOf, ZenonT(60)
  <2> QED
    BY <2>1, <2>3
<1> DEFINE old == PayloadAt(n)
<1> DEFINE new == n + 3 .. n + 2 + z
<1>4. PayloadAt(n + 2 + z) = old \cup new
  <2>1. ASSUME NEW i \in 1 .. n + 2 + z PROVE i \in PayloadAt(n + 2 + z) <=> i \in old \cup new
    <3>1. CASE i <= n
      BY <3>1 DEF PayloadAt
    <3>2. CASE i > n
      <4>1. i \in n + 1 .. n + 2 + z
        BY <3>2
      <4>2. (i - 1) % PktSize >= HdrSize <=> i - 1 - n >= 2
        BY <1>1, <1>2, <1>3, <4>1
      <4> QED
        BY <3>2, <4>1, <4>2 DEF PayloadAt
    <3> QED
      BY <3>1, <3>2
  <2> QED
    BY <2>1 DEF PayloadAt
<1>5. IsFiniteSet(old) /\ Cardinality(old) = t
  <2>1. IsFiniteSet(1 .. n)
    BY FS_Interval
  <2>2. old \in SUBSET (1 .. n)
    BY DEF PayloadAt
  <2> QED
    BY <1>2, <2>1, <2>2, FS_Subset
<1>6. IsFiniteSet(new) /\ Cardinality(new) = z
  <2>1. /\ IsFiniteSet(new)
        /\ Cardinality(new) = IF n + 3 > n + 2 + z THEN 0 ELSE n + 2 + z - (n + 3) + 1
    BY FS_Interval
  <2> QED
    BY <2>1
<1>7. old \cap new = {} /\ Cardinality({}) = 0
  BY FS_EmptySet DEF PayloadAt
<1> HIDE DEF old, new
<1>8. Cardinality(old \cup new) = Cardinality(old) + Cardinality(new) - Cardinality(old \cap new)
  BY <1>5, <1>6, FS_Union
<1>9. Cardinality(old \cup new) = t + z
  <2>1. t + z - 0 = t + z
    OBVIOUS
  <2> QED
    BY <1>5, <1>6, <1>7, <1>8, <2>1
<1> QED
  BY <1>2, <1>4, <1>9

\* What the loop has put together so far: whole packets while it goes on, and in them the
\* beginning of the buffer, each byte at the place where libftd2xx leaves it.
Packed ==
    /\ pc \in {"pack", "send"} =>
         /\ Cardinality(PayloadAt(Len(sg))) = taken
         /\ \A k \in 1 .. taken : Place(k) \in 1 .. Len(sg) /\ sg[Place(k)] = Head(queue)[k]
    /\ pc = "pack" => \E m \in Nat : taken = m * Chunk /\ Len(sg) = m * PktSize
    /\ pc = "send" => taken = consumed

\* The inductive invariant of the order.
OrderInv == received \in Seq(Nat) /\ InOrderOnce /\ Packed

\* The host's driver gets the part of the buffer that was packed.
LEMMA StrippedIsPart ==
    ASSUME Inv, Packed, pc = "send"
    PROVE  Stripped(sg) = SubSeq(Head(queue), 1, consumed)
<1>1. /\ Head(queue) \in Seq(Nat) /\ Len(Head(queue)) \in Nat /\ consumed \in Nat
      /\ consumed <= Len(Head(queue)) /\ Len(sg) \in Nat
  BY HeadsType, LenProperties DEF Inv, TypeOK, RoomLeft
<1>2. Stripped(sg) = [k \in 1 .. consumed |-> sg[Place(k)]]
  BY DEF Packed, Stripped, PayloadAt, Place
<1>3. \A k \in 1 .. consumed : sg[Place(k)] = Head(queue)[k]
  BY DEF Packed
<1>4. SubSeq(Head(queue), 1, consumed) = [k \in 1 .. consumed |-> Head(queue)[k]]
  BY <1>1
<1> QED
  BY <1>2, <1>3, <1>4

\* A round of the loop.
LEMMA PackKeepsOrder ==
    ASSUME Inv, Packed, Pack
    PROVE  Packed'
<1> DEFINE sz   == Least(consumed - taken, Chunk)
           h    == Head(queue)
           part == SubSeq(h, taken + 1, taken + sz)
<1>1. /\ h \in Seq(Nat) /\ Len(h) \in Nat /\ sg \in Seq(Nat) /\ Len(sg) \in Nat
      /\ taken \in Nat /\ consumed \in Nat /\ taken < consumed /\ consumed <= Len(h)
  BY HeadsType, LenProperties DEF Inv, TypeOK, RoomLeft, Pack
<1>2. Chunk \in Nat \ {0} /\ PktSize = Chunk + 2 /\ HdrSize = 2
  BY PacketSizes
<1>3. /\ sz \in 1 .. Chunk /\ sz <= consumed - taken
      /\ (taken + sz # consumed => sz = Chunk)
  BY <1>1, <1>2 DEF Least
<1>4. PICK m \in Nat : taken = m * Chunk /\ Len(sg) = m * PktSize
  BY DEF Packed, Pack
<1>5. /\ sg' = sg \o <<0, 0>> \o part /\ taken' = taken + sz
      /\ pc' = IF taken + sz = consumed THEN "send" ELSE "pack"
      /\ UNCHANGED <<queue, consumed>>
  BY DEF Pack, PacketHeader, StatusByte
<1>6. Len(sg') = Len(sg) + 2 + sz
  BY <1>2, PackedLength
<1>7. Cardinality(PayloadAt(Len(sg'))) = taken + sz
  <2>1. Cardinality(PayloadAt(m * PktSize)) = taken
    BY <1>4 DEF Packed, Pack
  <2>2. sz \in 0 .. Chunk
    BY <1>3
  <2> HIDE DEF sz
  <2> QED
    BY <1>1, <1>4, <1>6, <2>1, <2>2, PayloadGrows
<1>8. part \in Seq(Nat) /\ Len(part) = sz /\ \A j \in 1 .. sz : part[j] = h[taken + j]
  <2> HIDE DEF sz, h
  <2>1. taken + sz <= Len(h) /\ sz \in Nat
    BY <1>1, <1>2, <1>3
  <2> QED
    BY <1>1, <2>1, SMTT(60)
<1> HIDE DEF sz, part, h
<1>9. /\ \A i \in 1 .. Len(sg) : sg'[i] = sg[i]
      /\ \A j \in 1 .. sz : sg'[Len(sg) + 2 + j] = part[j]
  <2>1. /\ sg \o <<0, 0>> \in Seq(Nat) /\ Len(sg \o <<0, 0>>) = Len(sg) + 2
        /\ \A i \in 1 .. Len(sg) : (sg \o <<0, 0>>)[i] = sg[i]
    BY <1>1
  <2>2. PICK a \in Seq(Nat) : a = sg \o <<0, 0>>
    BY <2>1
  <2>3. sg' = a \o part /\ Len(a) = Len(sg) + 2 /\ \A i \in 1 .. Len(sg) : a[i] = sg[i]
    BY <1>5, <2>1, <2>2
  <2>4. /\ \A i \in 1 .. Len(a) : (a \o part)[i] = a[i]
        /\ \A j \in 1 .. Len(part) : (a \o part)[Len(a) + j] = part[j]
    <3>1. part \in Seq(Nat)
      BY <1>8
    <3> QED
      BY <3>1
  <2>5. PICK l \in Nat : l = Len(sg) /\ Len(a) = l + 2
    BY <1>1, <2>3
  <2>6. \A i \in 1 .. l : i \in 1 .. l + 2
    OBVIOUS
  <2> QED
    BY <1>8, <2>3, <2>4, <2>5, <2>6
<1>10. ASSUME NEW k \in 1 .. taken + sz
       PROVE  Place(k) \in 1 .. Len(sg') /\ sg'[Place(k)] = h[k]
  <2>1. CASE k <= taken
    <3>0. k \in 1 .. taken /\ pc \in {"pack", "send"}
      BY <1>1, <1>3, <2>1 DEF Pack
    <3>1. Place(k) \in 1 .. Len(sg) /\ sg[Place(k)] = h[k]
      BY <3>0, Zenon DEF Packed, h
    <3> QED
      BY <1>1, <1>3, <1>6, <1>9, <3>1, SMTT(60)
  <2>2. CASE k > taken
    <3>1. PICK j \in 1 .. sz : k = taken + j
      <4>1. k - taken \in 1 .. sz /\ k = taken + (k - taken)
        BY <1>1, <1>3, <2>2
      <4> QED
        BY <4>1
    <3>2. j \in 1 .. Chunk
      BY <1>2, <1>3
    <3>3. Place(k) = Len(sg) + 2 + j
      BY <1>4, <3>1, <3>2, NextPlace
    <3>4. Len(sg) + 2 + j \in 1 .. Len(sg')
      BY <1>1, <1>3, <1>6
    <3> QED
      BY <1>8, <1>9, <3>1, <3>3, <3>4
  <2> QED
    BY <1>1, <1>3, <2>1, <2>2
<1>11. pc' = "pack" => \E n \in Nat : taken' = n * Chunk /\ Len(sg') = n * PktSize
  <2> SUFFICES ASSUME pc' = "pack"
               PROVE  taken' = (m + 1) * Chunk /\ Len(sg') = (m + 1) * PktSize
    OBVIOUS
  <2>1. sz = Chunk
    BY <1>3, <1>5
  <2>2. (m + 1) * Chunk = m * Chunk + Chunk /\ (m + 1) * PktSize = m * PktSize + PktSize
    BY <1>2
  <2>3. m * Chunk \in Nat /\ m * PktSize \in Nat
    BY PacketSizes
  <2> QED
    BY <1>2, <1>4, <1>5, <1>6, <2>1, <2>2, <2>3
<1>12. Packed'
  <2>1. Cardinality(PayloadAt(Len(sg)))' = Cardinality(PayloadAt(Len(sg')))
    BY DEF PayloadAt, HdrSize
  <2>2. \A k \in 1 .. taken' : Place(k) \in 1 .. Len(sg') /\ sg'[Place(k)] = Head(queue')[k]
    BY <1>5, <1>10 DEF h
  <2> QED
    BY <1>5, <1>7, <1>11, <2>1, <2>2 DEF Packed
<1> QED
  BY <1>12

\* The first call: nothing is packed, or the answer is just a header.
LEMMA StartKeepsOrder ==
    ASSUME Inv, StartReply
    PROVE  Packed'
<1>1. taken' = 0 /\ \A k \in 1 .. 0 : FALSE
  BY DEF StartReply
<1>2. CASE consumed' = 0
  <2>1. sg' = <<0, 0>> /\ pc' = "send" /\ Len(<<0, 0>>) = 2
    BY <1>2 DEF StartReply, StatusByte
  <2>2. PayloadAt(2) = {}
    <3>1. PktSize \in Nat /\ PktSize > 2 /\ HdrSize = 2
      BY PktSizeAssumption DEF HdrSize
    <3>2. \A i \in 1 .. 2 : (i - 1) % PktSize = i - 1
      BY <3>1
    <3> QED
      BY <3>1, <3>2 DEF PayloadAt
  <2>3. Cardinality({}) = 0
    BY FS_EmptySet
  <2> QED
    BY <1>1, <1>2, <2>1, <2>2, <2>3 DEF Packed
<1>3. CASE consumed' # 0
  <2>1. sg' = <<>> /\ pc' = "pack" /\ Len(<<>>) = 0
    BY <1>3 DEF StartReply
  <2>2. PayloadAt(0) = {} /\ Cardinality({}) = 0
    BY FS_EmptySet DEF PayloadAt
  <2>3. 0 * Chunk = 0 /\ 0 * PktSize = 0
    BY PacketSizes
  <2> QED
    BY <1>1, <2>1, <2>2, <2>3 DEF Packed
<1> QED
  BY <1>2, <1>3

\* A buffer put in front of a queue is its head.
LEMMA HeadedBy ==
    ASSUME NEW x \in Seq(Nat), NEW t \in Seq(Seq(Nat))
    PROVE  /\ <<x>> \o t \in Seq(Seq(Nat)) /\ <<x>> \o t # <<>>
           /\ Head(<<x>> \o t) = x /\ Tail(<<x>> \o t) = t
<1>1. <<x>> \in Seq(Seq(Nat)) /\ Len(<<x>>) = 1 /\ <<x>>[1] = x
  OBVIOUS
<1>2. PICK n \in Nat : n = Len(t)
  BY LenProperties
<1>3. PICK u \in Seq(Seq(Nat)) : u = <<x>> \o t
  BY <1>1, ConcatProperties
<1>4. /\ Len(u) = n + 1 /\ u[1] = x
      /\ \A i \in 1 .. n : u[i + 1] = t[i]
  <2>1. Len(u) = 1 + n
    BY <1>1, <1>2, <1>3, ConcatProperties
  <2>2. \A i \in 1 .. 1 + n : u[i] = IF i <= 1 THEN <<x>>[i] ELSE t[i - 1]
    BY <1>1, <1>2, <1>3, ConcatProperties
  <2>3. u[1] = x
    <3>1. 1 \in 1 .. 1 + n
      OBVIOUS
    <3> QED
      BY <1>1, <2>2, <3>1
  <2>4. ASSUME NEW i \in 1 .. n PROVE u[i + 1] = t[i]
    <3>1. i + 1 \in 1 .. 1 + n /\ ~ (i + 1 <= 1) /\ (i + 1) - 1 = i
      OBVIOUS
    <3> QED
      BY <2>2, <3>1
  <2>5. 1 + n = n + 1
    OBVIOUS
  <2> QED
    BY <2>1, <2>3, <2>4, <2>5
<1>5. u # <<>>
  BY <1>4, EmptySeq
<1>6. Head(u) = x
  BY <1>4, <1>5
<1>7. Tail(u) = t
  <2>1. Tail(u) \in Seq(Seq(Nat)) /\ Len(Tail(u)) = n
        /\ \A i \in 1 .. n : Tail(u)[i] = u[i + 1]
    BY <1>4, <1>5, HeadTailProperties
  <2> QED
    BY <1>2, <1>4, <2>1, SeqEqual, SMTT(40)
<1> QED
  BY <1>3, <1>5, <1>6, <1>7

\* A buffer is the part in front of any place in it and the part behind that place.
LEMMA CutAt ==
    ASSUME NEW h \in Seq(Nat), NEW c \in 0 .. Len(h)
    PROVE  /\ SubSeq(h, 1, c) \in Seq(Nat) /\ From(h, c) \in Seq(Nat)
           /\ SubSeq(h, 1, c) \o From(h, c) = h
           /\ c = Len(h) => SubSeq(h, 1, c) = h
<1>1. SubSeq(h, 1, c) \in Seq(Nat) /\ SubSeq(h, c + 1, Len(h)) \in Seq(Nat)
  <2>1. PICK n \in Nat : n = Len(h)
    BY LenProperties
  <2>2. \A i \in 1 .. n : h[i] \in Nat
    BY <2>1, ElementOfSeq
  <2>3. \A i \in 1 .. c : h[i] \in Nat
    BY <2>1, <2>2
  <2>4. \A i \in c + 1 .. n : h[i] \in Nat
    BY <2>1, <2>2
  <2> QED
    BY <2>1, <2>3, <2>4
<1>2. SubSeq(h, 1, c) \o SubSeq(h, c + 1, Len(h)) = h
  <2>1. 1 \in 1 .. Len(h) + 1 /\ c \in 1 - 1 .. Len(h) /\ Len(h) \in c .. Len(h)
    OBVIOUS
  <2>2. SubSeq(h, 1, c) \o SubSeq(h, c + 1, Len(h)) = SubSeq(h, 1, Len(h))
    BY <2>1, ConcatAdjacentSubSeq
  <2> QED
    BY <2>2, SubSeqFull
<1>3. c = Len(h) => SubSeq(h, 1, c) = h
  OBVIOUS
<1> QED
  BY <1>1, <1>2, <1>3 DEF From

\* Concatenation regrouped, for four sequences.
LEMMA Regrouped ==
    ASSUME NEW r \in Seq(Nat), NEW a \in Seq(Nat), NEW b \in Seq(Nat), NEW f \in Seq(Nat)
    PROVE  (r \o a) \o (b \o f) = r \o ((a \o b) \o f)
<1> DEFINE cat(s, u) == s \o u
<1>1. \A x, y \in Seq(Nat) : cat(x, y) \in Seq(Nat)
  BY NatConcat, Zenon
<1>2. \A x, y, z \in Seq(Nat) : cat(cat(x, y), z) = cat(x, cat(y, z))
  BY NatConcat, Zenon
<1>3. cat(cat(r, a), cat(b, f)) = cat(r, cat(cat(a, b), f))
  <2> HIDE DEF cat
  <2>1. cat(b, f) \in Seq(Nat)
    BY <1>1
  <2>2. cat(cat(r, a), cat(b, f)) = cat(r, cat(a, cat(b, f)))
    BY <1>2, <2>1
  <2>3. cat(a, cat(b, f)) = cat(cat(a, b), f)
    BY <1>2
  <2> QED
    BY <2>2, <2>3
<1> QED
  BY <1>3

\* A part of the first buffer goes to the host: what it has and what is queued stay the
\* same bytes in the same order.
LEMMA DropPart ==
    ASSUME NEW q \in Seq(Seq(Nat)), q # <<>>, NEW r \in Seq(Nat), NEW c \in 0 .. Len(Head(q)),
           NEW rest, rest = IF c = Len(Head(q)) THEN Tail(q)
                            ELSE <<From(Head(q), c)>> \o Tail(q)
    PROVE  (r \o SubSeq(Head(q), 1, c)) \o FlattenSeq(rest) = r \o FlattenSeq(q)
<1>1. Head(q) \in Seq(Nat) /\ Tail(q) \in Seq(Seq(Nat))
  BY HeadTailProperties
<1> DEFINE a == SubSeq(Head(q), 1, c)
           b == From(Head(q), c)
           f == FlattenSeq(Tail(q))
<1>2. a \in Seq(Nat) /\ b \in Seq(Nat) /\ a \o b = Head(q) /\ (c = Len(Head(q)) => a = Head(q))
  BY <1>1, CutAt
<1>3. f \in Seq(Nat) /\ FlattenSeq(q) = Head(q) \o f
  BY <1>1, FlattenType, FlattenTail
<1>4. CASE c = Len(Head(q))
  <2>1. rest = Tail(q) /\ a = Head(q)
    BY <1>2, <1>4
  <2>2. (r \o Head(q)) \o f = r \o (Head(q) \o f)
    <3> HIDE DEF f
    <3> QED
      BY <1>1, <1>3, NatConcat, ZenonT(60)
  <2> QED
    BY <1>3, <2>1, <2>2
<1>5. CASE c # Len(Head(q))
  <2>1. rest = <<b>> \o Tail(q)
    BY <1>5
  <2>2. FlattenSeq(<<b>> \o Tail(q)) = b \o f
    <3> HIDE DEF b
    <3>1. \A x \in Seq(Nat), t \in Seq(Seq(Nat)) :
            <<x>> \o t \in Seq(Seq(Nat)) /\ <<x>> \o t # <<>>
            /\ Head(<<x>> \o t) = x /\ Tail(<<x>> \o t) = t
      BY HeadedBy
    <3>2. \A s \in Seq(Seq(Nat)) : s # <<>> => FlattenSeq(s) = Head(s) \o FlattenSeq(Tail(s))
      BY FlattenTail
    <3> QED
      BY <1>1, <1>2, <3>1, <3>2, ZenonT(60)
  <2>3. (r \o a) \o (b \o f) = r \o ((a \o b) \o f)
    <3> HIDE DEF a, b, f
    <3>1. a \in Seq(Nat) /\ b \in Seq(Nat) /\ f \in Seq(Nat)
      BY <1>2, <1>3
    <3>2. \A x, y, z \in Seq(Nat) : (r \o x) \o (y \o z) = r \o ((x \o y) \o z)
      BY Regrouped, Zenon
    <3>3. \A y, z \in Seq(Nat) : (r \o a) \o (y \o z) = r \o ((a \o y) \o z)
      BY <3>1, <3>2, Zenon
    <3> QED
      BY <3>1, <3>3, Zenon
  <2> QED
    BY <1>2, <1>3, <2>1, <2>2, <2>3
<1> QED
  BY <1>4, <1>5

\* An answer moves its payload from the buffers to the host.
LEMMA SendKeepsOrder ==
    ASSUME Inv, OrderInv, Send
    PROVE  OrderInv'
<1>1. /\ queue \in Seq(Seq(Nat)) /\ queue # <<>> /\ received \in Seq(Nat)
      /\ Head(queue) \in Seq(Nat) /\ consumed \in 0 .. Len(Head(queue))
  BY HeadsType DEF Inv, TypeOK, RoomLeft, OrderInv, Send
<1>2. received' = received \o SubSeq(Head(queue), 1, consumed)
  BY StrippedIsPart DEF OrderInv, Send
<1>3. SubSeq(Head(queue), 1, consumed) \in Seq(Nat)
  BY <1>1
<1>4. received' \in Seq(Nat)
  BY <1>1, <1>2, <1>3, ConcatProperties
<1>5. received' \o FlattenSeq(queue') = received \o FlattenSeq(queue)
  <2>1. queue' = IF consumed = Len(Head(queue)) THEN Tail(queue)
                 ELSE <<From(Head(queue), consumed)>> \o Tail(queue)
    BY DEF Send
  <2> QED
    BY <1>1, <1>2, <2>1, DropPart
<1>6. InOrderOnce'
  BY <1>5 DEF OrderInv, InOrderOnce, Send
<1>7. Packed'
  BY DEF Packed, Send
<1> QED
  BY <1>4, <1>6, <1>7 DEF OrderInv

\* A buffer more is the last of what waits and of what was written.
LEMMA WriteKeepsOrder ==
    ASSUME Inv, OrderInv, NEW n \in BufLens, Write(n)
    PROVE  OrderInv'
<1> DEFINE buf == [i \in 1 .. n |-> Len(written) + i]
<1>1. /\ n \in Nat /\ Len(written) \in Nat /\ written \in Seq(Nat)
      /\ queue \in Seq(Seq(Nat)) /\ received \in Seq(Nat)
  BY BufLensAssumption, LenProperties DEF Inv, TypeOK, OrderInv
<1>2. buf \in Seq(Nat)
  BY <1>1
<1>3. written' = written \o buf /\ queue' = Append(queue, buf)
  BY DEF Write
<1> HIDE DEF buf
<1>4. InOrderOnce'
  <2>1. FlattenSeq(queue') = FlattenSeq(queue) \o buf
    BY <1>1, <1>2, <1>3, FlattenAppend
  <2>2. FlattenSeq(queue) \in Seq(Nat)
    BY <1>1, FlattenType
  <2>3. (received \o FlattenSeq(queue)) \o buf = received \o (FlattenSeq(queue) \o buf)
    <3>1. \A x, y, z \in Seq(Nat) : (x \o y) \o z = x \o (y \o z)
      BY NatConcat, Zenon
    <3> QED
      BY <1>1, <1>2, <2>2, <3>1, ZenonT(60)
  <2> QED
    BY <1>3, <2>1, <2>3 DEF OrderInv, InOrderOnce, Write
<1>5. Packed'
  <2>1. queue # <<>> => Head(queue') = Head(queue)
    BY <1>1, <1>2, <1>3, HeadTailAppend
  <2>2. pc # "idle" => queue # <<>>
    BY DEF Inv, RoomLeft
  <2> QED
    BY <2>1, <2>2 DEF OrderInv, Packed, PayloadAt, Write
<1> QED
  BY <1>1, <1>4, <1>5 DEF OrderInv, Write

\* At first nothing was written, waits or was received.
LEMMA InitOrder == Init => OrderInv
<1> SUFFICES ASSUME Init PROVE OrderInv
  OBVIOUS
<1>1. received = <<>> /\ queue = <<>> /\ written = <<>> /\ pc = "idle"
  BY DEF Init
<1>2. <<>> \in Seq(Nat) /\ <<>> \in Seq(Seq(Nat)) /\ <<>> \o <<>> = <<>>
  OBVIOUS
<1>3. FlattenSeq(<<>>) = <<>>
  BY <1>2, FlattenType
<1> QED
  BY <1>1, <1>2, <1>3 DEF OrderInv, InOrderOnce, Packed

\* Every step keeps the order.
LEMMA NextKeepsOrder ==
    ASSUME Inv, OrderInv, [Next]_vars
    PROVE  OrderInv'
<1>1. CASE \E n \in BufLens : Write(n)
  BY <1>1, WriteKeepsOrder
<1>2. CASE \E l \in UrbLens : PostUrb(l)
  BY <1>2 DEF OrderInv, InOrderOnce, Packed, PayloadAt, PostUrb
<1>3. CASE StartReply
  <2>1. Packed'
    BY <1>3, StartKeepsOrder
  <2> QED
    BY <1>3, <2>1 DEF OrderInv, InOrderOnce, StartReply
<1>4. CASE Pack
  <2>1. Packed'
    BY <1>4, PackKeepsOrder DEF OrderInv
  <2> QED
    BY <1>4, <2>1 DEF OrderInv, InOrderOnce, Pack
<1>5. CASE Send
  BY <1>5, SendKeepsOrder
<1>6. CASE UNCHANGED vars
  BY <1>6 DEF OrderInv, InOrderOnce, Packed, PayloadAt, vars
<1> QED
  BY <1>1, <1>2, <1>3, <1>4, <1>5, <1>6 DEF Next, Reply

\* The host's driver, which drops two bytes of every packet, gets what the handler wrote,
\* in order and once, for every packet size, transfer length and buffer: _reply's headers
\* are where the driver looks for them, and consumed_len is what the driver got.
THEOREM HostGetsAllInOrder == Spec => []InOrderOnce
<1>1. Init => OrderInv
  BY InitOrder
<1>2. Inv /\ OrderInv /\ [Next]_vars => OrderInv'
  BY NextKeepsOrder
<1>3. OrderInv => InOrderOnce
  BY DEF OrderInv
<1> QED
  BY <1>1, <1>2, <1>3, Invariance, PTL DEF Spec
=============================================================================
