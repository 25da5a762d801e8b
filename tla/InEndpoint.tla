----------------------------- MODULE InEndpoint -----------------------------
(***************************************************************************)
(* The IN endpoint of a channel: VirtualFTDIDevice::_reply puts the bytes  *)
(* the handler wrote into the USB transfers (URBs) the host asks for.  The *)
(* FTDI sends two bytes of modem status at the start of every USB packet,  *)
(* and libftd2xx removes two bytes from every packet it gets, so _reply    *)
(* has to put them exactly at the packet boundaries and has to tell the    *)
(* library how much of the payload went out.                               *)
(*                                                                         *)
(* The library's queues and the host's side are external: a buffer stays   *)
(* at the head of its queue until all of it went out.                      *)
(***************************************************************************)
EXTENDS Integers, FiniteSets, SequencesExt

CONSTANTS
    PktSize,     \* wMaxPacketSize of the endpoint
    UrbLens,     \* lengths of the IN transfers the host asks for
    BufLens,     \* lengths of the buffers the device writes
    MaxWrites,   \* bound: buffers written
    MaxUrbs      \* bound: transfers the host has outstanding

HdrSize == 2
Chunk == PktSize - HdrSize
StatusByte == 0

ASSUME PktSizeAssumption == PktSize \in Nat /\ PktSize > HdrSize
\* A transfer shorter than the header is answered with the header all the same.
ASSUME UrbLensAssumption == UrbLens \subseteq Nat /\ \A l \in UrbLens : l >= HdrSize
ASSUME BufLensAssumption == BufLens \subseteq Nat
ASSUME InBoundsAssumption == MaxWrites \in Nat /\ MaxUrbs \in Nat

VARIABLES
    written,     \* all bytes written so far (the n-th byte is n)
    writes,      \* buffers written so far
    queue,       \* the library's queue of buffers not yet sent
    urbs,        \* the library's queue of IN transfers not yet answered
    pc,          \* "idle", "pack": in _reply's loop, "send"
    consumed,    \* consumed_len
    taken,       \* bytes of the head buffer packed so far
    sg,          \* the bytes of the answer so far (the scatter-gather list, flattened)
    received     \* payload the host's driver has taken out of the answers

vars == <<written, writes, queue, urbs, pc, consumed, taken, sg, received>>

Least(a, b) == IF a < b THEN a ELSE b
From(s, n) == SubSeq(s, n + 1, Len(s))

LooseQuota(len) == (len \div PktSize) * Chunk + (len % PktSize)
StingyQuota(len) == (len \div PktSize) * Chunk

\* maxlen: the payload a transfer has room for beside the headers.
Quota(len) ==
    (len \div PktSize) * Chunk
      + (IF (len % PktSize) > HdrSize THEN (len % PktSize) - HdrSize ELSE 0)

\* libftd2xx: what is left of an answer without the first two bytes of each packet.
Stripped(s) ==
    LET payload == {i \in 1 .. Len(s) : (i - 1) % PktSize >= HdrSize}
    IN [k \in 1 .. Cardinality(payload) |-> s[k + HdrSize * (((k - 1) \div Chunk) + 1)]]

\* The handler writes a buffer; an empty one makes the device send its status.
Write(n) ==
    /\ writes < MaxWrites
    /\ LET buf == [i \in 1 .. n |-> Len(written) + i]
       IN /\ written' = written \o buf
          /\ queue' = Append(queue, buf)
    /\ writes' = writes + 1
    /\ UNCHANGED <<urbs, pc, consumed, taken, sg, received>>

PostUrb(l) ==
    /\ Len(urbs) < MaxUrbs
    /\ urbs' = Append(urbs, l)
    /\ UNCHANGED <<written, writes, queue, pc, consumed, taken, sg, received>>

\* The library calls _reply with the oldest transfer and the oldest buffer.
StartReply ==
    /\ pc = "idle" /\ queue # <<>> /\ urbs # <<>>
    /\ consumed' = Least(Quota(Head(urbs)), Len(Head(queue)))
    /\ taken' = 0
    /\ IF consumed' = 0
       THEN sg' = <<StatusByte, StatusByte>> /\ pc' = "send"
       ELSE sg' = <<>> /\ pc' = "pack"
    /\ UNCHANGED <<written, writes, queue, urbs, received>>

HeaderOnce(s) == IF s = <<>> THEN <<StatusByte, StatusByte>> ELSE <<>>

\* The modem status in front of the next packet.
PacketHeader(s) == <<StatusByte, StatusByte>>

\* One round of the loop: a header and at most a packet's worth of payload.
Pack ==
    /\ pc = "pack"
    /\ LET sz == Least(consumed - taken, Chunk)
       IN /\ sg' = sg \o PacketHeader(sg) \o SubSeq(Head(queue), taken + 1, taken + sz)
          /\ taken' = taken + sz
          /\ pc' = IF taken + sz = consumed THEN "send" ELSE "pack"
    /\ UNCHANGED <<written, writes, queue, urbs, consumed, received>>

\* The answer goes out and _reply returns consumed_len: the library drops as much of
\* the buffer, and the buffer when it is used up.
Send ==
    /\ pc = "send"
    /\ received' = received \o Stripped(sg)
    /\ urbs' = Tail(urbs)
    /\ queue' = IF consumed = Len(Head(queue)) THEN Tail(queue)
                ELSE <<From(Head(queue), consumed)>> \o Tail(queue)
    /\ pc' = "idle" /\ consumed' = 0 /\ taken' = 0 /\ sg' = <<>>
    /\ UNCHANGED <<written, writes>>

Init ==
    /\ written = <<>> /\ writes = 0
    /\ queue = <<>> /\ urbs = <<>>
    /\ pc = "idle" /\ consumed = 0 /\ taken = 0 /\ sg = <<>>
    /\ received = <<>>

Reply == StartReply \/ Pack \/ Send

Next ==
    \/ \E n \in BufLens : Write(n)
    \/ \E l \in UrbLens : PostUrb(l)
    \/ Reply

Spec == Init /\ [][Next]_vars

\* The library answers when it can; the host asks again and again for transfers that
\* have room for payload.
FairSpec == /\ Spec
            /\ WF_vars(Reply)
            /\ SF_vars(\E l \in UrbLens : l > HdrSize /\ PostUrb(l))

-----------------------------------------------------------------------------
\* The types of the device's variables: a transfer that is just the header must not make
\* the payload's length negative (what the host receives is InOrderOnce's matter).
TypeOK ==
    /\ written \in Seq(Nat)
    /\ writes \in 0 .. MaxWrites
    /\ queue \in Seq(Seq(Nat))
    /\ urbs \in Seq(UrbLens)
    /\ pc \in {"idle", "pack", "send"}
    /\ consumed \in Nat /\ taken \in Nat
    /\ sg \in Seq(Nat)

\* In the loop what is still to be packed fits what is left of the transfer, headers
\* included.
RoomLeft ==
    /\ pc # "idle" => urbs # <<>> /\ queue # <<>> /\ taken <= consumed
                      /\ consumed <= Len(Head(queue))
    /\ pc = "pack" => /\ taken < consumed
                      /\ consumed - taken <= Quota(Head(urbs) - Len(sg))

\* The answer never gets longer than the transfer the host asked for.
FitsUrb == pc # "idle" => Len(sg) <= Head(urbs)

\* The inductive invariant: types, and that no answer outgrows its transfer.
Inv == TypeOK /\ RoomLeft /\ FitsUrb

\* If payload is left behind, another byte would not have fit.
FillsUrb ==
    pc = "send" /\ consumed < Len(Head(queue)) => Len(sg) + HdrSize >= Head(urbs)

\* What the host's driver gets is a prefix of what the handler wrote, in order, nothing
\* lost or repeated, no status byte mistaken for payload, and the rest is still queued.
InOrderOnce == received \o FlattenSeq(queue) = written

\* Whatever the handler writes reaches the host.
Delivered == queue # <<>> ~> queue = <<>>
=============================================================================
