------------------------- MODULE VirtualFTDIProofs -------------------------
(***************************************************************************)
(* What holds of VirtualFTDI for every number of channels, every command   *)
(* the host may write, every way of cutting the bytes into transfers and   *)
(* every fault: its types, that a kept fragment always lacks something,    *)
(* that fragments are only ever extended or shifted out whole, that a      *)
(* channel without adapter stays in loopback, that the handler keeps in    *)
(* step with the commands of the host, and that the device implements the  *)
(* abstract stream of commands.                                            *)
(***************************************************************************)
EXTENDS VirtualFTDIStream, FlattenProofs

-----------------------------------------------------------------------------
(* Lemmas on the helpers. *)

\* What is left of a byte sequence after dropping some of it is one, and its length.
LEMMA DropType ==
    ASSUME NEW S, NEW s \in Seq(S), NEW n \in Nat
    PROVE  /\ Drop(s, n) \in Seq(S)
           /\ Len(Drop(s, n)) = IF n <= Len(s) THEN Len(s) - n ELSE 0
           /\ n >= Len(s) => Drop(s, n) = <<>>
<1>1. Len(s) \in Nat
  OBVIOUS
<1>2. n >= Len(s) => SubSeq(s, n + 1, Len(s)) = <<>>
  BY <1>1, SubSeqEmpty
<1> QED
  BY <1>2 DEF Drop

\* A prefix of a byte sequence.
LEMMA PrefixType ==
    ASSUME NEW S, NEW s \in Seq(S), NEW m \in Nat, m >= 1, NEW n \in Nat, n <= Len(s)
    PROVE  SubSeq(s, m, n) \in Seq(S)
BY DEF Drop

\* The bytes of an encoded command or of a transfer.
LEMMA BytesType ==
    ASSUME NEW w \in Seq(WireByte)
    PROVE  Bytes(w) \in Seq(Byte) /\ Len(Bytes(w)) = Len(w)
<1>1. \A i \in 1 .. Len(w) : w[i] \in WireByte
  BY ElementOfSeq
<1>2. \A i \in 1 .. Len(w) : w[i].byte \in Byte
  BY <1>1 DEF WireByte
<1>3. Len(w) \in Nat
  OBVIOUS
<1> QED
  BY <1>2, <1>3 DEF Bytes

\* A length in the form a header has it is two bytes.
LEMMA EncodedType ==
    ASSUME NEW c \in Seq(Byte)
    PROVE  Encoded(c) \in Seq(WireByte)
<1>1. \A i \in 1 .. Len(c) : [byte |-> c[i], cut |-> CutAfter(c, i)] \in WireByte
  BY ElementOfSeq DEF WireByte, CutAfter, CutKinds
<1> QED
  BY <1>1 DEF Encoded

\* Zeros are bytes.
LEMMA ZerosType ==
    ASSUME NEW n \in Nat
    PROVE  Zeros(n) \in Seq(Byte) /\ Len(Zeros(n)) = n
BY DEF Zeros, Byte

\* The answers of an adapter are bytes, as many as asked for at most.
LEMMA AnswersType ==
    ASSUME NEW n \in Nat, NEW rx \in Answers(n)
    PROVE  rx \in Seq(Byte) /\ Len(rx) <= n
BY TdoAssumption DEF Answers

\* A bit shift always answers with one byte.
LEMMA BitReplyType ==
    ASSUME NEW rx \in Seq(Byte)
    PROVE  BitReply(rx) \in Seq(Byte)
<1>1. CASE rx = <<>>
  <2>1. 0 \in Byte
    BY DEF Byte
  <2> QED
    BY <1>1, <2>1 DEF BitReply
<1>2. CASE rx # <<>>
  BY <1>2, HeadTailProperties DEF BitReply
<1> QED
  BY <1>1, <1>2

\* A byte read from the transfer, or from behind it, is a byte.
LEMMA NextByteType ==
    ASSUME data \in Seq(Byte), NEW k \in Nat \ {0}, NEW b \in NextByte(k)
    PROVE  b \in Byte
BY StrayAssumption DEF NextByte

\* The high byte of a request's value.
LEMMA HighByteType ==
    ASSUME NEW v \in Word
    PROVE  v \div 256 \in Byte
<1>1. v \in Int /\ 0 <= v /\ v < 256 * 256
  <2>1. PICK n \in Nat : n = 256 * 256 - 1
    OBVIOUS
  <2>2. v \in 0 .. n
    BY <2>1, Zenon DEF Word
  <2>3. v \in Int /\ 0 <= v /\ v <= n
    BY <2>2
  <2> QED BY <2>1, <2>3
<1> DEFINE q == v \div 256
<1>2. q \in Int /\ 256 * q <= v /\ v < 256 * q + 256
  BY <1>1, SMT
<1> HIDE DEF q
<1>3. q \in Int /\ 0 <= q /\ q <= 255
  BY <1>1, <1>2, SMT
<1>4. q \in Byte
  BY <1>3 DEF Byte
<1> QED
  BY <1>4 DEF q

\* A byte count fits the modulus it is computed in.
LEMMA ByteCountType ==
    ASSUME NEW lo \in Byte, NEW hi \in Byte
    PROVE  ByteCount(lo, hi) \in 0 .. CountMod - 1
BY CountModAssumption DEF ByteCount, Byte

\* What a shift may come back with is bytes.
LEMMA OutcomesType ==
    ASSUME TypeOK, NEW tx \in Seq(Byte), NEW bits \in Byte,
           NEW shift \in {"TDI", "TMS_LO", "TMS_HI"},
           NEW n \in Nat, tx = <<>> \/ n <= Len(tx),
           NEW o \in Outcomes(tx, bits, shift, n)
    PROVE  /\ o.rx \in Seq(Byte)
           /\ o.calls \in Seq(Call)
           /\ o.calls = exec[cur] \/ \E rx \in Answers(n) :
                 o.calls = Append(exec[cur], ShiftCall(tx, bits, shift, rx))
<1>1. CASE loopback[cur]
  <2>1. o = [rx |-> LoopbackReply(tx, n), calls |-> exec[cur]]
    BY <1>1 DEF Outcomes
  <2>2. LoopbackReply(tx, n) \in Seq(Byte)
    BY ZerosType, PrefixType DEF LoopbackReply
  <2> QED
    BY <2>1, <2>2 DEF TypeOK, OutsideType, TransferType
<1>2. CASE ~loopback[cur]
  <2>1. PICK rx \in Answers(n) :
          o = [rx |-> rx, calls |-> Append(exec[cur], ShiftCall(tx, bits, shift, rx))]
    BY <1>2 DEF Outcomes
  <2>2. rx \in Seq(Byte)
    BY AnswersType
  <2>3. ShiftCall(tx, bits, shift, rx) \in Call
    BY <2>2 DEF ShiftCall, Call
  <2> QED
    BY <2>1, <2>2, <2>3, AppendProperties DEF TypeOK, OutsideType, TransferType
<1> QED
  BY <1>1, <1>2

\* Advancing inside the transfer keeps a byte sequence and the thread in the loop, or
\* ends the process.
LEMMA ConsumeType ==
    ASSUME data \in Seq(Byte), NEW n \in Nat, Consume(n)
    PROVE  /\ data' \in Seq(Byte)
           /\ pc' \in {"loop", "halted"}
           /\ n >= Len(data) => data' = <<>>
BY DropType DEF Consume

-----------------------------------------------------------------------------
(* The invariant.  One lemma per action that touches more than a variable or two. *)

\* Inv holds at first.
LEMMA InitInv == Init => Inv
<1> SUFFICES ASSUME Init PROVE Inv
  OBVIOUS
<1>1. ChannelType
  BY CountModAssumption, EmptySeq DEF Init, ChannelType, Byte
<1>2. TransferType
  <2>1. cur \in Channels
    BY NumChannelsAssumption DEF Init, Channels, Byte
  <2>2. data \in Seq(Byte) /\ rep \in Seq(Byte)
    BY EmptySeq DEF Init
  <2> QED
    BY <2>1, <2>2 DEF Init, TransferType, PcKinds, CutKinds
<1>3. OutsideType
  BY BoundsAssumption, EmptySeq DEF Init, OutsideType
<1>4. FragmentOpen /\ FragmentFirst /\ LoopbackWithoutAdapter
  BY DEF Init, FragmentOpen, FragmentFirst, LoopbackWithoutAdapter
<1> QED
  BY <1>1, <1>2, <1>3, <1>4 DEF Inv, TypeOK

\* Steps that touch neither the channels nor the transfer leave the fragments in order.
LEMMA HostInv ==
    ASSUME Inv, UNCHANGED <<chanVars, xferVars>>, OutsideType'
    PROVE  Inv'
<1>1. ChannelType' /\ TransferType'
  BY DEF Inv, TypeOK, ChannelType, TransferType, chanVars, xferVars
<1>2. FragmentOpen' /\ FragmentFirst' /\ LoopbackWithoutAdapter'
  BY DEF Inv, FragmentOpen, FragmentFirst, LoopbackWithoutAdapter, chanVars, xferVars
<1> QED
  BY <1>1, <1>2 DEF Inv, TypeOK

\* A command the host writes is bytes on the wire.
LEMMA IssueInv ==
    ASSUME Inv, NEW ch \in Channels, NEW c \in Commands, Issue(ch, c)
    PROVE  Inv'
<1>1. Encoded(c) \in Seq(WireByte)
  BY EncodedType, CommandsAssumption
<1>2. wire' \in [Channels -> Seq(WireByte)]
  BY <1>1, ConcatProperties DEF Inv, TypeOK, OutsideType, Issue
<1>3. issued' \in 0 .. MaxCmds
  BY BoundsAssumption DEF Inv, TypeOK, OutsideType, Issue
<1> QED
  BY <1>2, <1>3, HostInv DEF Inv, TypeOK, OutsideType, Issue

\* A reply the host reads is one fewer.
LEMMA HostReadInv ==
    ASSUME Inv, NEW ch \in Channels, HostRead(ch)
    PROVE  Inv'
<1>1. inData[ch] \in Seq(Seq(Byte)) /\ inData[ch] # <<>>
  BY DEF Inv, TypeOK, OutsideType, HostRead
<1>2. Tail(inData[ch]) \in Seq(Seq(Byte))
  BY <1>1, HeadTailProperties
<1>3. inData' \in [Channels -> Seq(Seq(Byte))]
  BY <1>2 DEF Inv, TypeOK, OutsideType, HostRead
<1> QED
  BY <1>3, HostInv DEF Inv, TypeOK, OutsideType, HostRead

\* A host that gives up takes its bytes back from the wire.
LEMMA ResetPortInv ==
    ASSUME Inv, NEW ch \in Channels, ResetPort(ch)
    PROVE  Inv'
<1>1. wire' \in [Channels -> Seq(WireByte)]
  BY EmptySeq DEF Inv, TypeOK, OutsideType, ResetPort
<1>2. OutsideType' /\ TransferType'
  BY <1>1 DEF Inv, TypeOK, OutsideType, TransferType, ResetPort
<1>3. ChannelType' /\ FragmentOpen' /\ FragmentFirst' /\ LoopbackWithoutAdapter'
  BY DEF Inv, TypeOK, ChannelType, FragmentOpen, FragmentFirst, LoopbackWithoutAdapter,
         ResetPort, chanVars
<1> QED
  BY <1>2, <1>3 DEF Inv, TypeOK

\* A transfer begins where the fragment of its channel says: with the rest, or with a command.
LEMMA DeliverInv ==
    ASSUME Inv, NEW ch \in Channels, Deliver(ch)
    PROVE  Inv'
<1>1. PICK n \in 1 .. Len(wire[ch]) :
        /\ data' = Bytes(SubSeq(wire[ch], 1, n))
        /\ wire' = [wire EXCEPT ![ch] = Drop(@, n)]
        /\ lastCut' = IF lastCut = "abandoned" THEN lastCut ELSE wire[ch][n].cut
  BY DEF Deliver
<1>2. wire[ch] \in Seq(WireByte) /\ Len(wire[ch]) \in Nat
  BY LenProperties DEF Inv, TypeOK, OutsideType
<1>3. SubSeq(wire[ch], 1, n) \in Seq(WireByte) /\ Len(SubSeq(wire[ch], 1, n)) = n
  BY <1>2, ElementOfSeq, SubSeqProperties
<1>4. data' \in Seq(Byte) /\ Len(data') = n
  BY <1>1, <1>3, BytesType
<1>5. data' # <<>>
  BY <1>2, <1>4, EmptySeq
<1>6. Drop(wire[ch], n) \in Seq(WireByte)
  BY <1>2, DropType
<1>7. wire[ch][n] \in WireByte
  BY <1>2, ElementOfSeq
<1>8. OutsideType'
  BY <1>1, <1>6 DEF Inv, TypeOK, OutsideType, Deliver
<1>9. TransferType'
  BY <1>1, <1>4, <1>7 DEF Inv, TypeOK, TransferType, Deliver, PcKinds, WireByte
<1>10. ChannelType' /\ FragmentOpen' /\ FragmentFirst' /\ LoopbackWithoutAdapter'
  BY <1>5 DEF Inv, TypeOK, ChannelType, FragmentOpen, FragmentFirst,
              LoopbackWithoutAdapter, Deliver, chanVars
<1> QED
  BY <1>8, <1>9, <1>10 DEF Inv, TypeOK

\* A request changes a mode only.
LEMMA HandleEP0Inv ==
    ASSUME Inv, NEW r \in Requests, HandleEP0(r)
    PROVE  Inv'
<1>1. r.value \in Word
  BY RequestsAssumption DEF Request
<1>2. ModeOf(r) \in Byte
  BY <1>1, HighByteType DEF ModeOf
<1>3. ChannelType'
  BY <1>2 DEF Inv, TypeOK, ChannelType, HandleEP0
<1>4. TransferType' /\ OutsideType'
  BY DEF Inv, TypeOK, TransferType, OutsideType, HandleEP0, hostVars, PcKinds
<1>5. FragmentOpen' /\ FragmentFirst' /\ LoopbackWithoutAdapter'
  BY DEF Inv, FragmentOpen, FragmentFirst, LoopbackWithoutAdapter, HandleEP0
<1> QED
  BY <1>3, <1>4, <1>5 DEF Inv, TypeOK

\* A device that halts touches nothing else.
LEMMA HaltInv ==
    ASSUME Inv, EmptyTransfer \/ Throw
    PROVE  Inv'
<1>1. ChannelType' /\ OutsideType'
  BY DEF Inv, TypeOK, ChannelType, OutsideType, EmptyTransfer, Throw, chanVars, hostVars
<1>2. TransferType'
  BY DEF Inv, TypeOK, TransferType, EmptyTransfer, Throw, PcKinds
<1>3. FragmentOpen' /\ FragmentFirst' /\ LoopbackWithoutAdapter'
  BY DEF Inv, FragmentOpen, FragmentFirst, LoopbackWithoutAdapter, EmptyTransfer, Throw,
         chanVars
<1> QED
  BY <1>1, <1>2, <1>3 DEF Inv, TypeOK

-----------------------------------------------------------------------------
(* The steps of the handler. *)

\* What a handler step has to keep, by the variables it may touch.
LEMMA HandlerInv ==
    ASSUME Inv,
           frag' \in [Channels -> Seq(Byte)], total' \in [Channels -> 0 .. CountMod - 1],
           hasRep' \in [Channels -> BOOLEAN], loopback' \in [Channels -> BOOLEAN],
           gMode' = gMode, cur' = cur, lastCut' = lastCut, pc' \in {"idle", "loop", "halted"},
           data' \in Seq(Byte), rep' \in Seq(Byte), sendStatus' \in BOOLEAN,
           wire' = wire, issued' = issued,
           inData' \in [Channels -> Seq(Seq(Byte))], exec' \in [Channels -> Seq(Call)],
           FragmentOpen', LoopbackWithoutAdapter',
           data' # <<>> => frag'[cur] = <<>>
    PROVE  Inv'
<1>1. ChannelType' /\ OutsideType'
  BY DEF Inv, TypeOK, ChannelType, OutsideType
<1>2. TransferType'
  BY DEF Inv, TypeOK, TransferType, PcKinds
<1>3. FragmentFirst'
  BY DEF FragmentFirst
<1> QED
  BY <1>1, <1>2, <1>3 DEF Inv, TypeOK

\* The same for a command that leaves the fragments and the loopback alone.
LEMMA CommandInv ==
    ASSUME Inv, pc = "loop", data # <<>>, NEW n \in Nat, Consume(n),
           UNCHANGED <<chanVars, cur, lastCut, hostVars>>,
           rep' \in Seq(Byte), sendStatus' \in BOOLEAN, exec' \in [Channels -> Seq(Call)]
    PROVE  Inv'
<1>1. data' \in Seq(Byte) /\ pc' \in {"loop", "halted"}
  BY ConsumeType DEF Inv, TypeOK, TransferType
<1>2. frag'[cur] = <<>>
  BY DEF Inv, FragmentFirst, chanVars
<1>3. FragmentOpen' /\ LoopbackWithoutAdapter'
  BY DEF Inv, FragmentOpen, LoopbackWithoutAdapter, chanVars
<1> QED
  BY <1>1, <1>2, <1>3, HandlerInv
     DEF Inv, TypeOK, ChannelType, OutsideType, chanVars, hostVars

\* What the resumed fragment still lacks is a positive number.
LEMMA MissingType ==
    ASSUME Inv, pc = "resume"
    PROVE  /\ cur \in Channels /\ data \in Seq(Byte) /\ Len(data) \in Nat
           /\ Missing \in Nat \ {0}
           /\ total[cur] \in Nat
           /\ frag[cur] \in Seq(Byte) /\ Len(frag[cur]) = total[cur] - Missing
<1>1. cur \in Channels /\ data \in Seq(Byte) /\ frag[cur] \in Seq(Byte)
      /\ total[cur] \in 0 .. CountMod - 1
  BY DEF Inv, TypeOK, ChannelType, TransferType
<1>2. Len(frag[cur]) \in Nat /\ Len(frag[cur]) < total[cur] /\ Len(data) \in Nat
  BY <1>1, LenProperties DEF Inv, FragmentOpen, FragmentFirst
<1> QED
  BY <1>1, <1>2, CountModAssumption DEF Missing

\* A transfer that does not bring the rest makes the fragment longer, never whole.
LEMMA ResumePartialInv ==
    ASSUME Inv, ResumePartial
    PROVE  Inv'
<1>1. data' = <<>> /\ pc' \in {"loop", "halted"}
  BY MissingType, ConsumeType DEF ResumePartial
<1>2. frag[cur] \o data \in Seq(Byte) /\ Len(frag[cur] \o data) < total[cur]
  BY MissingType, ConcatProperties DEF ResumePartial
<1>3. frag' = [frag EXCEPT ![cur] = frag[cur] \o data]
  BY DEF ResumePartial, ExtendFragment
<1>4. frag' \in [Channels -> Seq(Byte)]
  BY <1>2, <1>3 DEF Inv, TypeOK, ChannelType
<1>5. FragmentOpen'
  BY <1>2, <1>3 DEF Inv, TypeOK, ChannelType, FragmentOpen, ResumePartial
<1>6. LoopbackWithoutAdapter'
  BY DEF Inv, LoopbackWithoutAdapter, ResumePartial
<1> QED
  BY <1>1, <1>4, <1>5, <1>6, HandlerInv, EmptySeq
     DEF Inv, TypeOK, ChannelType, TransferType, OutsideType, ResumePartial, hostVars

\* One that does leaves no fragment and goes on with commands.
LEMMA ResumeCompleteInv ==
    ASSUME Inv, ResumeComplete
    PROVE  Inv'
<1> DEFINE tx == frag[cur] \o SubSeq(data, 1, Missing)
           rsiz == IF hasRep[cur] THEN total[cur] ELSE 0
<1>1. Missing \in Nat \ {0} /\ Missing <= Len(data) /\ Consume(Missing) /\ cur \in Channels
      /\ data \in Seq(Byte)
  BY MissingType DEF ResumeComplete
<1>2. data' \in Seq(Byte) /\ pc' \in {"loop", "halted"}
  BY <1>1, ConsumeType
<1>3. SubSeq(data, 1, Missing) \in Seq(Byte) /\ Len(SubSeq(data, 1, Missing)) = Missing
  BY <1>1, ElementOfSeq, SubSeqProperties
<1>4. tx \in Seq(Byte) /\ Len(tx) = total[cur]
  BY <1>3, MissingType, ConcatProperties DEF ResumeComplete
<1>5. rsiz \in Nat /\ rsiz <= Len(tx)
  BY <1>4, MissingType DEF ResumeComplete
<1>6. PICK o \in Outcomes(tx, 7, "TDI", rsiz) :
        rep' = rep \o Got(rsiz, o.rx) /\ exec' = [exec EXCEPT ![cur] = o.calls]
  BY DEF ResumeComplete
<1>7. 7 \in Byte
  BY DEF Byte
<1>8. o.rx \in Seq(Byte) /\ o.calls \in Seq(Call)
  BY <1>4, <1>5, <1>7, OutcomesType, ZenonT(60) DEF Inv
<1>9. rep' \in Seq(Byte)
  BY <1>6, <1>8, EmptySeq, ConcatProperties DEF Inv, TypeOK, TransferType, Got
<1>10. exec' \in [Channels -> Seq(Call)]
  BY <1>6, <1>8 DEF Inv, TypeOK, OutsideType
<1>11. frag' = [frag EXCEPT ![cur] = <<>>]
  BY DEF ResumeComplete, ClearFragment
<1>12. frag' \in [Channels -> Seq(Byte)] /\ frag'[cur] = <<>>
  BY <1>1, <1>11, EmptySeq DEF Inv, TypeOK, ChannelType
<1>13. FragmentOpen' /\ LoopbackWithoutAdapter'
  BY <1>11 DEF Inv, TypeOK, ChannelType, FragmentOpen, LoopbackWithoutAdapter, ResumeComplete
<1> QED
  BY <1>2, <1>9, <1>10, <1>12, <1>13, HandlerInv
     DEF Inv, TypeOK, ChannelType, TransferType, OutsideType, ResumeComplete, hostVars

\* A command without effect takes its bytes.
LEMMA SkipCommandInv ==
    ASSUME Inv, SkipCommand
    PROVE  Inv'
<1>1. ConfigLen(Head(data)) \in Nat
  BY DEF ConfigLen
<1>2. sendStatus' \in BOOLEAN
  BY DEF Inv, TypeOK, TransferType, SkipCommand, WantsStatus
<1> QED
  BY <1>1, <1>2, CommandInv
     DEF Inv, TypeOK, TransferType, OutsideType, SkipCommand, AtCommand

\* A bad opcode is answered and takes its bytes.
LEMMA SyncCommandInv ==
    ASSUME Inv, SyncCommand
    PROVE  Inv'
<1>1. <<\hfa, Head(data)>> \in Seq(Byte)
  BY DEF SyncCommand, AtCommand, Sync, Byte
<1>2. rep' \in Seq(Byte)
  BY <1>1, ConcatProperties DEF Inv, TypeOK, TransferType, SyncCommand
<1> QED
  BY <1>2, CommandInv DEF Inv, TypeOK, TransferType, OutsideType, SyncCommand, AtCommand

\* Loopback is left on a channel with an adapter only.
LEMMA LoopbackCommandInv ==
    ASSUME Inv, LoopbackCommand
    PROVE  Inv'
<1>1. data \in Seq(Byte) /\ cur \in Channels /\ frag[cur] = <<>>
  BY DEF Inv, TypeOK, TransferType, FragmentFirst, LoopbackCommand, AtCommand
<1>2. data' \in Seq(Byte) /\ pc' \in {"loop", "halted"}
  BY <1>1, ConsumeType DEF LoopbackCommand
<1>3. (Head(data) = LoopbackOn \/ LoopbackAfterOff(cur)) \in BOOLEAN
  BY DEF LoopbackAfterOff
<1>4. loopback' \in [Channels -> BOOLEAN]
  BY <1>3 DEF Inv, TypeOK, ChannelType, LoopbackCommand
<1>5. LoopbackWithoutAdapter'
  BY <1>1 DEF Inv, TypeOK, ChannelType, LoopbackWithoutAdapter, LoopbackCommand,
              LoopbackAfterOff
<1>6. FragmentOpen'
  BY DEF Inv, FragmentOpen, LoopbackCommand
<1> QED
  BY <1>1, <1>2, <1>4, <1>5, <1>6, HandlerInv
     DEF Inv, TypeOK, ChannelType, TransferType, OutsideType, LoopbackCommand, hostVars

\* A port write takes its bytes.
LEMMA SetPortInv ==
    ASSUME Inv, SetPort
    PROVE  Inv'
<1>1. PICK level \in NextByte(2) :
        exec' = IF cur \in Adapters
                THEN [exec EXCEPT ![cur] = Append(@, PortCall(level))] ELSE exec
  BY DEF SetPort
<1>2. level \in Byte
  BY NextByteType DEF Inv, TypeOK, TransferType
<1>3. PortCall(level) \in Call
  BY <1>2, EmptySeq DEF PortCall, Call, Byte
<1>4. exec' \in [Channels -> Seq(Call)]
  BY <1>1, <1>3, AppendProperties DEF Inv, TypeOK, OutsideType, TransferType
<1>5. ConfigLen(PortLow) \in Nat
  BY DEF ConfigLen
<1> QED
  BY <1>4, <1>5, CommandInv DEF Inv, TypeOK, TransferType, SetPort, AtCommand

\* A shift of bits takes its bytes and may bring one.
LEMMA ShiftBitsInv ==
    ASSUME Inv, ShiftBits
    PROVE  Inv'
<1> DEFINE tx(d) == IF Writes(Head(data)) THEN <<d>> ELSE <<>>
           rsiz == IF Reads(Head(data)) THEN 1 ELSE 0
<1>1. PICK bits \in NextByte(2), d \in NextByte(3) :
        /\ \E o \in Outcomes(tx(d), bits, ShiftOp(Head(data), d), rsiz) :
             /\ rep' = IF Reads(Head(data)) THEN rep \o BitReply(o.rx) ELSE rep
             /\ exec' = [exec EXCEPT ![cur] = o.calls]
        /\ Consume(2 + Len(tx(d)))
  BY DEF ShiftBits
<1>2. bits \in Byte /\ d \in Byte
  BY NextByteType DEF Inv, TypeOK, TransferType
<1>3. PICK o \in Outcomes(tx(d), bits, ShiftOp(Head(data), d), rsiz) :
        /\ rep' = IF Reads(Head(data)) THEN rep \o BitReply(o.rx) ELSE rep
        /\ exec' = [exec EXCEPT ![cur] = o.calls]
  BY <1>1
<1>4. tx(d) \in Seq(Byte) /\ Len(tx(d)) \in Nat /\ (tx(d) = <<>> \/ rsiz <= Len(tx(d)))
  BY <1>2, EmptySeq
<1>5. ShiftOp(Head(data), d) \in {"TDI", "TMS_LO", "TMS_HI"}
  BY DEF ShiftOp
<1>6. rsiz \in Nat
  OBVIOUS
<1>7. o.rx \in Seq(Byte) /\ o.calls \in Seq(Call)
  BY <1>2, <1>4, <1>5, <1>6, OutcomesType, ZenonT(60) DEF Inv
<1>8. BitReply(o.rx) \in Seq(Byte)
  BY <1>7, BitReplyType
<1>9. rep' \in Seq(Byte)
  BY <1>3, <1>8, ConcatProperties DEF Inv, TypeOK, TransferType
<1>10. exec' \in [Channels -> Seq(Call)]
  BY <1>3, <1>7 DEF Inv, TypeOK, OutsideType
<1> QED
  BY <1>1, <1>4, <1>9, <1>10, CommandInv DEF Inv, TypeOK, TransferType, ShiftBits, AtCommand

\* A shift of bytes that are all there takes them and may bring as many.
LEMMA ShiftBytesInv ==
    ASSUME Inv, ShiftBytes
    PROVE  Inv'
<1> DEFINE tsiz(lo, hi) == IF Writes(Head(data)) THEN ByteCount(lo, hi) ELSE 0
           rsiz(lo, hi) == IF Reads(Head(data)) THEN ByteCount(lo, hi) ELSE 0
           tx(lo, hi) == SubSeq(data, 4, 3 + tsiz(lo, hi))
<1>1. PICK lo \in NextByte(2), hi \in NextByte(3) :
        /\ Writes(Head(data)) => 3 + tsiz(lo, hi) <= Len(data)
        /\ \E o \in Outcomes(tx(lo, hi), 7, "TDI", rsiz(lo, hi)) :
             /\ rep' = rep \o Got(rsiz(lo, hi), o.rx)
             /\ exec' = [exec EXCEPT ![cur] = o.calls]
        /\ Consume(3 + tsiz(lo, hi))
  BY DEF ShiftBytes
<1>2. data \in Seq(Byte) /\ Len(data) \in Nat /\ lo \in Byte /\ hi \in Byte
  BY NextByteType, LenProperties DEF Inv, TypeOK, TransferType
<1>3. ByteCount(lo, hi) \in Nat
  BY <1>2, ByteCountType, CountModAssumption
<1>4. tx(lo, hi) \in Seq(Byte) /\ (tx(lo, hi) = <<>> \/ rsiz(lo, hi) <= Len(tx(lo, hi)))
  <2>1. CASE Writes(Head(data))
    <3>1. \A i \in 4 .. 3 + ByteCount(lo, hi) : data[i] \in Byte
      BY <1>1, <1>2, <1>3, <2>1, ElementOfSeq
    <3> QED
      BY <1>3, <2>1, <3>1, SubSeqProperties
  <2>2. CASE ~Writes(Head(data))
    BY <2>2, SubSeqEmpty, EmptySeq
  <2> QED
    BY <2>1, <2>2
<1>5. PICK o \in Outcomes(tx(lo, hi), 7, "TDI", rsiz(lo, hi)) :
        /\ rep' = rep \o Got(rsiz(lo, hi), o.rx)
        /\ exec' = [exec EXCEPT ![cur] = o.calls]
  BY <1>1
<1>6. 7 \in Byte /\ rsiz(lo, hi) \in Nat /\ 3 + tsiz(lo, hi) \in Nat
  BY <1>3 DEF Byte
<1>7. o.rx \in Seq(Byte) /\ o.calls \in Seq(Call)
  BY <1>4, <1>5, <1>6, OutcomesType, ZenonT(60) DEF Inv
<1>8. rep' \in Seq(Byte)
  BY <1>5, <1>7, EmptySeq, ConcatProperties DEF Inv, TypeOK, TransferType, Got
<1>9. exec' \in [Channels -> Seq(Call)]
  BY <1>5, <1>7 DEF Inv, TypeOK, OutsideType
<1>10. sendStatus' \in BOOLEAN
  BY DEF Inv, TypeOK, TransferType, ShiftBytes, WantsStatus
<1> QED
  BY <1>1, <1>6, <1>8, <1>9, <1>10, CommandInv DEF ShiftBytes, AtCommand

\* A shift that is cut short leaves a fragment that is shorter than announced.
LEMMA BreakBytesInv ==
    ASSUME Inv, BreakBytes
    PROVE  Inv'
<1>1. PICK lo \in NextByte(2), hi \in NextByte(3) :
        /\ 3 + ByteCount(lo, hi) > Len(data)
        /\ frag' = [frag EXCEPT ![cur] = @ \o Drop(data, 3)]
        /\ total' = [total EXCEPT ![cur] = ByteCount(lo, hi)]
        /\ hasRep' = [hasRep EXCEPT ![cur] = Reads(Head(data)) /\ ByteCount(lo, hi) > 0]
        /\ rep' = IF Reads(Head(data)) THEN rep \o Zeros(ByteCount(lo, hi)) ELSE rep
  BY DEF BreakBytes, ExtendFragment
<1>2. data \in Seq(Byte) /\ Len(data) \in Nat /\ lo \in Byte /\ hi \in Byte
      /\ cur \in Channels /\ frag[cur] = <<>>
  BY NextByteType, LenProperties
     DEF Inv, TypeOK, TransferType, FragmentFirst, BreakBytes, AtCommand
<1>3. ByteCount(lo, hi) \in 0 .. CountMod - 1 /\ ByteCount(lo, hi) \in Nat
  BY <1>2, ByteCountType, CountModAssumption
<1>4. Drop(data, 3) \in Seq(Byte)
      /\ Len(Drop(data, 3)) = IF 3 <= Len(data) THEN Len(data) - 3 ELSE 0
  BY <1>2, DropType
<1>5. frag[cur] \o Drop(data, 3) = Drop(data, 3)
  BY <1>2, <1>4, ConcatEmptySeq
<1>6. frag' \in [Channels -> Seq(Byte)] /\ frag' = [frag EXCEPT ![cur] = Drop(data, 3)]
  BY <1>1, <1>4, <1>5 DEF Inv, TypeOK, ChannelType
<1>7. total' \in [Channels -> 0 .. CountMod - 1] /\ hasRep' \in [Channels -> BOOLEAN]
  BY <1>1, <1>3 DEF Inv, TypeOK, ChannelType, Reads
<1>8. Drop(data, 3) # <<>> => Len(Drop(data, 3)) < ByteCount(lo, hi)
  <2>1. Drop(data, 3) # <<>> => Len(Drop(data, 3)) > 0
    BY <1>4, EmptySeq
  <2> QED
    BY <1>1, <1>2, <1>3, <1>4, <2>1
<1>9. FragmentOpen'
  BY <1>1, <1>2, <1>6, <1>8 DEF Inv, TypeOK, ChannelType, FragmentOpen
<1>10. rep' \in Seq(Byte) /\ sendStatus' \in BOOLEAN
  BY <1>1, <1>3, ZerosType, ConcatProperties
     DEF Inv, TypeOK, TransferType, BreakBytes, WantsStatus
<1>11. data' = <<>> /\ pc' \in {"loop", "halted"}
  BY <1>2, ConsumeType DEF BreakBytes
<1>12. LoopbackWithoutAdapter'
  BY DEF Inv, LoopbackWithoutAdapter, BreakBytes
<1> QED
  BY <1>6, <1>7, <1>9, <1>10, <1>11, <1>12, HandlerInv, EmptySeq
     DEF Inv, TypeOK, ChannelType, OutsideType, BreakBytes, hostVars

\* A transfer that is used up sends what was collected.
LEMMA FinishInv ==
    ASSUME Inv, Finish
    PROVE  Inv'
<1>1. inData' \in [Channels -> Seq(Seq(Byte))]
  BY AppendProperties DEF Inv, TypeOK, TransferType, OutsideType, Finish
<1>2. FragmentOpen' /\ LoopbackWithoutAdapter'
  BY DEF Inv, FragmentOpen, LoopbackWithoutAdapter, Finish, chanVars
<1> QED
  BY <1>1, <1>2, HandlerInv, EmptySeq
     DEF Inv, TypeOK, ChannelType, TransferType, OutsideType, Finish, chanVars

\* Every step of the handler keeps Inv.
LEMMA HandlerStepInv == ASSUME Inv, Handler PROVE Inv'
BY ResumePartialInv, ResumeCompleteInv, SkipCommandInv, SyncCommandInv,
   LoopbackCommandInv, SetPortInv, ShiftBitsInv, ShiftBytesInv, BreakBytesInv,
   FinishInv, HaltInv DEF Handler

\* A step that changes nothing keeps Inv.
LEMMA StutterInv == ASSUME Inv, UNCHANGED vars PROVE Inv'
BY DEF Inv, TypeOK, ChannelType, TransferType, OutsideType, FragmentOpen, FragmentFirst,
       LoopbackWithoutAdapter, vars, chanVars, xferVars, hostVars

\* Every step keeps Inv.
LEMMA NextInv == Inv /\ [Next]_vars => Inv'
<1> SUFFICES ASSUME Inv, [Next]_vars PROVE Inv'
  OBVIOUS
<1>1. CASE Host
  BY <1>1, IssueInv, HostReadInv, ResetPortInv DEF Host
<1>2. CASE \E ch \in Channels : Deliver(ch)
  BY <1>2, DeliverInv
<1>3. CASE EmptyTransfer
  BY <1>3, HaltInv
<1>4. CASE \E r \in Requests : HandleEP0(r)
  BY <1>4, HandleEP0Inv
<1>5. CASE Handler
  BY <1>5, HandlerStepInv
<1>6. CASE UNCHANGED vars
  BY <1>6, StutterInv
<1> QED
  BY <1>1, <1>2, <1>3, <1>4, <1>5, <1>6 DEF Next

\* The invariant holds in every reachable state: the variables keep their types, a kept
\* fragment always lacks something and comes first, and a channel without adapter stays
\* in loopback.
THEOREM Invariance == Spec => []Inv
BY InitInv, NextInv, PTL DEF Spec

\* handleXferEPX and handleXferEP0 keep every variable's type.
THEOREM TypeCorrect == Spec => []TypeOK
<1>1. Inv => TypeOK
  BY DEF Inv
<1> QED
  BY <1>1, Invariance, PTL

\* fragmentedTxTotal - fragmentedTx.size() never wraps around.
THEOREM FragmentsStayOpen == Spec => []FragmentOpen
<1>1. Inv => FragmentOpen
  BY DEF Inv
<1> QED
  BY <1>1, Invariance, PTL

\* No command is interpreted while a fragment is kept.
THEOREM FragmentsComeFirst == Spec => []FragmentFirst
<1>1. Inv => FragmentFirst
  BY DEF Inv
<1> QED
  BY <1>1, Invariance, PTL

\* The handler never calls through the null adapter of a channel.
THEOREM NoNullAdapter == Spec => []LoopbackWithoutAdapter
<1>1. Inv => LoopbackWithoutAdapter
  BY DEF Inv
<1> QED
  BY <1>1, Invariance, PTL

-----------------------------------------------------------------------------
(* What becomes of a fragment. *)

\* A sequence starts with the first operand of the concatenation that made it.
LEMMA ConcatStartsWith ==
    ASSUME NEW S, NEW s \in Seq(S), NEW t \in Seq(S)
    PROVE  StartsWith(s \o t, s)
<1>1. Len(s) \in Nat /\ Len(t) \in Nat /\ Len(s \o t) = Len(s) + Len(t)
  BY LenProperties, ConcatProperties
<1>2. CASE s = <<>>
  BY <1>1, <1>2, SubSeqEmpty DEF StartsWith
<1>3. CASE s # <<>>
  <2>1. 1 \in 1 .. Len(s) /\ Len(s) \in 1 .. Len(s)
    BY <1>1, <1>3, EmptySeq
  <2>2. SubSeq(s \o t, 1, Len(s)) = s
    BY <2>1, SubSeqOfConcat1, SubSeqFull
  <2> QED
    BY <1>1, <2>2 DEF StartsWith
<1> QED
  BY <1>2, <1>3

\* A fragment that grows keeps what it has.
LEMMA ResumePartialStep ==
    ASSUME Inv, ResumePartial, NEW ch \in Channels
    PROVE  FragmentStep(ch)
<1>1. frag' = [frag EXCEPT ![cur] = frag[cur] \o data] /\ total' = total
  BY DEF ResumePartial, ExtendFragment
<1>2. frag \in [Channels -> Seq(Byte)]
  BY DEF Inv, TypeOK, ChannelType
<1>3. CASE ch = cur
  <2>1. frag'[ch] = frag[cur] \o data
    BY <1>1, <1>2, <1>3
  <2>2. Len(frag'[ch]) < total'[ch]
    BY <1>1, <1>3, <2>1, MissingType, ConcatProperties DEF ResumePartial
  <2>3. StartsWith(frag'[ch], frag[ch])
    BY <1>3, <2>1, MissingType, ConcatStartsWith DEF ResumePartial
  <2> QED
    BY <2>2, <2>3 DEF FragmentStep
<1>4. CASE ch # cur
  BY <1>1, <1>2, <1>4 DEF FragmentStep
<1> QED
  BY <1>3, <1>4

\* A fragment that is completed is shifted whole, in front of the rest.
LEMMA ResumeCompleteStep ==
    ASSUME Inv, ResumeComplete, NEW ch \in Channels
    PROVE  FragmentStep(ch)
<1> DEFINE rest == SubSeq(data, 1, Missing)
           tx == frag[cur] \o rest
           rsiz == IF hasRep[cur] THEN total[cur] ELSE 0
<1>1. frag' = [frag EXCEPT ![cur] = <<>>]
  BY DEF ResumeComplete, ClearFragment
<1>2. frag \in [Channels -> Seq(Byte)] /\ exec \in [Channels -> Seq(Call)]
  BY DEF Inv, TypeOK, ChannelType, OutsideType
<1>3. CASE ch # cur
  BY <1>1, <1>2, <1>3 DEF FragmentStep
<1>4. CASE ch = cur /\ loopback[ch]
  BY <1>1, <1>2, <1>4 DEF FragmentStep
<1>5. CASE ch = cur /\ ~loopback[ch]
  <2>1. PICK o \in Outcomes(tx, 7, "TDI", rsiz) : exec' = [exec EXCEPT ![cur] = o.calls]
    BY DEF ResumeComplete
  <2>2. PICK rx \in Answers(rsiz) :
          o = [rx |-> rx, calls |-> Append(exec[cur], ShiftCall(tx, 7, "TDI", rx))]
    BY <1>5, <2>1 DEF Outcomes
  <2>3. rest \in Seq(Byte) /\ Len(rest) = Missing
    BY MissingType, ElementOfSeq, SubSeqProperties DEF ResumeComplete
  <2>4. StartsWith(tx, frag[cur]) /\ Len(tx) = total[cur] /\ tx \in Seq(Byte)
    <3>1. frag[cur] \in Seq(Byte) /\ Len(frag[cur]) = total[cur] - Missing
          /\ Missing \in Nat /\ total[cur] \in Nat
      BY MissingType DEF ResumeComplete
    <3> HIDE DEF rest
    <3>2. StartsWith(tx, frag[cur])
      BY <2>3, <3>1, ConcatStartsWith
    <3>3. tx \in Seq(Byte) /\ Len(tx) = Len(frag[cur]) + Missing
      BY <2>3, <3>1, ConcatProperties
    <3> QED
      BY <3>1, <3>2, <3>3
  <2>5. rsiz \in Nat
    BY MissingType DEF ResumeComplete
  <2>6. rx \in Seq(Byte)
    BY <2>5, AnswersType
  <2>7. 7 \in Byte
    BY DEF Byte
  <2>8. ShiftCall(tx, 7, "TDI", rx) \in Call /\ ShiftCall(tx, 7, "TDI", rx).tx = tx
    BY <2>4, <2>6, <2>7 DEF ShiftCall, Call
  <2>9. exec'[ch] = Append(exec[ch], ShiftCall(tx, 7, "TDI", rx))
    BY <1>2, <1>5, <2>1, <2>2
  <2>10. /\ Len(exec'[ch]) = Len(exec[ch]) + 1
         /\ exec'[ch][Len(exec'[ch])].tx = tx
    <3>1. exec[ch] \in Seq(Call) /\ Len(exec[ch]) \in Nat
      BY <1>2, LenProperties
    <3> DEFINE c == ShiftCall(tx, 7, "TDI", rx)
    <3>2. /\ Len(Append(exec[ch], c)) = Len(exec[ch]) + 1
          /\ Append(exec[ch], c)[Len(exec[ch]) + 1] = c
      BY <2>8, <3>1, AppendProperties
    <3> QED
      BY <2>8, <2>9, <3>2
  <2>11. frag'[ch] = <<>>
    BY <1>1, <1>2, <1>5
  <2> QED
    BY <1>5, <2>4, <2>10, <2>11 DEF FragmentStep
<1> QED
  BY <1>3, <1>4, <1>5

\* A fragment begins where there was none.
LEMMA BreakBytesStep ==
    ASSUME Inv, BreakBytes, NEW ch \in Channels
    PROVE  FragmentStep(ch)
<1>1. frag \in [Channels -> Seq(Byte)] /\ frag[cur] = <<>>
  BY DEF Inv, TypeOK, ChannelType, FragmentFirst, BreakBytes, AtCommand
<1>2. frag' = [frag EXCEPT ![cur] = @ \o Drop(data, 3)]
  BY DEF BreakBytes, ExtendFragment
<1>3. CASE ch # cur
  BY <1>1, <1>2, <1>3 DEF FragmentStep
<1>4. CASE ch = cur
  <2>1. Drop(data, 3) \in Seq(Byte)
    BY DropType DEF Inv, TypeOK, TransferType
  <2>2. StartsWith(frag'[ch], frag[ch])
    BY <1>1, <1>2, <1>4, <2>1, ConcatStartsWith
  <2>3. FragmentOpen'
    BY BreakBytesInv DEF Inv
  <2>4. frag'[ch] = <<>> \/ Len(frag'[ch]) < total'[ch]
    BY <2>3 DEF FragmentOpen
  <2> QED
    BY <1>1, <1>4, <2>2, <2>4 DEF FragmentStep
<1> QED
  BY <1>3, <1>4

\* Every other step leaves the fragments alone.
LEMMA AnyStep == Inv /\ [Next]_vars => \A ch \in Channels : FragmentStep(ch)
<1> SUFFICES ASSUME Inv, [Next]_vars, NEW ch \in Channels PROVE FragmentStep(ch)
  OBVIOUS
<1>1. CASE ResumePartial
  BY <1>1, ResumePartialStep
<1>2. CASE ResumeComplete
  BY <1>2, ResumeCompleteStep
<1>3. CASE BreakBytes
  BY <1>3, BreakBytesStep
<1>4. CASE UNCHANGED frag
  BY <1>4 DEF FragmentStep
<1> QED
  BY <1>1, <1>2, <1>3, <1>4
     DEF Next, Host, Handler, Issue, HostRead, ResetPort, Deliver, EmptyTransfer, HandleEP0,
         SkipCommand, SyncCommand, LoopbackCommand, SetPort, ShiftBits, ShiftBytes, Finish,
         Throw, vars, chanVars

\* The bytes of a command that a transfer cut short are never lost, reordered or taken for
\* something else: they are kept until one shift of the announced size carries them.
THEOREM FragmentsAreHonoured == Spec => FragmentHonoured
BY Invariance, AnyStep, PTL DEF Spec, FragmentHonoured

-----------------------------------------------------------------------------
(* The handler stays in step with the host: the bytes that wait in a transfer and on   *)
(* the wire are the rest of the commands the host wrote, and the next of them is the   *)
(* one the handler takes it for.  This holds for well-formed commands as long as no    *)
(* transfer ends right behind a header ("gap") and the host gives nothing up.          *)

\* A command as the host writes it: its length is what its header says, and its byte
\* count is one the handler computes as it is.
WellFormed(c) ==
    /\ Complete(c) /\ Len(c) = CommandLen(c)
    /\ Head(c) \in ByteOps => ShiftSize(c) < CountMod

CommandsWellFormed == \A c \in Commands : WellFormed(c)

-----------------------------------------------------------------------------
(* Where in the host's commands a byte comes from. *)

\* The at-th byte of command cmd.
Place == [cmd : Commands, at : Nat]
Places(c) == [i \in 1 .. Len(c) |-> [cmd |-> c, at |-> i]]
Sent(p) == [byte |-> p.cmd[p.at], cut |-> CutAfter(p.cmd, p.at)]

\* From every place on the rest of its command follows, and then the beginning of another.
RunsFrom(lab, k) ==
    LET p    == lab[k]
        more == Len(p.cmd) - p.at
    IN /\ p.at \in 1 .. Len(p.cmd)
       /\ k + more <= Len(lab)
       /\ \A j \in 0 .. more : lab[k + j] = [cmd |-> p.cmd, at |-> p.at + j]
       /\ more = 0 /\ k < Len(lab) => lab[k + 1].at = 1

Runs(lab) == \A k \in 1 .. Len(lab) : RunsFrom(lab, k)

\* What is left of the transfer being handled, if it is the channel's.
Held(ch) == IF ch = cur THEN data ELSE <<>>

\* lab tells the place of each of the channel's bytes, in the transfer and on the wire.
Labels(lab, ch) ==
    /\ Len(lab) = Len(Held(ch)) + Len(wire[ch])
    /\ \A k \in 1 .. Len(Held(ch)) : Held(ch)[k] = Sent(lab[k]).byte
    /\ \A k \in 1 .. Len(wire[ch]) : wire[ch][k] = Sent(lab[Len(Held(ch)) + k])

\* The place p is where the kept fragment of its command ends.
OpenAt(p, ch) ==
    /\ Head(p.cmd) \in {\h19, \h39}
    /\ p.at = 4 + Len(frag[ch])
    /\ total[ch] = Len(p.cmd) - 3
    /\ hasRep[ch] = (Head(p.cmd) = \h39)
    /\ \A i \in 1 .. Len(frag[ch]) : frag[ch][i] = p.cmd[3 + i]

Begins(lab, ch) ==
    IF frag[ch] = <<>> THEN lab # <<>> => lab[1].at = 1
    ELSE lab # <<>> /\ OpenAt(lab[1], ch)

Follows(lab, ch) ==
    /\ Runs(lab) /\ Labels(lab, ch) /\ Begins(lab, ch)
    /\ Held(ch) # <<>> => Sent(lab[Len(data)]).cut = lastCut

InSync(ch) == \E lab \in Seq(Place) : Follows(lab, ch)

\* The inductive invariant.  Once the host has given up a command nothing is known.
SyncInv ==
    /\ lastCut \in Cuts \cup {"end", "abandoned"}
    /\ pc = "idle" => data = <<>>
    /\ pc # "halted" /\ lastCut # "abandoned" =>
         /\ \A ch \in Channels : InSync(ch)
         /\ data = <<>> => lastCut # "head"

-----------------------------------------------------------------------------
(* Lemmas on sequences of places. *)

\* Commands are sequences of bytes.
LEMMA CommandType ==
    ASSUME NEW c \in Commands
    PROVE  /\ c \in Seq(Byte) /\ Len(c) \in Nat
           /\ c # <<>> => Len(c) >= 1 /\ Head(c) = c[1]
<1>1. c \in Seq(Byte)
  BY CommandsAssumption
<1> QED
  BY <1>1, LenProperties, EmptySeq

\* The places of a command follow one another.
LEMMA PlacesRun ==
    ASSUME NEW c \in Commands
    PROVE  /\ Places(c) \in Seq(Place) /\ Len(Places(c)) = Len(c)
           /\ \A i \in 1 .. Len(c) : Places(c)[i] = [cmd |-> c, at |-> i]
           /\ Runs(Places(c))
<1>1. Len(c) \in Nat
  BY CommandType
<1>2. /\ Places(c) \in Seq(Place) /\ Len(Places(c)) = Len(c)
      /\ \A i \in 1 .. Len(c) : Places(c)[i] = [cmd |-> c, at |-> i]
  BY <1>1 DEF Places, Place
<1> HIDE DEF Places
<1>3. ASSUME NEW k \in 1 .. Len(c)
      PROVE  RunsFrom(Places(c), k)
  <2>1. Places(c)[k] = [cmd |-> c, at |-> k]
    BY <1>2
  <2>2. \A j \in 0 .. Len(c) - k : Places(c)[k + j] = [cmd |-> c, at |-> k + j]
    BY <1>1, <1>2
  <2> QED
    BY <1>1, <1>2, <2>1, <2>2 DEF RunsFrom
<1>4. Runs(Places(c))
  BY <1>2, <1>3 DEF Runs
<1> QED
  BY <1>2, <1>4

\* Every place of a command is one.
LEMMA PlaceType ==
    ASSUME NEW lab \in Seq(Place), NEW k \in 1 .. Len(lab)
    PROVE  lab[k] \in Place /\ lab[k].cmd \in Commands /\ lab[k].at \in Nat
<1>1. lab[k] \in Place
  BY ElementOfSeq
<1> QED
  BY <1>1 DEF Place

\* What is behind the first k of a sequence, place by place.
LEMMA DropElements ==
    ASSUME NEW S, NEW s \in Seq(S), NEW n \in 0 .. Len(s)
    PROVE  /\ Drop(s, n) \in Seq(S) /\ Len(Drop(s, n)) = Len(s) - n
           /\ \A k \in 1 .. Len(s) - n : Drop(s, n)[k] = s[n + k]
<1>1. Len(s) \in Nat /\ \A i \in n + 1 .. Len(s) : s[i] \in S
  BY ElementOfSeq, LenProperties
<1>2. \A k \in 1 .. Len(s) - n : SubSeq(s, n + 1, Len(s))[k] = s[n + 1 + k - 1]
  BY <1>1, SubSeqProperties
<1>3. /\ Drop(s, n) \in Seq(S)
      /\ Len(Drop(s, n)) = IF n <= Len(s) THEN Len(s) - n ELSE 0
  BY DropType
<1> QED
  BY <1>1, <1>2, <1>3 DEF Drop

\* The elements of a concatenation, by where they come from.
LEMMA ConcatElements ==
    ASSUME NEW S, NEW s \in Seq(S), NEW t \in Seq(S)
    PROVE  /\ s \o t \in Seq(S) /\ Len(s \o t) = Len(s) + Len(t)
           /\ \A i \in 1 .. Len(s) : (s \o t)[i] = s[i]
           /\ \A i \in 1 .. Len(t) : (s \o t)[Len(s) + i] = t[i]
<1> DEFINE u == s \o t
<1>1. /\ Len(s) \in Nat /\ Len(t) \in Nat /\ u \in Seq(S) /\ Len(u) = Len(s) + Len(t)
      /\ \A i \in 1 .. Len(s) + Len(t) : u[i] = IF i <= Len(s) THEN s[i] ELSE t[i - Len(s)]
  BY ConcatProperties, LenProperties
<1> HIDE DEF u
<1>2. ASSUME NEW i \in 1 .. Len(t) PROVE u[Len(s) + i] = t[i]
  <2>1. Len(s) + i \in 1 .. Len(s) + Len(t) /\ ~ (Len(s) + i <= Len(s))
        /\ Len(s) + i - Len(s) = i
    BY <1>1
  <2> QED
    BY <1>1, <2>1
<1>3. \A i \in 1 .. Len(s) : u[i] = s[i]
  BY <1>1
<1> QED
  BY <1>1, <1>2, <1>3 DEF u

\* Places that follow one another do so without the first ones.
LEMMA RunsDrop ==
    ASSUME NEW lab \in Seq(Place), Runs(lab), NEW n \in 0 .. Len(lab)
    PROVE  Runs(Drop(lab, n))
<1> DEFINE rest == Drop(lab, n)
<1>1. /\ Len(lab) \in Nat /\ Len(rest) = Len(lab) - n
      /\ \A k \in 1 .. Len(lab) - n : rest[k] = lab[n + k]
  BY DropElements, LenProperties
<1>2. \A k \in 1 .. Len(lab) : lab[k].cmd \in Commands
  BY PlaceType
<1> HIDE DEF rest
<1> SUFFICES ASSUME NEW k \in 1 .. Len(rest)
             PROVE  RunsFrom(rest, k)
  BY DEF Runs, rest
<1> DEFINE p    == lab[n + k]
           more == Len(p.cmd) - p.at
<1>3. n + k \in 1 .. Len(lab) /\ rest[k] = p
  BY <1>1
<1>4. /\ p.at \in 1 .. Len(p.cmd)
      /\ n + k + more <= Len(lab)
      /\ \A j \in 0 .. more : lab[n + k + j] = [cmd |-> p.cmd, at |-> p.at + j]
      /\ more = 0 /\ n + k < Len(lab) => lab[n + k + 1].at = 1
  BY <1>3 DEF Runs, RunsFrom
<1>5. Len(p.cmd) \in Nat
  BY <1>2, <1>3, CommandType
<1> HIDE DEF p
<1>6. more \in Nat /\ k + more <= Len(rest)
  BY <1>1, <1>4, <1>5, SMTT(30)
<1>7. \A j \in 0 .. more : rest[k + j] = [cmd |-> p.cmd, at |-> p.at + j]
  <2> SUFFICES ASSUME NEW j \in 0 .. more
               PROVE  rest[k + j] = [cmd |-> p.cmd, at |-> p.at + j]
    OBVIOUS
  <2>1. k + j \in 1 .. Len(lab) - n /\ n + (k + j) = n + k + j
    BY <1>1, <1>6
  <2> QED
    BY <1>1, <1>4, <2>1
<1>8. more = 0 /\ k < Len(rest) => rest[k + 1].at = 1
  <2> SUFFICES ASSUME more = 0, k < Len(rest) PROVE rest[k + 1].at = 1
    OBVIOUS
  <2>1. k + 1 \in 1 .. Len(lab) - n /\ n + (k + 1) = n + k + 1 /\ n + k < Len(lab)
    BY <1>1
  <2> QED
    BY <1>1, <1>4, <2>1
<1> QED
  BY <1>3, <1>4, <1>6, <1>7, <1>8 DEF RunsFrom, p

\* They do so when those of a whole command are added.
LEMMA RunsConcat ==
    ASSUME NEW s \in Seq(Place), NEW t \in Seq(Place), Runs(s), Runs(t),
           t # <<>> => t[1].at = 1
    PROVE  Runs(s \o t)
<1> DEFINE u == s \o t
<1>1. /\ Len(s) \in Nat /\ Len(t) \in Nat /\ Len(u) = Len(s) + Len(t)
      /\ \A i \in 1 .. Len(s) + Len(t) : u[i] = IF i <= Len(s) THEN s[i] ELSE t[i - Len(s)]
  BY ConcatProperties, LenProperties
<1>2. /\ \A k \in 1 .. Len(s) : Len(s[k].cmd) \in Nat
      /\ \A k \in 1 .. Len(t) : Len(t[k].cmd) \in Nat
  BY PlaceType, CommandType
<1> HIDE DEF u
<1> SUFFICES ASSUME NEW k \in 1 .. Len(u)
             PROVE  RunsFrom(u, k)
  BY DEF Runs, u
<1> DEFINE p    == u[k]
           more == Len(p.cmd) - p.at
<1>3. CASE k <= Len(s)
  <2>1. k \in 1 .. Len(s) /\ p = s[k]
    BY <1>1, <1>3
  <2>2. /\ p.at \in 1 .. Len(p.cmd)
        /\ k + more <= Len(s)
        /\ \A j \in 0 .. more : s[k + j] = [cmd |-> p.cmd, at |-> p.at + j]
        /\ more = 0 /\ k < Len(s) => s[k + 1].at = 1
    BY <2>1 DEF Runs, RunsFrom
  <2>3. Len(p.cmd) \in Nat
    BY <1>2, <2>1
  <2> HIDE DEF p
  <2>6. more \in Nat
    BY <2>2, <2>3
  <2>4. \A j \in 0 .. more : u[k + j] = [cmd |-> p.cmd, at |-> p.at + j]
    <3> SUFFICES ASSUME NEW j \in 0 .. more
                 PROVE  u[k + j] = [cmd |-> p.cmd, at |-> p.at + j]
      OBVIOUS
    <3>1. k + j \in 1 .. Len(s) + Len(t) /\ k + j <= Len(s)
      <4> HIDE DEF more
      <4> QED
        BY <1>1, <2>1, <2>2, <2>6
    <3> QED
      BY <1>1, <2>2, <3>1
  <2>5. more = 0 /\ k < Len(u) => u[k + 1].at = 1
    <3> SUFFICES ASSUME more = 0, k < Len(u) PROVE u[k + 1].at = 1
      OBVIOUS
    <3>1. CASE k < Len(s)
      BY <1>1, <2>1, <2>2, <3>1
    <3>2. CASE k = Len(s)
      <4>1. t # <<>> /\ u[k + 1] = t[1]
        BY <1>1, <3>2, EmptySeq
      <4> QED
        BY <4>1
    <3> QED
      BY <1>1, <2>1, <3>1, <3>2
  <2> QED
    BY <1>1, <2>2, <2>3, <2>4, <2>5 DEF RunsFrom, p
<1>4. CASE k > Len(s)
  <2> DEFINE m == k - Len(s)
  <2>1. m \in 1 .. Len(t) /\ p = t[m]
    BY <1>1, <1>4
  <2>2. /\ p.at \in 1 .. Len(p.cmd)
        /\ m + more <= Len(t)
        /\ \A j \in 0 .. more : t[m + j] = [cmd |-> p.cmd, at |-> p.at + j]
        /\ more = 0 /\ m < Len(t) => t[m + 1].at = 1
    BY <2>1 DEF Runs, RunsFrom
  <2>3. Len(p.cmd) \in Nat
    BY <1>2, <2>1
  <2> HIDE DEF p
  <2>6. more \in Nat
    BY <2>2, <2>3, SMTT(60)
  <2>4. \A j \in 0 .. more : u[k + j] = [cmd |-> p.cmd, at |-> p.at + j]
    <3> SUFFICES ASSUME NEW j \in 0 .. more
                 PROVE  u[k + j] = [cmd |-> p.cmd, at |-> p.at + j]
      OBVIOUS
    <3>1. k + j \in 1 .. Len(s) + Len(t) /\ ~ (k + j <= Len(s)) /\ k + j - Len(s) = m + j
      <4> HIDE DEF more
      <4> QED
        BY <1>1, <1>4, <2>1, <2>2, <2>6, SMTT(60)
    <3>2. u[k + j] = t[k + j - Len(s)]
      <4> HIDE DEF more, m
      <4> QED
        BY <1>1, <3>1
    <3>3. t[m + j] = [cmd |-> p.cmd, at |-> p.at + j]
      BY <2>2, Zenon
    <3> QED
      BY <3>1, <3>2, <3>3, Zenon
  <2>5. more = 0 /\ k < Len(u) => u[k + 1].at = 1
    <3> SUFFICES ASSUME more = 0, k < Len(u) PROVE u[k + 1].at = 1
      OBVIOUS
    <3>1. k + 1 \in 1 .. Len(s) + Len(t) /\ ~ (k + 1 <= Len(s)) /\ k + 1 - Len(s) = m + 1
          /\ m < Len(t)
      BY <1>1, <1>4, <2>1, SMTT(60)
    <3> QED
      BY <1>1, <2>2, <3>1
  <2> QED
    BY <1>1, <2>1, <2>2, <2>3, <2>4, <2>5, SMTT(60) DEF RunsFrom, p
<1> QED
  BY <1>1, <1>3, <1>4

-----------------------------------------------------------------------------
(* How a channel's bytes move on. *)

\* A step that changes nothing about a channel.
LEMMA SyncUnchanged ==
    ASSUME NEW ch \in Channels, InSync(ch),
           Held(ch)' = Held(ch), wire'[ch] = wire[ch],
           frag'[ch] = frag[ch], total'[ch] = total[ch], hasRep'[ch] = hasRep[ch],
           Held(ch) # <<>> => data' = data /\ lastCut' = lastCut
    PROVE  InSync(ch)'
<1>1. PICK lab \in Seq(Place) : Follows(lab, ch)
  BY DEF InSync
<1>2. Labels(lab, ch)'
  BY <1>1 DEF Follows, Labels
<1>3. Begins(lab, ch)'
  BY <1>1 DEF Follows, Begins, OpenAt
<1> QED
  BY <1>1, <1>2, <1>3 DEF Follows, InSync

\* What the labels of the channel being handled say of its transfer.
LEMMA LabelsOfData ==
    ASSUME Inv, NEW ch \in Channels, ch = cur, NEW lab \in Seq(Place), Follows(lab, ch)
    PROVE  /\ Held(ch) = data /\ data \in Seq(Byte) /\ Len(data) \in Nat
           /\ wire[ch] \in Seq(WireByte) /\ Len(wire[ch]) \in Nat
           /\ Len(lab) \in Nat /\ Len(lab) = Len(data) + Len(wire[ch])
           /\ \A k \in 1 .. Len(data) : data[k] = Sent(lab[k]).byte
           /\ data # <<>> => Sent(lab[Len(data)]).cut = lastCut
<1>1. Held(ch) = data
  BY DEF Held
<1>2. data \in Seq(Byte) /\ wire[ch] \in Seq(WireByte)
  BY DEF Inv, TypeOK, TransferType, OutsideType
<1>3. Len(data) \in Nat /\ Len(wire[ch]) \in Nat /\ Len(lab) \in Nat
  BY <1>2, LenProperties
<1> QED
  BY <1>1, <1>2, <1>3 DEF Follows, Labels

\* The handler takes n bytes of the transfer.
LEMMA SyncAdvance ==
    ASSUME Inv, NEW ch \in Channels, ch = cur, NEW lab \in Seq(Place), Follows(lab, ch),
           NEW n \in 1 .. Len(data), data' = Drop(data, n), UNCHANGED <<cur, wire, lastCut>>,
           Begins(Drop(lab, n), ch)'
    PROVE  InSync(ch)'
<1> DEFINE rest == Drop(lab, n)
<1>1. /\ data \in Seq(Byte) /\ Len(data) \in Nat /\ Len(wire[ch]) \in Nat
      /\ Len(lab) \in Nat /\ Len(lab) = Len(data) + Len(wire[ch])
      /\ \A k \in 1 .. Len(data) : data[k] = Sent(lab[k]).byte
      /\ data # <<>> => Sent(lab[Len(data)]).cut = lastCut
      /\ Held(ch) = data
  BY LabelsOfData
<1>2. n \in Nat /\ n >= 1 /\ n <= Len(data) /\ n \in 0 .. Len(lab) /\ n \in 0 .. Len(data)
  BY <1>1
<1>3. /\ rest \in Seq(Place) /\ Len(rest) = Len(lab) - n
      /\ \A k \in 1 .. Len(lab) - n : rest[k] = lab[n + k]
      /\ Runs(rest)
  BY <1>2, DropElements, RunsDrop DEF Follows
<1>4. /\ Len(data') = Len(data) - n
      /\ \A k \in 1 .. Len(data) - n : data'[k] = data[n + k]
      /\ Held(ch)' = data'
  BY <1>1, <1>2, DropElements, ZenonT(60) DEF Held
<1>5. \A k \in 1 .. Len(wire[ch]) : wire[ch][k] = Sent(lab[Len(data) + k])
  BY <1>1 DEF Follows, Labels
<1> HIDE DEF rest
<1>6. \A k \in 1 .. Len(data') : data'[k] = Sent(rest[k]).byte
  <2> SUFFICES ASSUME NEW k \in 1 .. Len(data') PROVE data'[k] = Sent(rest[k]).byte
    OBVIOUS
  <2>1. k \in 1 .. Len(data) - n /\ k \in 1 .. Len(lab) - n /\ n + k \in 1 .. Len(data)
    BY <1>1, <1>2, <1>4
  <2> QED
    BY <1>1, <1>3, <1>4, <2>1
<1>7. \A k \in 1 .. Len(wire[ch]) : wire[ch][k] = Sent(rest[Len(data') + k])
  <2> SUFFICES ASSUME NEW k \in 1 .. Len(wire[ch])
               PROVE  wire[ch][k] = Sent(rest[Len(data') + k])
    OBVIOUS
  <2>1. Len(data') + k \in 1 .. Len(lab) - n /\ n + (Len(data') + k) = Len(data) + k
    BY <1>1, <1>2, <1>4
  <2> QED
    BY <1>3, <1>5, <2>1
<1>8. Labels(rest, ch)'
  <2>1. Len(rest) = Len(data') + Len(wire'[ch])
    BY <1>1, <1>2, <1>3, <1>4
  <2>2. \A k \in 1 .. Len(wire'[ch]) : wire'[ch][k] = Sent(rest[Len(data') + k])
    BY <1>7
  <2>3. /\ Len(rest) = Len(Held(ch)') + Len(wire'[ch])
        /\ \A k \in 1 .. Len(Held(ch)') : Held(ch)'[k] = Sent(rest[k]).byte
        /\ \A k \in 1 .. Len(wire'[ch]) : wire'[ch][k] = Sent(rest[Len(Held(ch)') + k])
    BY <1>4, <1>6, <2>1, <2>2, Zenon
  <2> QED
    BY <2>3 DEF Labels
<1>9. data' # <<>> => Sent(rest[Len(data')]).cut = lastCut'
  <2> SUFFICES ASSUME data' # <<>> PROVE Sent(rest[Len(data')]).cut = lastCut
    OBVIOUS
  <2>1. data' \in Seq(Byte) /\ data # <<>>
    BY <1>1, <1>2, DropElements, EmptySeq
  <2>2. Len(data') \in Nat \ {0}
    BY <2>1, EmptySeq
  <2>3. Len(data') \in 1 .. Len(lab) - n /\ n + Len(data') = Len(data)
    BY <1>1, <1>2, <1>4, <2>2
  <2> QED
    BY <1>1, <1>3, <2>1, <2>3
<1>10. Begins(rest, ch)'
  BY DEF rest
<1> QED
  BY <1>3, <1>4, <1>8, <1>9, <1>10 DEF Follows, InSync

-----------------------------------------------------------------------------
(* The command the handler takes next. *)

\* Command c is at the head of the transfer, all of it or what came before the cut.
AtHead(c, lab) ==
    /\ Len(c) <= Len(lab)
    /\ \A i \in 1 .. Len(c) : lab[i] = [cmd |-> c, at |-> i]
    /\ Len(c) < Len(lab) => lab[Len(c) + 1].at = 1
    /\ \A i \in 1 .. Len(c) : i <= Len(data) => data[i] = c[i]
    /\ Len(data) <= Len(c) => CutAfter(c, Len(data)) = lastCut

\* Without a fragment, what the handler looks at begins with a command of the host.
LEMMA HeadCommand ==
    ASSUME Inv, NEW ch \in Channels, ch = cur, NEW lab \in Seq(Place), Follows(lab, ch),
           frag[ch] = <<>>, data # <<>>
    PROVE  \E c \in Commands : AtHead(c, lab)
<1>1. /\ data \in Seq(Byte) /\ Len(data) \in Nat /\ Len(wire[ch]) \in Nat
      /\ Len(lab) \in Nat /\ Len(lab) = Len(data) + Len(wire[ch])
      /\ \A k \in 1 .. Len(data) : data[k] = Sent(lab[k]).byte
      /\ Sent(lab[Len(data)]).cut = lastCut
  BY LabelsOfData
<1>2. Len(data) >= 1 /\ 1 \in 1 .. Len(lab) /\ lab # <<>>
  BY <1>1, EmptySeq
<1> DEFINE c == lab[1].cmd
<1>3. c \in Commands /\ Len(c) \in Nat
  BY <1>2, PlaceType, CommandType
<1>4. lab[1].at = 1
  BY <1>2 DEF Follows, Begins
<1>5. /\ 1 <= Len(c) /\ Len(c) <= Len(lab)
      /\ \A j \in 0 .. Len(c) - 1 : lab[1 + j] = [cmd |-> c, at |-> 1 + j]
  <2>1. /\ 1 \in 1 .. Len(c)
        /\ 1 + (Len(c) - 1) <= Len(lab)
        /\ \A j \in 0 .. Len(c) - 1 : lab[1 + j] = [cmd |-> c, at |-> 1 + j]
    BY <1>2, <1>4 DEF Follows, Runs, RunsFrom
  <2> QED
    BY <1>1, <1>3, <2>1
<1> HIDE DEF c
<1>6. \A i \in 1 .. Len(c) : lab[i] = [cmd |-> c, at |-> i]
  <2> SUFFICES ASSUME NEW i \in 1 .. Len(c) PROVE lab[i] = [cmd |-> c, at |-> i]
    OBVIOUS
  <2>1. i - 1 \in 0 .. Len(c) - 1 /\ 1 + (i - 1) = i
    BY <1>3
  <2> QED
    BY <1>5, <2>1
<1>7. Len(c) < Len(lab) => lab[Len(c) + 1].at = 1
  <2>1. Len(c) \in 1 .. Len(lab) /\ lab[Len(c)] = [cmd |-> c, at |-> Len(c)]
        /\ Len(c) - Len(c) = 0
    BY <1>1, <1>3, <1>5, <1>6
  <2>2. RunsFrom(lab, Len(c))
    BY <2>1 DEF Follows, Runs
  <2> QED
    BY <2>1, <2>2 DEF RunsFrom
<1>8. ASSUME NEW i \in 1 .. Len(c), i <= Len(data)
      PROVE  data[i] = c[i] /\ Sent(lab[i]).cut = CutAfter(c, i)
  <2>1. i \in 1 .. Len(data) /\ lab[i] = [cmd |-> c, at |-> i]
    BY <1>1, <1>3, <1>6, <1>8
  <2>2. Sent(lab[i]) = [byte |-> c[i], cut |-> CutAfter(c, i)]
    BY <2>1 DEF Sent
  <2>3. data[i] = Sent(lab[i]).byte
    BY <1>1, <2>1
  <2> QED
    BY <2>2, <2>3
<1>9. Len(data) <= Len(c) => CutAfter(c, Len(data)) = lastCut
  <2> SUFFICES ASSUME Len(data) <= Len(c) PROVE CutAfter(c, Len(data)) = lastCut
    OBVIOUS
  <2>1. Len(data) \in 1 .. Len(c) /\ Len(data) <= Len(data)
    BY <1>1, <1>2, <1>3
  <2> QED
    BY <1>1, <1>8, <2>1
<1>10. \A i \in 1 .. Len(c) : i <= Len(data) => data[i] = c[i]
  BY <1>8
<1> QED
  BY <1>3, <1>5, <1>6, <1>7, <1>9, <1>10 DEF AtHead

-----------------------------------------------------------------------------
(* The steps outside of the handler. *)

\* The last byte of a transfer, or of a command, is where it was cut.
LEMMA CutType ==
    ASSUME NEW c \in Commands, NEW i \in 1 .. Len(c)
    PROVE  /\ CutAfter(c, i) = "head" => i < Len(c) /\ (Head(c) \notin ByteOps \/ i < 3)
           /\ CutAfter(c, Len(c)) = "end"
BY DEF CutAfter

\* A step that touches the current channel's transfer and fragment only.
LEMMA OthersInSync ==
    ASSUME \A ch \in Channels : InSync(ch), InSync(cur)', UNCHANGED <<cur, wire>>,
           \A ch \in Channels \ {cur} :
             frag'[ch] = frag[ch] /\ total'[ch] = total[ch] /\ hasRep'[ch] = hasRep[ch]
    PROVE  \A ch \in Channels : InSync(ch)'
<1> SUFFICES ASSUME NEW ch \in Channels PROVE InSync(ch)'
  OBVIOUS
<1>1. CASE ch = cur
  BY <1>1 DEF InSync, Follows, Labels, Begins, OpenAt, Held
<1>2. CASE ch # cur
  <2>1. Held(ch) = <<>> /\ Held(ch)' = <<>>
    BY <1>2 DEF Held
  <2> QED
    BY <1>2, <2>1, SyncUnchanged
<1> QED
  BY <1>1, <1>2

\* The host appends a command.
LEMMA IssueSync ==
    ASSUME Inv, CommandsWellFormed, NEW ch \in Channels, NEW c \in Commands, Issue(ch, c),
           InSync(ch)
    PROVE  InSync(ch)'
<1>1. PICK lab \in Seq(Place) : Follows(lab, ch)
  BY DEF InSync
<1> DEFINE new == lab \o Places(c)
<1>2. /\ Places(c) \in Seq(Place) /\ Len(Places(c)) = Len(c) /\ Runs(Places(c))
      /\ \A i \in 1 .. Len(c) : Places(c)[i] = [cmd |-> c, at |-> i]
      /\ Len(c) \in Nat /\ Len(c) >= 1
  BY PlacesRun, CommandType DEF CommandsWellFormed, WellFormed, Complete
<1> HIDE DEF Places
<1>3. /\ wire[ch] \in Seq(WireByte) /\ Len(wire[ch]) \in Nat /\ Len(lab) \in Nat
      /\ Len(Held(ch)) \in Nat
  <2>1. wire[ch] \in Seq(WireByte) /\ data \in Seq(Byte)
    BY DEF Inv, TypeOK, TransferType, OutsideType
  <2>2. Held(ch) \in Seq(Byte)
    BY <2>1, EmptySeq DEF Held
  <2> QED
    BY <2>1, <2>2, LenProperties
<1>4. /\ new \in Seq(Place) /\ Len(new) = Len(lab) + Len(c)
      /\ \A i \in 1 .. Len(lab) : new[i] = lab[i]
      /\ \A i \in 1 .. Len(c) : new[Len(lab) + i] = [cmd |-> c, at |-> i]
  <2>1. Places(c) \in Seq(Place)
    BY <1>2
  <2>2. /\ new \in Seq(Place) /\ Len(new) = Len(lab) + Len(Places(c))
        /\ \A i \in 1 .. Len(lab) : new[i] = lab[i]
        /\ \A i \in 1 .. Len(Places(c)) : new[Len(lab) + i] = Places(c)[i]
    BY <2>1, ConcatElements
  <2> HIDE DEF new
  <2> QED
    BY <1>2, <2>2
<1>5. Runs(new)
  <2>1. Places(c)[1].at = 1
    <3>1. 1 \in 1 .. Len(c)
      BY <1>2
    <3>2. Places(c)[1] = [cmd |-> c, at |-> 1]
      BY <1>2, <3>1
    <3> QED
      BY <3>2
  <2> QED
    BY <1>1, <1>2, <2>1, RunsConcat DEF Follows
<1> HIDE DEF new
<1>6. /\ Len(wire'[ch]) = Len(wire[ch]) + Len(c)
      /\ \A i \in 1 .. Len(wire[ch]) : wire'[ch][i] = wire[ch][i]
      /\ \A i \in 1 .. Len(c) :
           wire'[ch][Len(wire[ch]) + i] = [byte |-> c[i], cut |-> CutAfter(c, i)]
  <2>1. Encoded(c) \in Seq(WireByte) /\ Len(Encoded(c)) = Len(c)
        /\ \A i \in 1 .. Len(c) : Encoded(c)[i] = [byte |-> c[i], cut |-> CutAfter(c, i)]
    <3>1. Encoded(c) \in Seq(WireByte)
      BY EncodedType, CommandType
    <3> QED
      BY <1>2, <3>1 DEF Encoded
  <2>2. wire'[ch] = wire[ch] \o Encoded(c)
    BY DEF Issue, Inv, TypeOK, OutsideType
  <2> HIDE DEF Encoded
  <2>3. /\ Len(wire[ch] \o Encoded(c)) = Len(wire[ch]) + Len(Encoded(c))
        /\ \A i \in 1 .. Len(wire[ch]) : (wire[ch] \o Encoded(c))[i] = wire[ch][i]
        /\ \A i \in 1 .. Len(Encoded(c)) :
             (wire[ch] \o Encoded(c))[Len(wire[ch]) + i] = Encoded(c)[i]
    <3>1. wire[ch] \in Seq(WireByte) /\ Encoded(c) \in Seq(WireByte)
      BY <1>3, <2>1
    <3> QED
      BY <3>1, ConcatElements, SMTT(60)
  <2> QED
    BY <2>1, <2>2, <2>3
<1>7. Held(ch)' = Held(ch) /\ data' = data /\ lastCut' = lastCut
  BY DEF Issue, Held, xferVars
<1>8. /\ Len(lab) = Len(Held(ch)) + Len(wire[ch])
      /\ \A k \in 1 .. Len(Held(ch)) : Held(ch)[k] = Sent(lab[k]).byte
      /\ \A k \in 1 .. Len(wire[ch]) : wire[ch][k] = Sent(lab[Len(Held(ch)) + k])
  BY <1>1 DEF Follows, Labels
<1>9. ASSUME NEW k \in 1 .. Len(wire'[ch])
      PROVE  wire'[ch][k] = Sent(new[Len(Held(ch)) + k])
  <2>1. CASE k <= Len(wire[ch])
    <3>1. k \in 1 .. Len(wire[ch]) /\ Len(Held(ch)) + k \in 1 .. Len(lab)
      BY <1>3, <1>6, <1>8, <2>1
    <3> QED
      BY <1>4, <1>6, <1>8, <3>1
  <2>2. CASE k > Len(wire[ch])
    <3> DEFINE i == k - Len(wire[ch])
    <3>1. /\ i \in 1 .. Len(c) /\ Len(wire[ch]) + i = k
          /\ Len(Held(ch)) + k = Len(lab) + i
      <4>1. Len(lab) = Len(Held(ch)) + Len(wire[ch]) /\ k <= Len(wire[ch]) + Len(c)
        BY <1>2, <1>3, <1>6, <1>8
      <4>2. Len(c) \in Nat /\ Len(lab) \in Nat /\ Len(wire[ch]) \in Nat /\ k \in Int
            /\ Len(Held(ch)) \in Nat
        BY <1>2, <1>3, <1>6
      <4>3. i \in Int /\ i >= 1 /\ i <= Len(c)
        BY <2>2, <4>1, <4>2
      <4>4. i = k - Len(wire[ch])
        OBVIOUS
      <4> HIDE DEF i
      <4>5. Len(wire[ch]) + i = k
        BY <4>2, <4>3, <4>4
      <4>6. Len(Held(ch)) + k = Len(lab) + i
        BY <4>1, <4>2, <4>3, <4>5, SMTT(30)
      <4> QED
        BY <4>2, <4>3, <4>5, <4>6
    <3> HIDE DEF i
    <3>2. new[Len(Held(ch)) + k] = [cmd |-> c, at |-> i]
      BY <1>4, <3>1
    <3>3. wire'[ch][k] = [byte |-> c[i], cut |-> CutAfter(c, i)]
      BY <1>6, <3>1
    <3> QED
      BY <3>2, <3>3 DEF Sent
  <2> QED
    BY <1>2, <1>3, <1>6, <2>1, <2>2
<1>10. Labels(new, ch)'
  <2>1. Len(new) = Len(Held(ch)) + Len(wire'[ch])
    BY <1>2, <1>3, <1>4, <1>6, <1>8
  <2>2. ASSUME NEW k \in 1 .. Len(Held(ch)) PROVE Held(ch)[k] = Sent(new[k]).byte
    <3>1. k \in 1 .. Len(lab)
      BY <1>3, <1>8
    <3> QED
      BY <1>4, <1>8, <3>1
  <2>3. /\ Len(new) = Len(Held(ch)') + Len(wire'[ch])
        /\ \A k \in 1 .. Len(Held(ch)') : Held(ch)'[k] = Sent(new[k]).byte
        /\ \A k \in 1 .. Len(wire'[ch]) : wire'[ch][k] = Sent(new[Len(Held(ch)') + k])
    BY <1>7, <1>9, <2>1, <2>2, Zenon
  <2> QED
    BY <2>3 DEF Labels
<1>11. Begins(new, ch)'
  <2>1. UNCHANGED <<frag, total, hasRep>>
    BY DEF Issue, chanVars
  <2>2. CASE lab = <<>>
    <3>1. new[1].at = 1 /\ frag[ch] = <<>>
      <4>1. Len(lab) = 0 /\ 1 \in 1 .. Len(c) /\ Len(lab) + 1 = 1
        BY <1>2, <2>2
      <4>2. new[1] = [cmd |-> c, at |-> 1]
        BY <1>4, <4>1
      <4> QED
        BY <1>1, <2>2, <4>2 DEF Follows, Begins
    <3> QED
      BY <2>1, <3>1 DEF Begins
  <2>3. CASE lab # <<>>
    <3>1. 1 \in 1 .. Len(lab)
      BY <1>3, <2>3, EmptySeq
    <3>2. new[1] = lab[1] /\ new # <<>>
      BY <1>2, <1>3, <1>4, <3>1
    <3> QED
      BY <1>1, <2>1, <2>3, <3>2 DEF Follows, Begins, OpenAt
  <2> QED
    BY <2>2, <2>3
<1>12. Held(ch)' # <<>> => (Sent(new[Len(data)]).cut = lastCut)'
  <2> SUFFICES ASSUME Held(ch) # <<>> PROVE Sent(new[Len(data)]).cut = lastCut
    BY <1>7
  <2>1. Held(ch) = data /\ Len(data) \in 1 .. Len(lab)
    <3>1. Held(ch) = data
      BY DEF Held
    <3>2. Len(data) \in Nat /\ Len(data) # 0
      BY <1>3, <3>1, EmptySeq DEF Inv, TypeOK, TransferType
    <3> QED
      BY <1>3, <1>8, <3>1, <3>2
  <2> QED
    BY <1>1, <1>4, <2>1 DEF Follows
<1> QED
  BY <1>4, <1>5, <1>10, <1>11, <1>12 DEF InSync, Follows

\* A transfer is taken off the wire.
LEMMA DeliverSync ==
    ASSUME Inv, data = <<>>, lastCut # "abandoned", NEW ch \in Channels, Deliver(ch),
           \A other \in Channels : InSync(other)
    PROVE  /\ \A other \in Channels : InSync(other)'
           /\ data' # <<>> /\ lastCut' \in Cuts
<1>1. PICK n \in 1 .. Len(wire[ch]) :
        /\ wire[ch][n].cut \in Cuts
        /\ data' = Bytes(SubSeq(wire[ch], 1, n))
        /\ wire' = [wire EXCEPT ![ch] = Drop(@, n)]
        /\ lastCut' = wire[ch][n].cut
  BY DEF Deliver
<1>2. /\ wire \in [Channels -> Seq(WireByte)] /\ wire[ch] \in Seq(WireByte)
      /\ Len(wire[ch]) \in Nat /\ n \in Nat /\ n >= 1 /\ n <= Len(wire[ch])
  BY LenProperties DEF Inv, TypeOK, OutsideType
<1>3. /\ Len(data') = n /\ data' \in Seq(Byte)
      /\ \A k \in 1 .. n : data'[k] = wire[ch][k].byte
  <2>1. SubSeq(wire[ch], 1, n) \in Seq(WireByte) /\ Len(SubSeq(wire[ch], 1, n)) = n
        /\ \A k \in 1 .. n : SubSeq(wire[ch], 1, n)[k] = wire[ch][k]
    BY <1>2, ElementOfSeq, SubSeqProperties
  <2>2. Bytes(SubSeq(wire[ch], 1, n)) \in Seq(Byte) /\ Len(Bytes(SubSeq(wire[ch], 1, n))) = n
    BY <2>1, BytesType
  <2>3. \A k \in 1 .. n : Bytes(SubSeq(wire[ch], 1, n))[k] = SubSeq(wire[ch], 1, n)[k].byte
    BY <2>1 DEF Bytes
  <2> QED
    BY <1>1, <2>1, <2>2, <2>3
<1>4. data' # <<>>
  BY <1>2, <1>3, EmptySeq
<1>5. /\ Len(wire'[ch]) = Len(wire[ch]) - n
      /\ \A k \in 1 .. Len(wire[ch]) - n : wire'[ch][k] = wire[ch][n + k]
  <2>1. wire'[ch] = Drop(wire[ch], n) /\ n \in 0 .. Len(wire[ch])
    BY <1>1, <1>2
  <2> QED
    BY <1>2, <2>1, DropElements
<1>6. cur' = ch /\ UNCHANGED <<frag, total, hasRep>>
  BY DEF Deliver, chanVars
<1>7. InSync(ch)'
  <2>1. PICK lab \in Seq(Place) : Follows(lab, ch)
    BY DEF InSync
  <2>2. Held(ch) = <<>> /\ Len(Held(ch)) = 0
    BY EmptySeq DEF Held
  <2>3. /\ Len(lab) = Len(wire[ch])
        /\ \A k \in 1 .. Len(wire[ch]) : wire[ch][k] = Sent(lab[k])
    <3>1. /\ Len(lab) = Len(Held(ch)) + Len(wire[ch])
          /\ \A k \in 1 .. Len(wire[ch]) : wire[ch][k] = Sent(lab[Len(Held(ch)) + k])
      BY <2>1 DEF Follows, Labels
    <3>2. \A k \in 1 .. Len(wire[ch]) : Len(Held(ch)) + k = k
      BY <2>2
    <3> QED
      BY <1>2, <2>2, <3>1, <3>2
  <2>4. Held(ch)' = data'
    BY <1>6 DEF Held
  <2>5. Labels(lab, ch)'
    <3>1. \A k \in 1 .. n : data'[k] = Sent(lab[k]).byte
      BY <1>2, <1>3, <2>3
    <3>2. ASSUME NEW k \in 1 .. Len(wire'[ch])
          PROVE  wire'[ch][k] = Sent(lab[n + k])
      <4>1. k \in 1 .. Len(wire[ch]) - n /\ n + k \in 1 .. Len(wire[ch])
        BY <1>2, <1>5
      <4> QED
        BY <1>5, <2>3, <4>1
    <3>3. Len(lab) = n + Len(wire'[ch])
      BY <1>2, <1>5, <2>3
    <3>4. /\ Len(lab) = Len(Held(ch)') + Len(wire'[ch])
          /\ \A k \in 1 .. Len(Held(ch)') : Held(ch)'[k] = Sent(lab[k]).byte
          /\ \A k \in 1 .. Len(wire'[ch]) : wire'[ch][k] = Sent(lab[Len(Held(ch)') + k])
      BY <1>3, <2>4, <3>1, <3>2, <3>3, Zenon
    <3> QED
      BY <3>4 DEF Labels
  <2>6. Begins(lab, ch)'
    BY <1>6, <2>1 DEF Follows, Begins, OpenAt
  <2>7. Sent(lab[Len(data')]).cut = lastCut'
    <3>1. wire[ch][n] = Sent(lab[n])
      BY <2>3
    <3> QED
      BY <1>1, <1>3, <3>1
  <2> QED
    BY <2>1, <2>5, <2>6, <2>7 DEF InSync, Follows
<1>8. ASSUME NEW other \in Channels, other # ch
      PROVE  InSync(other)'
  <2>1. Held(other) = <<>> /\ Held(other)' = <<>>
    BY <1>6, <1>8, Zenon DEF Held
  <2>2. wire'[other] = wire[other]
    BY <1>1, <1>2, <1>8
  <2> QED
    BY <1>6, <2>1, <2>2, SyncUnchanged
<1> QED
  BY <1>1, <1>4, <1>7, <1>8

-----------------------------------------------------------------------------
(* The steps of the handler. *)

\* The first n bytes of what is at the head are the handler's: a command, or more than
\* there is, which ends the process.
LEMMA TakeCommand ==
    ASSUME Inv, \A ch \in Channels : InSync(ch), frag[cur] = <<>>,
           NEW lab \in Seq(Place), Follows(lab, cur),
           NEW c \in Commands, c # <<>>, AtHead(c, lab),
           NEW n \in Nat, n = Len(c) \/ n > Len(data), Consume(n),
           UNCHANGED <<frag, total, hasRep, cur, wire, lastCut>>, pc' # "halted"
    PROVE  (\A ch \in Channels : InSync(ch)') /\ (data' = <<>> => lastCut' = "end")
<1>1. /\ cur \in Channels /\ data \in Seq(Byte) /\ Len(data) \in Nat
      /\ Len(wire[cur]) \in Nat /\ Len(lab) \in Nat /\ Len(lab) = Len(data) + Len(wire[cur])
  BY LabelsOfData DEF Inv, TypeOK, TransferType
<1>2. Len(c) \in Nat /\ Len(c) >= 1
  BY CommandType
<1>3. n <= Len(data) /\ data' = Drop(data, n)
  BY <1>1 DEF Consume
<1>4. n = Len(c) /\ n \in 1 .. Len(data) /\ n \in 0 .. Len(data) /\ n \in 0 .. Len(lab)
  BY <1>1, <1>2, <1>3
<1> DEFINE rest == Drop(lab, n)
<1>5. Begins(rest, cur)'
  <2>1. frag'[cur'] = <<>>
    OBVIOUS
  <2>2. /\ rest \in Seq(Place) /\ Len(rest) = Len(lab) - n
        /\ \A k \in 1 .. Len(lab) - n : rest[k] = lab[n + k]
    BY <1>4, DropElements, ZenonT(60)
  <2> HIDE DEF rest
  <2>3. ASSUME rest # <<>> PROVE rest[1].at = 1
    <3>1. Len(rest) \in Nat /\ Len(rest) # 0
      BY <2>2, <2>3, EmptySeq, LenProperties
    <3>2. 1 \in 1 .. Len(lab) - n /\ n < Len(lab)
      BY <1>1, <1>4, <2>2, <3>1
    <3> QED
      BY <1>4, <2>2, <3>2 DEF AtHead
  <2> QED
    BY <2>1, <2>3 DEF Begins
<1>6. InSync(cur)'
  BY <1>1, <1>3, <1>4, <1>5, SyncAdvance
<1>7. data' = <<>> => lastCut' = "end"
  <2> SUFFICES ASSUME data' = <<>> PROVE lastCut = "end"
    OBVIOUS
  <2>1. Len(data') = Len(data) - n /\ Len(data') = 0
    BY <1>1, <1>3, <1>4, DropElements
  <2>2. Len(data) = Len(c)
    BY <1>1, <1>2, <1>4, <2>1
  <2> QED
    BY <1>1, <2>2 DEF AtHead, CutAfter
<1> QED
  BY <1>6, <1>7, OthersInSync

\* A transfer that does not end inside a header holds all of the command at its head, or
\* the header and part of the payload of a write.
LEMMA HeadWhole ==
    ASSUME Inv, NEW lab \in Seq(Place), data # <<>>, NEW c \in Commands, AtHead(c, lab),
           lastCut # "head", Len(data) < Len(c)
    PROVE  Head(c) \in ByteOps /\ Len(data) >= 3 /\ (lastCut # "gap" => Len(data) > 3)
<1>1. Len(data) \in Nat /\ Len(c) \in Nat
  BY LenProperties, CommandType DEF Inv, TypeOK, TransferType
<1>2. CutAfter(c, Len(data)) = lastCut /\ Len(data) # Len(c)
  BY <1>1 DEF AtHead
<1>3. Head(c) \in ByteOps /\ ~ (Len(data) < 3)
  BY <1>2, Zenon DEF CutAfter
<1>4. Len(data) = 3 => lastCut = "gap"
  BY <1>2, <1>3, Zenon DEF CutAfter
<1> DEFINE m == Len(data)
<1>5. m \in Nat /\ ~ (m < 3)
  BY <1>1, <1>3
<1> HIDE DEF m
<1>6. m >= 3 /\ (m # 3 => m > 3)
  BY <1>5
<1>7. m = Len(data)
  BY DEF m
<1> QED
  BY <1>3, <1>4, <1>6, <1>7, Zenon

\* What the handler reads of the command at the head is the command's.
LEMMA HeadBytes ==
    ASSUME Inv, data # <<>>, NEW lab \in Seq(Place), NEW c \in Commands, c # <<>>, AtHead(c, lab)
    PROVE  /\ Head(data) = Head(c)
           /\ \A k \in 2 .. Len(c) : k <= Len(data) => NextByte(k) = {c[k]}
<1>1. data \in Seq(Byte) /\ Len(data) \in Nat /\ Len(data) >= 1 /\ Head(data) = data[1]
  <2>1. data \in Seq(Byte)
    BY DEF Inv, TypeOK, TransferType
  <2> QED
    BY <2>1, LenProperties, EmptySeq
<1>2. Len(c) \in Nat /\ Len(c) >= 1 /\ Head(c) = c[1]
  BY CommandType
<1>3. \A i \in 1 .. Len(c) : i <= Len(data) => data[i] = c[i]
  BY DEF AtHead
<1> QED
  BY <1>1, <1>2, <1>3 DEF NextByte

\* The length of a whole command is what its header says.
LEMMA CommandLength ==
    ASSUME CommandsWellFormed, NEW c \in Commands
    PROVE  /\ c # <<>> /\ Len(c) \in Nat
           /\ Head(c) \in {Ignored, Flush, LoopbackOn, LoopbackOff} \cup Sync \cup ClockModes
                => Len(c) = 1
           /\ Head(c) \in {PortLow, PortHigh, ClockDivisor} => Len(c) = 3
           /\ Head(c) \in BitOps => Len(c) = 2 + (IF Writes(Head(c)) THEN 1 ELSE 0)
           /\ Head(c) \in ByteOps =>
                /\ Len(c) >= 3 /\ c[2] \in Byte /\ c[3] \in Byte
                /\ ByteCount(c[2], c[3]) = ShiftSize(c) /\ ShiftSize(c) >= 1
                /\ Len(c) = 3 + (IF Writes(Head(c)) THEN ShiftSize(c) ELSE 0)
<1> DEFINE op == Head(c)
<1>1. /\ c # <<>> /\ c \in Seq(Byte) /\ Len(c) \in Nat /\ Len(c) = CommandLen(c)
      /\ Len(c) >= HeaderLen(op)
  BY CommandType, CommandsAssumption DEF CommandsWellFormed, WellFormed, Complete
<1>2. op \in {Ignored, Flush, LoopbackOn, LoopbackOff} \cup Sync \cup ClockModes => Len(c) = 1
  <2> SUFFICES ASSUME op \in {Ignored, Flush, LoopbackOn, LoopbackOff} \cup Sync \cup ClockModes
               PROVE  Len(c) = 1
    OBVIOUS
  <2>1. HeaderLen(op) = 1
    BY DEF HeaderLen, Ignored, Flush, LoopbackOn, LoopbackOff, Sync,
           ClockModes, ByteOps, BitOps, PortLow, PortHigh, ClockDivisor
  <2>2. ~Writes(op)
    BY DEF Writes, Ignored, Flush, LoopbackOn, LoopbackOff, Sync, ClockModes
  <2> QED
    BY <1>1, <2>1, <2>2 DEF CommandLen
<1>3. op \in {PortLow, PortHigh, ClockDivisor} => Len(c) = 3
  BY <1>1 DEF CommandLen, HeaderLen, Writes, ByteOps, PortLow, PortHigh, ClockDivisor
<1>4. op \in BitOps => Len(c) = 2 + (IF Writes(op) THEN 1 ELSE 0)
  <2> SUFFICES ASSUME op \in BitOps
               PROVE  Len(c) = 2 + (IF Writes(op) THEN 1 ELSE 0)
    OBVIOUS
  <2>1. HeaderLen(op) = 2 /\ op \notin ByteOps
    BY DEF HeaderLen, ByteOps, BitOps, PortLow, PortHigh, ClockDivisor
  <2>2. ShiftSize(c) = 1
    BY <2>1 DEF ShiftSize
  <2> QED
    BY <1>1, <2>1, <2>2 DEF CommandLen
<1>5. ASSUME op \in ByteOps
      PROVE  /\ Len(c) >= 3 /\ c[2] \in Byte /\ c[3] \in Byte
             /\ ByteCount(c[2], c[3]) = ShiftSize(c) /\ ShiftSize(c) >= 1
             /\ Len(c) = 3 + (IF Writes(op) THEN ShiftSize(c) ELSE 0)
  <2>1. HeaderLen(op) = 3
    BY <1>5 DEF HeaderLen
  <2>2. 2 \in 1 .. Len(c) /\ 3 \in 1 .. Len(c)
    BY <1>1, <2>1
  <2>3. c[2] \in 0 .. 255 /\ c[3] \in 0 .. 255
    BY <1>1, <2>2, ElementOfSeq DEF Byte
  <2>4. ShiftSize(c) = 256 * c[3] + c[2] + 1 /\ ShiftSize(c) < CountMod
    BY <1>5 DEF ShiftSize, CommandsWellFormed, WellFormed
  <2>5. ShiftSize(c) \in Nat /\ ShiftSize(c) >= 1
    <3>1. \A lo, hi \in 0 .. 255 : 256 * hi + lo + 1 \in Nat /\ 256 * hi + lo + 1 >= 1
      OBVIOUS
    <3>2. 256 * c[3] + c[2] + 1 \in Nat /\ 256 * c[3] + c[2] + 1 >= 1
      BY <2>3, <3>1, ZenonT(60)
    <3> QED
      BY <2>4, <3>2, Zenon
  <2>6. ShiftSize(c) % CountMod = ShiftSize(c)
    BY <2>4, <2>5, CountModAssumption
  <2>7. ByteCount(c[2], c[3]) = ShiftSize(c)
    BY <2>4, <2>6 DEF ByteCount
  <2>8. Len(c) = 3 + (IF Writes(op) THEN ShiftSize(c) ELSE 0)
    BY <1>1, <2>1 DEF CommandLen
  <2> QED
    BY <1>1, <2>1, <2>3, <2>5, <2>7, <2>8 DEF Byte
<1> QED
  BY <1>1, <1>2, <1>3, <1>4, <1>5

\* Each command that is looked at as a whole takes its own length, or more than there is.
LEMMA WholeCommands ==
    ASSUME Inv, CommandsWellFormed, \A ch \in Channels : InSync(ch),
           SkipCommand \/ SyncCommand \/ LoopbackCommand \/ SetPort \/ ShiftBits \/ ShiftBytes
    PROVE  \E lab \in Seq(Place), c \in Commands, n \in Nat :
             /\ Follows(lab, cur) /\ AtHead(c, lab) /\ Consume(n)
             /\ n = Len(c) \/ (n > Len(data) /\ Len(data) < Len(c) /\ Len(data) < 3)
             /\ Head(c) \in ByteOps /\ Len(data) >= 3 => n <= Len(data)
<1>1. pc = "loop" /\ data # <<>> /\ cur \in Channels /\ data \in Seq(Byte) /\ Len(data) \in Nat
      /\ frag[cur] = <<>>
  <2>1. pc = "loop" /\ data # <<>>
    BY DEF SkipCommand, SyncCommand, LoopbackCommand, SetPort, ShiftBits, ShiftBytes, AtCommand
  <2> QED
    BY <2>1, LenProperties DEF Inv, TypeOK, TransferType, FragmentFirst
<1>2. PICK lab \in Seq(Place) : Follows(lab, cur)
  BY <1>1 DEF InSync
<1>3. PICK c \in Commands : AtHead(c, lab)
  BY <1>1, <1>2, HeadCommand
<1> DEFINE op == Head(data)
<1>4. c # <<>> /\ op = Head(c) /\ \A k \in 2 .. Len(c) : k <= Len(data) => NextByte(k) = {c[k]}
  BY <1>1, <1>3, HeadBytes, CommandLength
<1> HIDE DEF op
<1> DEFINE Takes(n) ==
             /\ Consume(n)
             /\ n = Len(c) \/ (n > Len(data) /\ Len(data) < Len(c) /\ Len(data) < 3)
             /\ Head(c) \in ByteOps /\ Len(data) >= 3 => n <= Len(data)
<1> SUFFICES \E n \in Nat : Takes(n)
  BY <1>2, <1>3
<1>5. CASE SkipCommand
  <2>1. Consume(ConfigLen(op))
        /\ op \in {Ignored, ClockDivisor, PortHigh, Flush} \cup ClockModes
    BY <1>5 DEF SkipCommand, AtCommand, op
  <2>2. ConfigLen(op) = Len(c)
    BY <1>4, <2>1, CommandLength
       DEF ConfigLen, Ignored, Flush, ClockModes, PortLow, PortHigh, ClockDivisor
  <2>3. Head(c) \notin ByteOps
    BY <1>4, <2>1 DEF Ignored, Flush, ClockModes, PortHigh, ClockDivisor, ByteOps
  <2> QED
    BY <2>1, <2>2, <2>3, CommandLength
<1>6. CASE SyncCommand \/ LoopbackCommand
  <2>1. Consume(1) /\ op \in Sync \cup {LoopbackOn, LoopbackOff}
    BY <1>6 DEF SyncCommand, LoopbackCommand, AtCommand, op
  <2>2. Len(c) = 1
    BY <1>4, <2>1, CommandLength
  <2>3. Head(c) \notin ByteOps
    BY <1>4, <2>1 DEF Sync, LoopbackOn, LoopbackOff, ByteOps
  <2> QED
    BY <2>1, <2>2, <2>3
<1>7. CASE SetPort
  <2>1. Consume(3) /\ op = PortLow
    BY <1>7 DEF SetPort, ConfigLen, AtCommand, op
  <2>2. Len(c) = 3
    BY <1>4, <2>1, CommandLength
  <2>3. Head(c) \notin ByteOps
    BY <1>4, <2>1 DEF PortLow, ByteOps
  <2> QED
    BY <2>1, <2>2, <2>3
<1>8. CASE ShiftBits
  <2>1. PICK d : Consume(2 + Len(IF Writes(op) THEN <<d>> ELSE <<>>))
    BY <1>8 DEF ShiftBits, op
  <2>2. op \in BitOps
    BY <1>8 DEF ShiftBits, AtCommand, op
  <2>3. 2 + Len(IF Writes(op) THEN <<d>> ELSE <<>>) = Len(c)
    BY <1>4, <2>2, CommandLength
  <2>4. Head(c) \notin ByteOps
    BY <1>4, <2>2 DEF BitOps, ByteOps
  <2> QED
    BY <2>1, <2>3, <2>4, CommandLength
<1>9. CASE ShiftBytes
  <2>1. PICK lo \in NextByte(2), hi \in NextByte(3) :
          /\ Consume(3 + (IF Writes(op) THEN ByteCount(lo, hi) ELSE 0))
          /\ Writes(op) => 3 + ByteCount(lo, hi) <= Len(data)
    BY <1>9 DEF ShiftBytes, op
  <2>2. op \in ByteOps
    BY <1>9 DEF ShiftBytes, AtCommand, op
  <2>3. ByteCount(lo, hi) \in Nat
    BY <1>1, NextByteType, ByteCountType, CountModAssumption
  <2>4. Len(c) \in Nat /\ Len(c) >= 3
    BY <1>4, <2>2, CommandLength
  <2> DEFINE k == 3 + (IF Writes(op) THEN ByteCount(lo, hi) ELSE 0)
  <2>5. k \in Nat /\ k >= 3 /\ (Len(data) >= 3 => k <= Len(data)) /\ Consume(k)
    BY <1>1, <2>1, <2>3
  <2>6. CASE Len(data) < 3
    <3> HIDE DEF k
    <3> QED
      BY <1>1, <2>4, <2>5, <2>6
  <2>7. CASE Len(data) >= 3
    <3>1. lo = c[2] /\ hi = c[3]
      BY <1>1, <1>4, <2>4, <2>7
    <3>2. k = Len(c)
      BY <1>4, <2>2, <3>1, CommandLength
    <3> HIDE DEF k
    <3> QED
      BY <2>5, <2>7, <3>2
  <2> QED
    BY <1>1, <2>6, <2>7
<1> QED
  BY <1>5, <1>6, <1>7, <1>8, <1>9

\* A command that is broken off is a write of which the header and part of the payload are
\* there, and what is kept is that part.
LEMMA BrokenCommand ==
    ASSUME Inv, CommandsWellFormed, \A ch \in Channels : InSync(ch), lastCut # "gap",
           BreakBytes, pc' # "halted"
    PROVE  \E lab \in Seq(Place), c \in Commands :
             /\ Follows(lab, cur) /\ AtHead(c, lab) /\ Head(data) = Head(c)
             /\ Head(c) \in {\h19, \h39}
             /\ Len(data) > 3 /\ Len(data) < Len(c) /\ Len(c) = 3 + ShiftSize(c)
             /\ frag' = [frag EXCEPT ![cur] = Drop(data, 3)] /\ data' = <<>>
             /\ total' = [total EXCEPT ![cur] = ShiftSize(c)]
             /\ hasRep' = [hasRep EXCEPT ![cur] = (Head(c) = \h39)]
             /\ rep' = IF Head(c) = \h39 THEN rep \o Zeros(ShiftSize(c)) ELSE rep
<1>1. pc = "loop" /\ data # <<>> /\ Head(data) \in {\h19, \h39}
      /\ cur \in Channels /\ data \in Seq(Byte) /\ Len(data) \in Nat /\ frag[cur] = <<>>
  BY LenProperties DEF Inv, TypeOK, TransferType, FragmentFirst, BreakBytes, AtCommand
<1>2. PICK lab \in Seq(Place) : Follows(lab, cur)
  BY <1>1 DEF InSync
<1>3. PICK c \in Commands : AtHead(c, lab)
  BY <1>1, <1>2, HeadCommand
<1>4. /\ c # <<>> /\ Head(data) = Head(c) /\ Len(c) \in Nat
      /\ \A k \in 2 .. Len(c) : k <= Len(data) => NextByte(k) = {c[k]}
  BY <1>1, <1>3, HeadBytes, CommandLength
<1>5. Head(c) \in ByteOps /\ Writes(Head(c)) /\ Reads(Head(c)) = (Head(c) = \h39)
  BY <1>1, <1>4 DEF ByteOps, Writes, Reads
<1>6. /\ Len(c) >= 3 /\ ByteCount(c[2], c[3]) = ShiftSize(c) /\ ShiftSize(c) >= 1
      /\ Len(c) = 3 + ShiftSize(c) /\ ShiftSize(c) \in Nat
  <2>1. /\ Len(c) >= 3 /\ ByteCount(c[2], c[3]) = ShiftSize(c) /\ ShiftSize(c) >= 1
        /\ Len(c) = 3 + ShiftSize(c) /\ c[2] \in Byte /\ c[3] \in Byte
    BY <1>5, CommandLength
  <2>2. ShiftSize(c) \in Nat
    BY <2>1, ByteCountType, CountModAssumption
  <2> QED
    BY <2>1, <2>2
<1>7. PICK lo \in NextByte(2), hi \in NextByte(3) :
        /\ 3 + ByteCount(lo, hi) > Len(data)
        /\ frag' = [frag EXCEPT ![cur] = @ \o Drop(data, 3)]
        /\ total' = [total EXCEPT ![cur] = ByteCount(lo, hi)]
        /\ hasRep' = [hasRep EXCEPT ![cur] = Reads(Head(data)) /\ ByteCount(lo, hi) > 0]
        /\ rep' = IF Reads(Head(data)) THEN rep \o Zeros(ByteCount(lo, hi)) ELSE rep
  BY DEF BreakBytes, ExtendFragment
<1>8. Len(data) >= 3
  <2>1. Consume(IF Len(data) < 3 THEN 3 ELSE Len(data))
    BY DEF BreakBytes
  <2> SUFFICES ASSUME Len(data) < 3 PROVE FALSE
    BY <1>1
  <2> QED
    BY <2>1 DEF Consume
<1>9. lo = c[2] /\ hi = c[3]
  BY <1>4, <1>6, <1>7, <1>8
<1>10. Len(data) < Len(c)
  BY <1>1, <1>6, <1>7, <1>9
<1>11. Len(data) > 3
  <2>1. CutAfter(c, Len(data)) = lastCut /\ Len(data) # Len(c)
    BY <1>1, <1>3, <1>4, <1>10 DEF AtHead
  <2>2. Len(data) = 3 => lastCut = "gap"
    <3> SUFFICES ASSUME Len(data) = 3 PROVE lastCut = "gap"
      OBVIOUS
    <3>1. ~ (Len(data) < 3)
      OBVIOUS
    <3> QED
      BY <1>5, <2>1, <3>1, Zenon DEF CutAfter
  <2> DEFINE m == Len(data)
  <2>3. m \in Nat /\ m >= 3 /\ m # 3
    BY <1>1, <1>8, <2>2
  <2> HIDE DEF m
  <2>4. m > 3
    BY <2>3
  <2> QED
    BY <2>4 DEF m
<1>12. data' = <<>>
  <2>1. Consume(Len(data))
    BY <1>1, <1>8 DEF BreakBytes
  <2> QED
    BY <1>1, <2>1, ConsumeType
<1>13. frag' = [frag EXCEPT ![cur] = Drop(data, 3)]
  <2>1. frag[cur] \o Drop(data, 3) = Drop(data, 3)
    BY <1>1, DropType, ConcatEmptySeq
  <2> QED
    BY <1>7, <2>1
<1>14. hasRep' = [hasRep EXCEPT ![cur] = (Head(c) = \h39)]
  <2>1. ShiftSize(c) > 0
    BY <1>6
  <2>2. (Reads(Head(c)) /\ ShiftSize(c) > 0) = (Head(c) = \h39)
    BY <1>5, <2>1, Zenon
  <2>3. (Reads(Head(data)) /\ ShiftSize(c) > 0) = (Head(c) = \h39)
    BY <1>4, <2>2, Zenon
  <2> QED
    BY <1>6, <1>7, <1>9, <2>3, Zenon
<1>15. total' = [total EXCEPT ![cur] = ShiftSize(c)]
       /\ rep' = IF Head(c) = \h39 THEN rep \o Zeros(ShiftSize(c)) ELSE rep
  BY <1>4, <1>5, <1>6, <1>7, <1>9, Zenon
<1> QED
  BY <1>1, <1>2, <1>3, <1>4, <1>6, <1>10, <1>11, <1>12, <1>13, <1>14, <1>15, ZenonT(60)

\* A shift cut short leaves the wire at the rest of its payload.
LEMMA BreakBytesSync ==
    ASSUME Inv, CommandsWellFormed, \A ch \in Channels : InSync(ch), lastCut # "gap",
           BreakBytes, pc' # "halted"
    PROVE  (\A ch \in Channels : InSync(ch)') /\ lastCut' # "head"
<1>1. PICK lab \in Seq(Place), c \in Commands :
        /\ Follows(lab, cur) /\ AtHead(c, lab) /\ Head(data) = Head(c)
        /\ Head(c) \in {\h19, \h39}
        /\ Len(data) > 3 /\ Len(data) < Len(c) /\ Len(c) = 3 + ShiftSize(c)
        /\ frag' = [frag EXCEPT ![cur] = Drop(data, 3)] /\ data' = <<>>
        /\ total' = [total EXCEPT ![cur] = ShiftSize(c)]
        /\ hasRep' = [hasRep EXCEPT ![cur] = (Head(c) = \h39)]
  BY BrokenCommand
<1>2. UNCHANGED <<cur, wire, lastCut>>
  BY DEF BreakBytes, hostVars
<1>3. /\ cur \in Channels /\ data \in Seq(Byte) /\ Len(data) \in Nat
      /\ Len(wire[cur]) \in Nat /\ Len(lab) \in Nat /\ Len(lab) = Len(data) + Len(wire[cur])
  BY <1>1, LabelsOfData DEF Inv, TypeOK, TransferType
<1>4. Len(c) \in Nat /\ ShiftSize(c) = Len(c) - 3
  <2>1. Len(c) \in Nat
    BY CommandType
  <2>2. Head(c) \in ByteOps
    BY <1>1 DEF ByteOps
  <2>3. ShiftSize(c) \in Nat
    BY <2>2, CommandLength, ByteCountType, CountModAssumption
  <2> QED
    BY <1>1, <2>1, <2>3
<1>5. /\ frag \in [Channels -> Seq(Byte)] /\ total \in [Channels -> 0 .. CountMod - 1]
      /\ hasRep \in [Channels -> BOOLEAN]
  BY DEF Inv, TypeOK, ChannelType
<1>6. /\ frag'[cur] = Drop(data, 3) /\ total'[cur] = Len(c) - 3
      /\ hasRep'[cur] = (Head(c) = \h39)
  BY <1>1, <1>3, <1>4, <1>5
<1>7. /\ Len(frag'[cur]) = Len(data) - 3 /\ frag'[cur] # <<>>
      /\ \A k \in 1 .. Len(data) - 3 : frag'[cur][k] = data[3 + k]
  <2>1. 3 \in 0 .. Len(data)
    BY <1>1, <1>3
  <2>2. Len(frag'[cur]) = Len(data) - 3
        /\ \A k \in 1 .. Len(data) - 3 : frag'[cur][k] = data[3 + k]
    BY <1>3, <1>6, <2>1, DropElements, SMTT(40)
  <2>3. \A m \in Nat : m > 3 => m - 3 # 0
    OBVIOUS
  <2>4. frag'[cur] # <<>>
    <3>1. Len(data) - 3 # 0
      BY <1>1, <1>3, <2>3, Zenon
    <3> QED
      BY <2>2, <3>1, EmptySeq
  <2> QED
    BY <2>2, <2>4
<1>14. PICK n \in Nat : n = Len(data)
  BY <1>3
<1> DEFINE rest == Drop(lab, n)
<1>8. n \in 1 .. Len(data) /\ n \in 0 .. Len(lab) /\ n + 1 \in 1 .. Len(c)
      /\ 1 \in 1 .. Len(lab) - n
  <2>1. Len(c) <= Len(lab)
    BY <1>1 DEF AtHead
  <2> QED
    BY <1>1, <1>3, <1>4, <1>14, <2>1
<1>9. rest # <<>> /\ rest[1] = [cmd |-> c, at |-> n + 1]
  <2>1. /\ Len(rest) = Len(lab) - n /\ rest[1] = lab[n + 1]
    BY <1>8, DropElements
  <2>2. Len(rest) # 0
    BY <1>3, <1>8, <2>1
  <2>3. lab[n + 1] = [cmd |-> c, at |-> n + 1]
    BY <1>1, <1>8 DEF AtHead
  <2> QED
    BY <2>1, <2>2, <2>3
<1> HIDE DEF rest
<1>10. Begins(rest, cur)'
  <2>1. n + 1 = 4 + Len(frag'[cur])
    BY <1>3, <1>7, <1>14
  <2>2. ASSUME NEW i \in 1 .. Len(frag'[cur]) PROVE frag'[cur][i] = c[3 + i]
    <3>1. i \in 1 .. Len(data) - 3 /\ 3 + i \in 1 .. Len(c) /\ 3 + i <= Len(data)
      BY <1>1, <1>3, <1>4, <1>7, SMTT(60)
    <3>2. data[3 + i] = c[3 + i]
      BY <1>1, <3>1 DEF AtHead
    <3> QED
      BY <1>7, <3>1, <3>2
  <2>3. OpenAt(rest[1], cur)'
    <3>1. /\ rest[1].cmd = c /\ rest[1].at = n + 1
      BY <1>9
    <3>2. /\ Head(rest[1].cmd) \in {\h19, \h39}
          /\ rest[1].at = 4 + Len(frag'[cur])
          /\ total'[cur] = Len(rest[1].cmd) - 3
          /\ hasRep'[cur] = (Head(rest[1].cmd) = \h39)
          /\ \A i \in 1 .. Len(frag'[cur]) : frag'[cur][i] = rest[1].cmd[3 + i]
      BY <1>1, <1>6, <2>1, <2>2, <3>1, Zenon
    <3> QED
      BY <1>2, <3>2 DEF OpenAt
  <2> QED
    BY <1>2, <1>7, <1>9, <2>3 DEF Begins
<1>11. InSync(cur)'
  <2>1. data' = Drop(data, n)
    BY <1>1, <1>3, <1>14, DropType
  <2> QED
    BY <1>1, <1>2, <1>3, <1>8, <1>10, <2>1, SyncAdvance DEF rest
<1>12. \A ch \in Channels : InSync(ch)'
  BY <1>1, <1>2, <1>5, <1>11, OthersInSync
<1>13. lastCut # "head"
  <2>1. CutAfter(c, Len(data)) = lastCut
    BY <1>1, <1>3, <1>4 DEF AtHead
  <2>2. Head(c) \in ByteOps /\ ~ (Len(data) < 3)
    BY <1>1, <1>3, SMTT(40) DEF ByteOps
  <2> QED
    BY <2>1, <2>2 DEF CutAfter
<1> QED
  BY <1>2, <1>12, <1>13

\* While a fragment is kept, the transfer goes on where the fragment ends: p is the place of
\* its first byte, c the command and m the bytes c still lacks.
LEMMA ResumedCommand ==
    ASSUME Inv, pc = "resume", \A ch \in Channels : InSync(ch)
    PROVE  \E lab \in Seq(Place), c \in Commands, m \in Nat :
             /\ Follows(lab, cur) /\ Head(c) \in {\h19, \h39}
             /\ m = Missing /\ m >= 1 /\ m <= Len(lab)
             /\ Len(c) = 3 + total[cur] /\ Len(frag[cur]) = total[cur] - m
             /\ hasRep[cur] = (Head(c) = \h39)
             /\ \A i \in 1 .. Len(frag[cur]) : frag[cur][i] = c[3 + i]
             /\ \A i \in 1 .. m : lab[i] = [cmd |-> c, at |-> 3 + Len(frag[cur]) + i]
             /\ m < Len(lab) => lab[m + 1].at = 1
<1>1. /\ cur \in Channels /\ Missing \in Nat \ {0} /\ total[cur] \in Nat
      /\ frag[cur] \in Seq(Byte) /\ Len(frag[cur]) = total[cur] - Missing
      /\ Len(frag[cur]) \in Nat /\ frag[cur] # <<>>
  BY MissingType, LenProperties DEF Inv, FragmentFirst
<1>2. PICK lab \in Seq(Place) : Follows(lab, cur)
  BY <1>1 DEF InSync
<1>3. lab # <<>> /\ OpenAt(lab[1], cur)
  BY <1>1, <1>2 DEF Follows, Begins
<1>4. Len(lab) \in Nat /\ 1 \in 1 .. Len(lab)
  BY <1>3, LenProperties, EmptySeq
<1> DEFINE p == lab[1]
           c == p.cmd
<1>5. c \in Commands /\ p.at \in Nat /\ Len(c) \in Nat
  BY <1>4, PlaceType, CommandType
<1>6. /\ Head(c) \in {\h19, \h39}
      /\ p.at = 4 + Len(frag[cur])
      /\ total[cur] = Len(c) - 3
      /\ hasRep[cur] = (Head(c) = \h39)
      /\ \A i \in 1 .. Len(frag[cur]) : frag[cur][i] = c[3 + i]
  BY <1>3 DEF OpenAt
<1>7. /\ 1 + (Len(c) - p.at) <= Len(lab)
      /\ \A j \in 0 .. Len(c) - p.at : lab[1 + j] = [cmd |-> c, at |-> p.at + j]
  BY <1>2, <1>4 DEF Follows, Runs, RunsFrom
<1> HIDE DEF c, p
<1>8. PICK m \in Nat : m = Missing /\ m >= 1
  BY <1>1
<1>9. /\ Len(c) = 3 + total[cur] /\ Len(frag[cur]) = total[cur] - m
      /\ Len(c) - p.at = m - 1 /\ m <= Len(lab)
  BY <1>1, <1>4, <1>5, <1>6, <1>7, <1>8
<1>10. ASSUME NEW i \in 1 .. m
       PROVE  lab[i] = [cmd |-> c, at |-> 3 + Len(frag[cur]) + i]
  <2>1. i - 1 \in 0 .. Len(c) - p.at /\ 1 + (i - 1) = i
        /\ p.at + (i - 1) = 3 + Len(frag[cur]) + i
    <3>1. \A k, f \in Nat : 1 + (k - 1) = k /\ 4 + f + (k - 1) = 3 + f + k
      OBVIOUS
    <3>2. i - 1 \in 0 .. Len(c) - p.at
      <4>1. i - 1 \in 0 .. m - 1
        OBVIOUS
      <4> QED
        BY <1>9, <4>1
    <3> QED
      BY <1>1, <1>6, <3>1, <3>2
  <2> QED
    BY <1>7, <2>1
<1>11. m < Len(lab) => lab[m + 1].at = 1
  <2>1. m \in 1 .. Len(lab) /\ m \in 1 .. m
    BY <1>4, <1>8, <1>9
  <2>2. RunsFrom(lab, m)
    BY <1>2, <2>1 DEF Follows, Runs
  <2>3. lab[m].cmd = c /\ lab[m].at = 3 + Len(frag[cur]) + m
    <3>1. lab[m] = [cmd |-> c, at |-> 3 + Len(frag[cur]) + m]
      BY <1>10, <2>1
    <3> QED
      BY <3>1
  <2>4. Len(c) - (3 + Len(frag[cur]) + m) = 0
    BY <1>1, <1>9, SMTT(40)
  <2>5. Len(lab[m].cmd) - lab[m].at = 0
    BY <2>3, <2>4
  <2> QED
    BY <2>2, <2>5 DEF RunsFrom
<1> QED
  BY <1>2, <1>5, <1>6, <1>8, <1>9, <1>10, <1>11, ZenonT(40)

\* A fragment that grows leaves the wire at what is still missing.
LEMMA ResumePartialSync ==
    ASSUME Inv, ResumePartial, \A ch \in Channels : InSync(ch)
    PROVE  (\A ch \in Channels : InSync(ch)') /\ lastCut' # "head"
<1>1. PICK lab \in Seq(Place), c \in Commands, m \in Nat :
        /\ Follows(lab, cur) /\ Head(c) \in {\h19, \h39}
        /\ m = Missing /\ m >= 1 /\ m <= Len(lab)
        /\ Len(c) = 3 + total[cur] /\ Len(frag[cur]) = total[cur] - m
        /\ hasRep[cur] = (Head(c) = \h39)
        /\ \A i \in 1 .. Len(frag[cur]) : frag[cur][i] = c[3 + i]
        /\ \A i \in 1 .. m : lab[i] = [cmd |-> c, at |-> 3 + Len(frag[cur]) + i]
  BY ResumedCommand DEF ResumePartial
<1>2. UNCHANGED <<cur, wire, lastCut, total, hasRep>>
  BY DEF ResumePartial, hostVars
<1>3. /\ cur \in Channels /\ data \in Seq(Byte) /\ Len(data) \in Nat
      /\ Len(wire[cur]) \in Nat /\ Len(lab) \in Nat /\ Len(lab) = Len(data) + Len(wire[cur])
      /\ \A k \in 1 .. Len(data) : data[k] = Sent(lab[k]).byte
      /\ data # <<>> => Sent(lab[Len(data)]).cut = lastCut
  BY <1>1, LabelsOfData DEF Inv, TypeOK, TransferType
<1>4. /\ frag \in [Channels -> Seq(Byte)] /\ frag[cur] \in Seq(Byte) /\ Len(frag[cur]) \in Nat
      /\ data # <<>> /\ total[cur] \in Nat
  BY <1>3, MissingType, LenProperties
     DEF Inv, TypeOK, ChannelType, FragmentFirst, ResumePartial
<1>5. PICK n \in Nat : n = Len(data) /\ n >= 1 /\ n < m
  BY <1>1, <1>3, <1>4, EmptySeq DEF ResumePartial
<1>6. /\ frag' = [frag EXCEPT ![cur] = frag[cur] \o data] /\ data' = Drop(data, n)
  BY <1>5 DEF ResumePartial, ExtendFragment, Consume
<1>7. PICK f \in Nat : f = Len(frag[cur])
  BY <1>4
<1>8. \A i \in 1 .. n : data[i] = c[3 + f + i]
  <2> SUFFICES ASSUME NEW i \in 1 .. n PROVE data[i] = c[3 + f + i]
    OBVIOUS
  <2>1. i \in 1 .. m /\ i \in 1 .. Len(data)
    BY <1>5
  <2> QED
    <3>1. lab[i] = [cmd |-> c, at |-> 3 + f + i]
      BY <1>1, <1>7, <2>1
    <3>2. Sent(lab[i]).byte = c[3 + f + i]
      BY <3>1 DEF Sent
    <3> QED
      BY <1>3, <2>1, <3>2
<1>9. /\ frag'[cur] = frag[cur] \o data /\ Len(frag'[cur]) = f + n /\ frag'[cur] # <<>>
      /\ \A i \in 1 .. f + n : frag'[cur][i] = c[3 + i]
  <2>1. frag'[cur] = frag[cur] \o data
    BY <1>3, <1>4, <1>6
  <2>2. /\ Len(frag'[cur]) = f + n
        /\ \A i \in 1 .. f : frag'[cur][i] = frag[cur][i]
        /\ \A i \in 1 .. n : frag'[cur][f + i] = data[i]
    BY <1>3, <1>4, <1>5, <1>7, <2>1, ConcatElements
  <2>3. ASSUME NEW i \in 1 .. f + n PROVE frag'[cur][i] = c[3 + i]
    <3>1. CASE i <= f
      BY <1>1, <1>7, <2>2, <3>1
    <3>2. CASE i > f
      <4> DEFINE k == i - f
      <4>1. k \in 1 .. n /\ f + k = i /\ 3 + f + k = 3 + i
        BY <3>2
      <4> HIDE DEF k
      <4> QED
        BY <1>8, <2>2, <4>1
    <3> QED
      BY <3>1, <3>2
  <2>4. f + n # 0
    BY <1>5
  <2>5. frag'[cur] # <<>>
    BY <2>2, <2>4, EmptySeq
  <2> QED
    BY <2>1, <2>2, <2>3, <2>5
<1> DEFINE rest == Drop(lab, n)
<1>10. /\ n \in 0 .. Len(lab) /\ n \in 1 .. Len(data) /\ 1 \in 1 .. Len(lab) - n
       /\ n + 1 \in 1 .. m
  BY <1>1, <1>3, <1>5
<1>11. rest # <<>> /\ rest[1] = [cmd |-> c, at |-> 3 + f + (n + 1)]
  <2>1. Len(rest) = Len(lab) - n /\ rest[1] = lab[n + 1]
    BY <1>10, DropElements, ZenonT(60)
  <2>2. Len(rest) # 0
    BY <1>3, <1>10, <2>1
  <2> QED
    BY <1>1, <1>7, <1>10, <2>1, <2>2
<1> HIDE DEF rest
<1>12. Begins(rest, cur)'
  <2>1. rest[1].cmd = c /\ rest[1].at = 3 + f + (n + 1)
    BY <1>11
  <2>2. 3 + f + (n + 1) = 4 + (f + n) /\ total[cur] = Len(c) - 3
    BY <1>1, <1>4
  <2>3. /\ Head(rest[1].cmd) \in {\h19, \h39}
        /\ rest[1].at = 4 + Len(frag'[cur])
        /\ total[cur] = Len(rest[1].cmd) - 3
        /\ hasRep[cur] = (Head(rest[1].cmd) = \h39)
        /\ \A i \in 1 .. Len(frag'[cur]) : frag'[cur][i] = rest[1].cmd[3 + i]
    BY <1>1, <1>9, <2>1, <2>2, Zenon
  <2> QED
    BY <1>2, <1>9, <1>11, <2>3 DEF Begins, OpenAt
<1>13. \A ch \in Channels : InSync(ch)'
  <2>1. InSync(cur)'
    BY <1>1, <1>2, <1>3, <1>6, <1>10, <1>12, SyncAdvance DEF rest
  <2> QED
    BY <1>2, <1>4, <1>6, <2>1, OthersInSync
<1>14. lastCut # "head"
  <2>1. Sent(lab[n]).cut = lastCut /\ lab[n] = [cmd |-> c, at |-> 3 + f + n]
    <3>1. n \in 1 .. m
      BY <1>5
    <3> QED
      BY <1>1, <1>3, <1>4, <1>5, <1>7, <3>1
  <2>2. CutAfter(c, 3 + f + n) = lastCut
    BY <2>1 DEF Sent
  <2>3. Head(c) \in ByteOps /\ ~ (3 + f + n < 3)
    BY <1>1 DEF ByteOps
  <2> QED
    BY <2>2, <2>3 DEF CutAfter
<1> QED
  BY <1>2, <1>13, <1>14

\* A fragment that is completed leaves the transfer at a command.
LEMMA ResumeCompleteSync ==
    ASSUME Inv, ResumeComplete, \A ch \in Channels : InSync(ch)
    PROVE  (\A ch \in Channels : InSync(ch)') /\ (data' = <<>> => lastCut' = "end")
<1>1. PICK lab \in Seq(Place), c \in Commands, m \in Nat :
        /\ Follows(lab, cur)
        /\ m = Missing /\ m >= 1 /\ m <= Len(lab)
        /\ Len(c) = 3 + total[cur] /\ Len(frag[cur]) = total[cur] - m
        /\ \A i \in 1 .. m : lab[i] = [cmd |-> c, at |-> 3 + Len(frag[cur]) + i]
        /\ m < Len(lab) => lab[m + 1].at = 1
  BY ResumedCommand, ZenonT(60) DEF ResumeComplete
<1>2. UNCHANGED <<cur, wire, lastCut, total, hasRep>>
  BY DEF ResumeComplete, hostVars
<1>3. /\ cur \in Channels /\ data \in Seq(Byte) /\ Len(data) \in Nat
      /\ Len(wire[cur]) \in Nat /\ Len(lab) \in Nat /\ Len(lab) = Len(data) + Len(wire[cur])
      /\ data # <<>> => Sent(lab[Len(data)]).cut = lastCut
      /\ frag \in [Channels -> Seq(Byte)] /\ total[cur] \in Nat
  BY <1>1, LabelsOfData, MissingType DEF Inv, TypeOK, TransferType, ChannelType, ResumeComplete
<1>4. /\ m \in 1 .. Len(data) /\ m \in 0 .. Len(lab) /\ data' = Drop(data, m)
      /\ frag' = [frag EXCEPT ![cur] = <<>>]
  BY <1>1, <1>3 DEF ResumeComplete, Consume, ClearFragment
<1> DEFINE rest == Drop(lab, m)
<1>5. rest # <<>> => rest[1].at = 1
  <2>1. /\ rest \in Seq(Place) /\ Len(rest) = Len(lab) - m
        /\ \A k \in 1 .. Len(lab) - m : rest[k] = lab[m + k]
    BY <1>4, DropElements
  <2> HIDE DEF rest
  <2> SUFFICES ASSUME rest # <<>> PROVE rest[1].at = 1
    OBVIOUS
  <2>2. Len(rest) \in Nat /\ Len(rest) # 0
    BY <2>1, EmptySeq, LenProperties
  <2>3. 1 \in 1 .. Len(lab) - m /\ m < Len(lab)
    BY <1>3, <2>1, <2>2, SMTT(60)
  <2> QED
    BY <1>1, <2>1, <2>3
<1>6. Begins(rest, cur)'
  <2>1. frag'[cur'] = <<>>
    BY <1>2, <1>3, <1>4
  <2> HIDE DEF rest
  <2> QED
    BY <1>5, <2>1 DEF Begins
<1>7. \A ch \in Channels : InSync(ch)'
  <2>1. InSync(cur)'
    BY <1>1, <1>2, <1>3, <1>4, <1>6, SyncAdvance
  <2> QED
    BY <1>2, <1>3, <1>4, <2>1, OthersInSync
<1>8. data' = <<>> => lastCut' = "end"
  <2> SUFFICES ASSUME data' = <<>> PROVE lastCut = "end"
    BY <1>2
  <2>1. Len(data) = m
    <3>1. Len(data') = Len(data) - m /\ Len(data') = 0
      BY <1>3, <1>4, DropElements
    <3> QED
      BY <1>3, <3>1
  <2>2. Sent(lab[m]).cut = lastCut
    BY <1>3, <1>4, <2>1, EmptySeq
  <2>3. lab[m] = [cmd |-> c, at |-> Len(c)]
    <3>1. m \in 1 .. m /\ 3 + Len(frag[cur]) + m = Len(c)
      BY <1>1, <1>3, SMTT(40)
    <3> QED
      BY <1>1, <3>1
  <2> QED
    BY <2>2, <2>3 DEF Sent, CutAfter
<1> QED
  BY <1>7, <1>8

-----------------------------------------------------------------------------
(* The invariant. *)

\* SyncInv holds at first.
LEMMA InitSync == Init => SyncInv
<1> SUFFICES ASSUME Init PROVE SyncInv
  OBVIOUS
<1>1. ASSUME NEW ch \in Channels PROVE InSync(ch)
  <2>1. <<>> \in Seq(Place) /\ Len(<<>>) = 0
    BY EmptySeq
  <2>2. Held(ch) = <<>> /\ wire[ch] = <<>> /\ frag[ch] = <<>>
    BY DEF Init, Held
  <2>3. Runs(<<>>) /\ Labels(<<>>, ch) /\ Begins(<<>>, ch)
    BY <2>1, <2>2 DEF Runs, Labels, Begins
  <2> QED
    BY <2>1, <2>2, <2>3 DEF InSync, Follows
<1> QED
  BY <1>1 DEF Init, SyncInv

\* The host's steps, vendor requests and the end of the process.
LEMMA OutsideSync ==
    ASSUME Inv, SyncInv, CommandsWellFormed, Host \/ \E r \in Requests : HandleEP0(r)
    PROVE  SyncInv'
<1>1. CASE \E ch \in Channels : ResetPort(ch)
  BY <1>1 DEF SyncInv, ResetPort
<1>2. CASE \E ch \in Channels : HostRead(ch)
  <2>1. UNCHANGED <<frag, total, hasRep, pc, cur, data, lastCut, wire>>
    BY <1>2 DEF HostRead, chanVars, xferVars
  <2>2. ASSUME NEW ch \in Channels, InSync(ch) PROVE InSync(ch)'
    BY <2>1, <2>2, SyncUnchanged DEF Held
  <2> QED
    BY <2>1, <2>2 DEF SyncInv
<1>3. CASE \E r \in Requests : HandleEP0(r)
  <2>1. /\ UNCHANGED <<frag, total, hasRep, cur, data, lastCut, wire>>
        /\ pc = "idle" /\ pc' \in {"idle", "halted"}
    BY <1>3 DEF HandleEP0, hostVars
  <2>2. ASSUME NEW ch \in Channels, InSync(ch) PROVE InSync(ch)'
    BY <2>1, <2>2, SyncUnchanged DEF Held
  <2> QED
    BY <2>1, <2>2 DEF SyncInv
<1>4. ASSUME NEW ch \in Channels, NEW c \in Commands, Issue(ch, c) PROVE SyncInv'
  <2>1. /\ UNCHANGED <<frag, total, hasRep, pc, cur, data, lastCut>>
        /\ \A other \in Channels \ {ch} : wire'[other] = wire[other]
    BY <1>4 DEF Issue, chanVars, xferVars, Inv, TypeOK, OutsideType
  <2>2. ASSUME NEW other \in Channels, \A any \in Channels : InSync(any)
        PROVE  InSync(other)'
    <3>1. CASE other = ch
      BY <1>4, <2>2, <3>1, IssueSync
    <3>2. CASE other # ch
      <4>1. Held(other)' = Held(other) /\ wire'[other] = wire[other]
        BY <2>1, <3>2 DEF Held
      <4> QED
        BY <2>1, <2>2, <4>1, SyncUnchanged
    <3> QED
      BY <3>1, <3>2
  <2> QED
    BY <2>1, <2>2 DEF SyncInv
<1> QED
  BY <1>1, <1>2, <1>3, <1>4 DEF Host

\* A transfer is the beginning of what is on the wire.
LEMMA DeliverSyncInv ==
    ASSUME Inv, SyncInv, NEW ch \in Channels, Deliver(ch)
    PROVE  SyncInv'
<1>1. pc = "idle" /\ data = <<>> /\ pc' \notin {"idle", "halted"}
  BY DEF Deliver, SyncInv
<1>2. CASE lastCut = "abandoned"
  BY <1>1, <1>2 DEF Deliver, SyncInv
<1>3. CASE lastCut # "abandoned"
  <2>1. (\A other \in Channels : InSync(other)') /\ data' # <<>> /\ lastCut' \in Cuts
    BY <1>1, <1>3, DeliverSync DEF SyncInv
  <2> QED
    BY <1>1, <2>1 DEF SyncInv
<1> QED
  BY <1>2, <1>3

\* A step of the handler that does not end the process keeps in step with the host.
LEMMA HandlerSync ==
    ASSUME Inv, CommandsWellFormed, \A ch \in Channels : InSync(ch), lastCut # "gap",
           data = <<>> => lastCut # "head", Handler, pc' # "halted"
    PROVE  (\A ch \in Channels : InSync(ch)') /\ (data' = <<>> => lastCut' # "head")
<1>1. CASE SkipCommand \/ SyncCommand \/ LoopbackCommand \/ SetPort \/ ShiftBits \/ ShiftBytes
  <2>1. PICK lab \in Seq(Place), c \in Commands, n \in Nat :
          /\ Follows(lab, cur) /\ AtHead(c, lab) /\ Consume(n)
          /\ n = Len(c) \/ n > Len(data)
    BY <1>1, WholeCommands
  <2>2. UNCHANGED <<frag, total, hasRep, cur, wire, lastCut>>
    BY <1>1 DEF SkipCommand, SyncCommand, LoopbackCommand, SetPort, ShiftBits, ShiftBytes,
                chanVars, hostVars
  <2>3. frag[cur] = <<>> /\ c # <<>>
    <3>1. pc = "loop" /\ data # <<>>
      BY <1>1 DEF SkipCommand, SyncCommand, LoopbackCommand, SetPort, ShiftBits, ShiftBytes,
                  AtCommand
    <3> QED
      BY <3>1, CommandLength DEF Inv, FragmentFirst
  <2>4. (\A ch \in Channels : InSync(ch)') /\ (data' = <<>> => lastCut' = "end")
    BY <2>1, <2>2, <2>3, TakeCommand
  <2> QED
    BY <2>4
<1>2. CASE ResumePartial
  BY <1>2, ResumePartialSync
<1>3. CASE ResumeComplete
  BY <1>3, ResumeCompleteSync
<1>4. CASE BreakBytes
  BY <1>4, BreakBytesSync
<1>5. CASE Finish
  <2>1. UNCHANGED <<frag, total, hasRep, cur, data, wire, lastCut>>
    BY <1>5 DEF Finish, chanVars
  <2>2. ASSUME NEW ch \in Channels PROVE InSync(ch)'
    BY <2>1, SyncUnchanged DEF Held
  <2> QED
    BY <2>1, <2>2
<1>6. CASE Throw
  BY <1>6 DEF Throw
<1> QED
  BY <1>1, <1>2, <1>3, <1>4, <1>5, <1>6 DEF Handler

\* Every step of the handler keeps SyncInv.
LEMMA HandlerSyncInv ==
    ASSUME Inv, SyncInv, CommandsWellFormed, "gap" \notin Cuts, Handler
    PROVE  SyncInv'
<1>1. UNCHANGED lastCut /\ pc # "halted" /\ (pc' = "idle" => data' = <<>>)
  BY DEF Handler, ResumePartial, ResumeComplete, SkipCommand, SyncCommand, LoopbackCommand,
         SetPort, ShiftBits, ShiftBytes, BreakBytes, Finish, Throw, Consume, AtCommand,
         WrongMode, Unsupported, AdapterError
<1>2. lastCut # "gap"
  BY DEF SyncInv
<1>3. ASSUME pc' # "halted", lastCut' # "abandoned"
      PROVE  (\A ch \in Channels : InSync(ch)') /\ (data' = <<>> => lastCut' # "head")
  <2>1. (\A ch \in Channels : InSync(ch)) /\ (data = <<>> => lastCut # "head")
    BY <1>1, <1>3 DEF SyncInv
  <2> QED
    BY <1>2, <1>3, <2>1, HandlerSync
<1> QED
  BY <1>1, <1>3, SMTT(60) DEF SyncInv

\* Every step keeps SyncInv.
LEMMA SyncNext ==
    ASSUME CommandsWellFormed, "gap" \notin Cuts
    PROVE  Inv /\ SyncInv /\ [Next]_vars => SyncInv'
<1> SUFFICES ASSUME Inv, SyncInv, [Next]_vars PROVE SyncInv'
  OBVIOUS
<1>1. CASE Host \/ \E r \in Requests : HandleEP0(r)
  BY <1>1, OutsideSync
<1>2. CASE \E ch \in Channels : Deliver(ch)
  BY <1>2, DeliverSyncInv
<1>3. CASE EmptyTransfer
  BY <1>3 DEF EmptyTransfer, SyncInv
<1>4. CASE Handler
  BY <1>4, HandlerSyncInv
<1>5. CASE UNCHANGED vars
  <2>1. UNCHANGED <<frag, total, hasRep, pc, cur, data, lastCut, wire>>
    BY <1>5 DEF vars, chanVars, xferVars, hostVars
  <2>2. ASSUME NEW ch \in Channels, InSync(ch) PROVE InSync(ch)'
    BY <2>1, <2>2, SyncUnchanged DEF Held
  <2> QED
    BY <2>1, <2>2 DEF SyncInv
<1> QED
  BY <1>1, <1>2, <1>3, <1>4, <1>5 DEF Next

\* The handler stays in step with a host that writes whole commands, however their bytes are
\* cut into transfers, unless a transfer ends right behind a header.
THEOREM KeepsInStep ==
    ASSUME CommandsWellFormed, "gap" \notin Cuts
    PROVE  Spec => []SyncInv
<1>1. Init => Inv /\ SyncInv
  BY InitInv, InitSync
<1>2. Inv /\ SyncInv /\ [Next]_vars => (Inv /\ SyncInv)'
  BY NextInv, SyncNext
<1> QED
  BY <1>1, <1>2, PTL DEF Spec

\* A transfer that ends inside a header is never taken for a complete one, whatever commands
\* the host writes and whatever lies behind the buffer.
THEOREM TruncationIsFatal ==
    ASSUME CommandsWellFormed, "gap" \notin Cuts
    PROVE  Spec => []TruncationFatal
<1>1. SyncInv => TruncationFatal
  BY DEF SyncInv, TruncationFatal
<1> QED
  BY <1>1, KeepsInStep, PTL

-----------------------------------------------------------------------------
(* When the process goes on. *)

CommandsSupported == \A c \in Commands : Head(c) \in Opcodes

\* A command the handler takes whole is there whole, unless the transfer ends inside its
\* header.
LEMMA WholeFits ==
    ASSUME Inv, CommandsWellFormed, \A ch \in Channels : InSync(ch), lastCut # "head",
           SkipCommand \/ SyncCommand \/ LoopbackCommand \/ SetPort \/ ShiftBits \/ ShiftBytes
    PROVE  \E lab \in Seq(Place), c \in Commands :
             /\ Follows(lab, cur) /\ AtHead(c, lab)
             /\ Consume(Len(c)) /\ Len(c) \in Nat /\ Len(c) <= Len(data)
<1>0. data \in Seq(Byte) /\ Len(data) \in Nat
  BY LenProperties DEF Inv, TypeOK, TransferType
<1>1. PICK lab \in Seq(Place), c \in Commands, n \in Nat :
        /\ Follows(lab, cur) /\ AtHead(c, lab) /\ Consume(n)
        /\ n = Len(c) \/ (n > Len(data) /\ Len(data) < Len(c) /\ Len(data) < 3)
        /\ Head(c) \in ByteOps /\ Len(data) >= 3 => n <= Len(data)
  BY WholeCommands
<1>2. data # <<>>
  BY DEF SkipCommand, SyncCommand, LoopbackCommand, SetPort, ShiftBits, ShiftBytes, AtCommand
<1>3. Len(data) < Len(c) => Head(c) \in ByteOps /\ Len(data) >= 3
  BY <1>1, <1>2, HeadWhole
<1>4. Len(c) \in Nat
  BY CommandType
<1>5. n = Len(c) /\ n <= Len(data)
  BY <1>0, <1>1, <1>3, <1>4
<1> QED
  BY <1>1, <1>4, <1>5

\* A broken payload comes after a whole header: it does not end the process.
LEMMA BreakFits ==
    ASSUME Inv, CommandsWellFormed, \A ch \in Channels : InSync(ch), lastCut # "head", BreakBytes
    PROVE  pc' # "halted"
<1>0. data \in Seq(Byte) /\ Len(data) \in Nat /\ cur \in Channels
  BY LenProperties DEF Inv, TypeOK, TransferType
<1>1. pc = "loop" /\ data # <<>> /\ Head(data) \in {\h19, \h39} /\ frag[cur] = <<>>
  BY DEF Inv, FragmentFirst, BreakBytes, AtCommand
<1>2. PICK lab \in Seq(Place) : Follows(lab, cur)
  BY <1>0 DEF InSync
<1>3. PICK c \in Commands : AtHead(c, lab)
  BY <1>0, <1>1, <1>2, HeadCommand
<1>4. Head(c) \in ByteOps /\ Len(c) \in Nat /\ Len(c) >= 3
  <2>1. Head(c) = Head(data)
    BY <1>1, <1>3, HeadBytes, CommandLength
  <2>2. Head(c) \in ByteOps
    BY <1>1, <2>1 DEF ByteOps
  <2> QED
    BY <2>2, CommandLength
<1>5. Len(data) < Len(c) => Len(data) >= 3
  BY <1>1, <1>3, HeadWhole
<1>6. ~ (Len(data) < 3)
  BY <1>0, <1>4, <1>5
<1>7. Consume(Len(data))
  BY <1>6 DEF BreakBytes
<1> QED
  BY <1>0, <1>7 DEF Consume

\* With whole headers to read, a mode that fits and an adapter that answers, no step of the
\* handler ends the process.
LEMMA HandlerGoesOn ==
    ASSUME Inv, CommandsWellFormed, CommandsSupported, \A ch \in Channels : InSync(ch),
           lastCut \notin {"head", "gap"}, data # <<>> => InMpsseMode,
           "AdapterError" \notin Faults, Handler
    PROVE  pc' # "halted"
<1>1. data \in Seq(Byte) /\ Len(data) \in Nat /\ cur \in Channels
  BY LenProperties DEF Inv, TypeOK, TransferType
<1>2. CASE SkipCommand \/ SyncCommand \/ LoopbackCommand \/ SetPort \/ ShiftBits \/ ShiftBytes
  BY <1>1, <1>2, WholeFits DEF Consume
<1>3. CASE BreakBytes
  BY <1>3, BreakFits
<1>4. CASE ResumePartial
  <2>1. Consume(Len(data))
    BY <1>4 DEF ResumePartial
  <2> QED
    BY <1>1, <2>1 DEF Consume
<1>5. CASE ResumeComplete
  <2>1. Consume(Missing) /\ Len(data) >= Missing /\ Missing \in Nat
    BY <1>5, MissingType DEF ResumeComplete
  <2> QED
    BY <1>1, <2>1 DEF Consume
<1>6. CASE Finish
  BY <1>6 DEF Finish
<1>7. ~Throw
  <2>1. ~AdapterError
    BY DEF AdapterError
  <2>2. ~WrongMode
    BY DEF WrongMode, AtCommand, Inv, FragmentFirst
  <2>3. ~Unsupported
    <3> SUFFICES ASSUME pc = "loop", data # <<>> PROVE Head(data) \in Opcodes
      BY DEF Unsupported
    <3>1. frag[cur] = <<>>
      BY DEF Inv, FragmentFirst
    <3>2. PICK lab \in Seq(Place) : Follows(lab, cur)
      BY <1>1 DEF InSync
    <3>3. PICK c \in Commands : AtHead(c, lab)
      BY <1>1, <3>1, <3>2, HeadCommand
    <3>4. Head(data) = Head(c)
      BY <3>3, HeadBytes, CommandLength
    <3> QED
      BY <3>4 DEF CommandsSupported
  <2> QED
    BY <2>1, <2>2, <2>3 DEF Throw
<1> QED
  BY <1>2, <1>3, <1>4, <1>5, <1>6, <1>7 DEF Handler

-----------------------------------------------------------------------------
(* VirtualFTDI implements MpsseStream: however the USB stack cuts the bytes of a       *)
(* channel inside the payloads of write commands, the device does what an interpreter  *)
(* of the uncut byte stream may do.                                                    *)

-----------------------------------------------------------------------------
(* The instance has the operators of Mpsse under names of its own. *)

\* The classes of operation codes, the layout of a command and the adapter's answers are
\* the same in the abstract specification.
LEMMA SameCommands ==
    /\ \A op : (Abstract!Reads(op) <=> Reads(op)) /\ (Abstract!Writes(op) <=> Writes(op))
    /\ \A op : Abstract!HeaderLen(op) = HeaderLen(op)
    /\ \A s : Abstract!ShiftSize(s) = ShiftSize(s)
    /\ Abstract!Shifts = Shifts /\ Abstract!ByteOps = ByteOps /\ Abstract!BitOps = BitOps
    /\ Abstract!Sync = Sync /\ Abstract!PortLow = PortLow
    /\ Abstract!LoopbackOn = LoopbackOn /\ Abstract!LoopbackOff = LoopbackOff
<1>1. /\ Abstract!Shifts = Shifts /\ Abstract!ByteOps = ByteOps /\ Abstract!BitOps = BitOps
      /\ Abstract!Sync = Sync /\ Abstract!PortLow = PortLow
      /\ Abstract!LoopbackOn = LoopbackOn /\ Abstract!LoopbackOff = LoopbackOff
      /\ Abstract!PortHigh = PortHigh /\ Abstract!ClockDivisor = ClockDivisor
  BY DEF Shifts, ByteOps, BitOps, Sync, PortLow, PortHigh, ClockDivisor, LoopbackOn, LoopbackOff,
         Abstract!Shifts, Abstract!ByteOps, Abstract!BitOps, Abstract!Sync, Abstract!PortLow,
         Abstract!PortHigh, Abstract!ClockDivisor, Abstract!LoopbackOn, Abstract!LoopbackOff
<1>2. \A op : (Abstract!Reads(op) <=> Reads(op)) /\ (Abstract!Writes(op) <=> Writes(op))
  BY DEF Reads, Writes, Abstract!Reads, Abstract!Writes
<1>3. \A op : Abstract!HeaderLen(op) = HeaderLen(op)
  BY <1>1, Zenon DEF HeaderLen, Abstract!HeaderLen
<1>4. \A s : Abstract!ShiftSize(s) = ShiftSize(s)
  BY <1>1, Zenon DEF ShiftSize, Abstract!ShiftSize
<1> QED BY <1>1, <1>2, <1>3, <1>4, Zenon

\* The abstract specification divides a command as the device does.
LEMMA SameLayout ==
    /\ \A s : Abstract!CommandLen(s) = CommandLen(s)
    /\ \A s : Abstract!Complete(s) <=> Complete(s)
    /\ \A s : Abstract!Payload(s) = Payload(s)
    /\ \A s, n : Abstract!Drop(s, n) = Drop(s, n)
<1>1. \A s : Abstract!CommandLen(s) = CommandLen(s)
  BY SameCommands, Zenon DEF CommandLen, Abstract!CommandLen
<1>2. \A s : Abstract!Complete(s) <=> Complete(s)
  BY <1>1, SameCommands, Zenon DEF Complete, Abstract!Complete
<1>3. \A s : Abstract!Payload(s) = Payload(s)
  BY <1>1, SameCommands, Zenon DEF Payload, Abstract!Payload
<1>4. \A s, n : Abstract!Drop(s, n) = Drop(s, n)
  BY Zenon DEF Drop, Abstract!Drop
<1> QED BY <1>1, <1>2, <1>3, <1>4, Zenon

\* The abstract adapter gives the answers of the device's.
LEMMA SameAnswers ==
    /\ \A n : Abstract!Zeros(n) = Zeros(n)
    /\ \A n : Abstract!Answers(n) = Answers(n)
    /\ \A rx : Abstract!BitReply(rx) = BitReply(rx)
    /\ \A op, d : Abstract!ShiftOp(op, d) = ShiftOp(op, d)
    /\ \A level : Abstract!PortCall(level) = PortCall(level)
    /\ \A tx, bits, shift, rx : Abstract!ShiftCall(tx, bits, shift, rx) = ShiftCall(tx, bits, shift, rx)
<1>1. \A op, d : Abstract!ShiftOp(op, d) = ShiftOp(op, d)
  BY Zenon DEF ShiftOp, Abstract!ShiftOp, IsTms, Abstract!IsTms
<1>2. \A n : Abstract!Zeros(n) = Zeros(n)
  BY Zenon DEF Zeros, Abstract!Zeros
<1>3. \A n : Abstract!Answers(n) = Answers(n)
  BY Zenon DEF Answers, Abstract!Answers
<1>4. \A rx : Abstract!BitReply(rx) = BitReply(rx)
  BY Zenon DEF BitReply, Abstract!BitReply
<1>5. \A level : Abstract!PortCall(level) = PortCall(level)
  BY Zenon DEF PortCall, Abstract!PortCall
<1>6. \A tx, bits, shift, rx : Abstract!ShiftCall(tx, bits, shift, rx) = ShiftCall(tx, bits, shift, rx)
  BY Zenon DEF ShiftCall, Abstract!ShiftCall
<1> QED BY <1>1, <1>2, <1>3, <1>4, <1>5, <1>6, Zenon

-----------------------------------------------------------------------------
(* The command at the head of a stream. *)

\* Sequences of bytes are sequences of numbers.
LEMMA ByteNumbers == \A s \in Seq(Byte) : s \in Seq(Nat)
<1>1. Byte \subseteq Nat
  BY DEF Byte
<1> QED BY <1>1, SeqMonotonic

\* Where a well-formed command begins the stream, the layout operators find it.
LEMMA CommandPrefix ==
    ASSUME NEW c \in Seq(Byte), WellFormed(c), NEW r \in Seq(Nat), NEW s, s = c \o r
    PROVE  /\ Head(s) = Head(c) /\ (Len(c) >= 2 => s[2] = c[2])
           /\ ShiftSize(s) = ShiftSize(c) /\ CommandLen(s) = Len(c)
           /\ Complete(s) /\ Payload(s) = Payload(c) /\ Drop(s, CommandLen(s)) = r
<1>0. PICK n \in Nat, k \in Nat : n = Len(c) /\ k = Len(r)
  OBVIOUS
<1>1. c \in Seq(Nat) /\ c # <<>> /\ n >= 1
  <2>1. c # <<>>
    BY DEF WellFormed, Complete
  <2>2. c \in Seq(Nat)
    BY ByteNumbers
  <2> QED BY <1>0, <2>1, <2>2
<1>2. /\ s \in Seq(Nat) /\ Len(s) = n + k
      /\ \A i \in 1 .. n : s[i] = c[i]
      /\ \A i \in 1 .. k : s[n + i] = r[i]
  <2> HIDE DEF WellFormed
  <2>1. /\ c \o r \in Seq(Nat) /\ Len(c \o r) = Len(c) + Len(r)
        /\ \A i \in 1 .. Len(c) : (c \o r)[i] = c[i]
        /\ \A i \in 1 .. Len(r) : (c \o r)[Len(c) + i] = r[i]
    BY <1>1, ConcatElements
  <2> QED BY <1>0, <2>1
<1>3. Len(s) >= n /\ s # <<>> /\ Len(s) \in Nat
  BY <1>1, <1>2
<1>4. Head(s) = s[1] /\ Head(c) = c[1] /\ s[1] = c[1]
  BY <1>1, <1>2, <1>3
<1>5. HeaderLen(Head(c)) \in 1 .. 3 /\ HeaderLen(Head(c)) <= n
  BY <1>0 DEF WellFormed, Complete, HeaderLen
<1>6. Head(c) \in ByteOps => s[2] = c[2] /\ s[3] = c[3]
  <2>1. Head(c) \in ByteOps => HeaderLen(Head(c)) = 3
    BY DEF HeaderLen
  <2> QED BY <1>2, <1>5, <2>1, SMTT(40)
<1>7. ShiftSize(s) = ShiftSize(c)
  BY <1>4, <1>6, ZenonT(60) DEF ShiftSize
<1>8. CommandLen(s) = n /\ CommandLen(c) = n
  <2>1. CommandLen(c) = n
    BY <1>0 DEF WellFormed
  <2>2. CommandLen(s) = CommandLen(c)
    BY <1>4, <1>7 DEF CommandLen
  <2> QED BY <2>1, <2>2
<1>9. Complete(s)
  BY <1>3, <1>4, <1>5, <1>8 DEF Complete
<1>10. Payload(s) = Payload(c)
  <2> DEFINE h == HeaderLen(Head(c))
  <2>1. Payload(s) = SubSeq(s, h + 1, n) /\ Payload(c) = SubSeq(c, h + 1, n)
    BY <1>4, <1>8 DEF Payload
  <2>2. h \in 1 .. 3 /\ h <= n
    BY <1>5
  <2> HIDE DEF h
  <2>3. SubSeq(s, h + 1, n) = SubSeq(c, h + 1, n)
    BY <1>0, <1>1, <1>2, <1>3, <2>2
  <2> QED BY <2>1, <2>3
<1>11. Drop(s, n) = r
  <2>1. n \in 0 .. Len(s)
    BY <1>1, <1>3
  <2>2. /\ Drop(s, n) \in Seq(Nat) /\ Len(Drop(s, n)) = Len(s) - n
        /\ \A i \in 1 .. Len(s) - n : Drop(s, n)[i] = s[n + i]
    <3>1. s \in Seq(Nat)
      BY <1>2
    <3> HIDE DEF WellFormed
    <3> QED BY <2>1, <3>1, DropElements, Zenon
  <2>3. Len(s) - n = k
    BY <1>2
  <2> QED BY <1>0, <1>2, <2>2, <2>3, SeqEqual
<1>12. n >= 2 => s[2] = c[2]
  BY <1>2
<1> QED BY <1>0, <1>4, <1>7, <1>8, <1>9, <1>10, <1>11, <1>12

-----------------------------------------------------------------------------
(* How steps of the device show in the abstract state. *)

\* A step that leaves every channel's stream, replies, calls and loopback alone is a
\* stutter.
LEMMA StutterRefines ==
    ASSUME \A ch \in Channels : Unexecuted(ch)' = Unexecuted(ch) /\ Unread(ch)' = Unread(ch),
           exec' = exec, loopback' = loopback
    PROVE  UNCHANGED Abstract!vars
<1>1. [ch \in Channels |-> Unexecuted(ch)]' = [ch \in Channels |-> Unexecuted(ch)]
  OBVIOUS
<1>2. [ch \in Channels |-> Unread(ch)]' = [ch \in Channels |-> Unread(ch)]
  OBVIOUS
<1> QED BY <1>1, <1>2 DEF Abstract!vars

\* What executing the command c comes to on channel ch: the adapter's calls, the bytes of
\* the reply, the loopback.
Effect(c, ch, calls, bytes, lp) ==
    LET op  == Head(c)
        out == IF op \in ByteOps THEN [bits |-> 7, shift |-> "TDI"]
               ELSE [bits |-> c[2], shift |-> ShiftOp(op, IF Writes(op) THEN Payload(c)[1] ELSE 0)]
    IN /\ op \in Shifts /\ loopback[ch] =>
            /\ calls = exec[ch]
            /\ bytes = IF ~Reads(op) THEN <<>>
                       ELSE IF Writes(op) THEN Payload(c) ELSE Zeros(ShiftSize(c))
       /\ op \in Shifts /\ ~loopback[ch] =>
            \E rx \in Answers(IF Reads(op) THEN ShiftSize(c) ELSE 0) :
              /\ calls = Append(exec[ch], ShiftCall(Payload(c), out.bits, out.shift, rx))
              /\ bytes = IF ~Reads(op) THEN <<>>
                         ELSE IF op \in BitOps THEN BitReply(rx) ELSE rx
       /\ op \notin Shifts =>
            /\ calls = IF op = PortLow /\ ch \in Adapters
                       THEN Append(exec[ch], PortCall(c[2])) ELSE exec[ch]
            /\ bytes = IF op \in Sync THEN <<\hfa, op>> ELSE <<>>
       /\ lp = IF op = LoopbackOn THEN TRUE
               ELSE IF op = LoopbackOff THEN ch \notin Adapters ELSE loopback[ch]

\* A step with that effect, which takes the command off the channel's stream, is the
\* abstract command's.
LEMMA ExecuteRefines ==
    ASSUME NEW ch \in Channels, NEW c \in Seq(Byte), WellFormed(c),
           Unexecuted(ch)' \in Seq(Nat), Unexecuted(ch) = c \o Unexecuted(ch)',
           Unread(ch) \in Seq(Nat),
           \A other \in Channels \ {ch} :
             Unexecuted(other)' = Unexecuted(other) /\ Unread(other)' = Unread(other),
           exec \in [Channels -> Seq(Call)], loopback \in [Channels -> BOOLEAN],
           NEW calls, NEW bytes, NEW lp, Effect(c, ch, calls, bytes, lp),
           exec' = [exec EXCEPT ![ch] = calls], loopback' = [loopback EXCEPT ![ch] = lp],
           Unread(ch)' = Unread(ch) \o bytes
    PROVE  Abstract!Execute(ch)
<1> DEFINE stream == [x \in Channels |-> Unexecuted(x)]
<1> DEFINE reply == [x \in Channels |-> Unread(x)]
<1> DEFINE s == stream[ch]
<1> DEFINE op == Head(s)
<1>1. s = Unexecuted(ch) /\ s = c \o Unexecuted(ch)'
  OBVIOUS
<1>2. /\ op = Head(c) /\ (Len(c) >= 2 => s[2] = c[2])
      /\ ShiftSize(s) = ShiftSize(c) /\ CommandLen(s) = Len(c)
      /\ Complete(s) /\ Payload(s) = Payload(c) /\ Drop(s, CommandLen(s)) = Unexecuted(ch)'
  <2>1. PICK r \in Seq(Nat) : r = Unexecuted(ch)'
    OBVIOUS
  <2>2. s = c \o r
    BY <1>1, <2>1
  <2> HIDE DEF s
  <2> QED BY <2>1, <2>2, CommandPrefix
<1>3. stream' = [stream EXCEPT ![ch] = Drop(s, CommandLen(s))]
  <2> HIDE DEF s
  <2>1. stream' = [x \in Channels |-> Unexecuted(x)']
    OBVIOUS
  <2> QED BY <1>2, <2>1
<1>4. reply' = [reply EXCEPT ![ch] = @ \o bytes]
  <2>1. reply' = [x \in Channels |-> Unread(x)']
    OBVIOUS
  <2> QED BY <2>1
<1>5. bytes = <<>> => UNCHANGED reply
  <2>1. bytes = <<>> => Unread(ch)' = Unread(ch)
    BY ConcatEmptySeq
  <2> QED BY <2>1
<1>6. Abstract!Complete(s) /\ stream' = [stream EXCEPT ![ch] = Abstract!Drop(s, Abstract!CommandLen(s))]
  BY <1>2, <1>3, SameLayout, Zenon
<1> HIDE DEF s
<1>10. loopback' = IF op = Abstract!LoopbackOn THEN [loopback EXCEPT ![ch] = TRUE]
                  ELSE IF op = Abstract!LoopbackOff THEN [loopback EXCEPT ![ch] = ch \notin Adapters]
                  ELSE loopback
  <2>1. lp = IF op = LoopbackOn THEN TRUE
             ELSE IF op = LoopbackOff THEN ch \notin Adapters ELSE loopback[ch]
    BY <1>2, Zenon DEF Effect
  <2>2. op \notin {LoopbackOn, LoopbackOff} => loopback' = loopback
    BY <2>1
  <2> QED BY <2>1, <2>2, SameCommands
<1>11. /\ op \in Shifts => Abstract!Echo(ch) \/ Abstract!Shift(ch)
       /\ op \notin Shifts => Abstract!Configure(ch)
       => Abstract!Execute(ch)
  <2> HIDE DEF reply, stream
  <2> QED BY <1>6, <1>10, SameCommands DEF Abstract!Execute, s, stream, reply
<1>7. CASE op \in Shifts /\ loopback[ch]
  <2>1. /\ calls = exec[ch]
        /\ bytes = IF ~Reads(op) THEN <<>>
                   ELSE IF Writes(op) THEN Payload(s) ELSE Zeros(ShiftSize(s))
    BY <1>2, <1>7 DEF Effect
  <2>2. exec' = exec
    BY <2>1
  <2>3. Abstract!Reads(op) =>
          reply' = [reply EXCEPT ![ch] = @ \o IF Abstract!Writes(op) THEN Abstract!Payload(s)
                                              ELSE Abstract!Zeros(Abstract!ShiftSize(s))]
    BY <1>4, <2>1, SameCommands, SameLayout, SameAnswers
  <2>4. ~Abstract!Reads(op) => UNCHANGED reply
    BY <1>5, <2>1, SameCommands
  <2> HIDE DEF reply, stream
  <2>5. Abstract!Echo(ch)
    BY <1>7, <2>2, <2>3, <2>4 DEF Abstract!Echo, s, stream, reply
  <2> QED BY <1>7, <1>11, <2>5
<1>8. CASE op \in Shifts /\ ~loopback[ch]
  <2> DEFINE out == IF op \in Abstract!ByteOps THEN [bits |-> 7, shift |-> "TDI"]
                    ELSE [bits |-> s[2],
                          shift |-> Abstract!ShiftOp(op, IF Abstract!Writes(op)
                                                         THEN Abstract!Payload(s)[1] ELSE 0)]
  <2>0. op \in Shifts => Len(c) >= 2 /\ s[2] = c[2]
    <3>1. op \in Shifts => HeaderLen(op) \in {2, 3}
      BY DEF HeaderLen, Shifts
    <3>2. Len(c) >= HeaderLen(op)
      BY <1>2 DEF WellFormed, Complete
    <3> QED BY <1>2, <3>1, <3>2
  <2>1. out = IF op \in ByteOps THEN [bits |-> 7, shift |-> "TDI"]
              ELSE [bits |-> c[2], shift |-> ShiftOp(op, IF Writes(op) THEN Payload(c)[1] ELSE 0)]
    BY <1>2, <1>8, <2>0, SameCommands, SameLayout, SameAnswers, Zenon
  <2> HIDE DEF out
  <2>2. PICK rx \in Answers(IF Reads(op) THEN ShiftSize(s) ELSE 0) :
          /\ calls = Append(exec[ch], ShiftCall(Payload(s), out.bits, out.shift, rx))
          /\ bytes = IF ~Reads(op) THEN <<>>
                     ELSE IF op \in BitOps THEN BitReply(rx) ELSE rx
    BY <1>2, <1>8, <2>1 DEF Effect
  <2>3. rx \in Abstract!Answers(IF Abstract!Reads(op) THEN Abstract!ShiftSize(s) ELSE 0)
    BY <2>2, SameCommands, SameAnswers, Zenon
  <2>4. exec' = [exec EXCEPT ![ch] = Append(@, Abstract!ShiftCall(Abstract!Payload(s), out.bits, out.shift, rx))]
    BY <2>2, SameLayout, SameAnswers
  <2>5. reply' = IF ~Abstract!Reads(op) THEN reply
                 ELSE [reply EXCEPT ![ch] = @ \o IF op \in Abstract!BitOps
                                                 THEN Abstract!BitReply(rx) ELSE rx]
    BY <1>4, <1>5, <2>2, SameCommands, SameAnswers
  <2> HIDE DEF reply, stream
  <2>6. Abstract!Shift(ch)
    BY <1>8, <2>3, <2>4, <2>5, Zenon DEF Abstract!Shift, s, stream, reply, out
  <2> QED BY <1>8, <1>11, <2>6
<1>9. CASE op \notin Shifts
  <2>1. /\ calls = IF op = PortLow /\ ch \in Adapters
                   THEN Append(exec[ch], PortCall(c[2])) ELSE exec[ch]
        /\ bytes = IF op \in Sync THEN <<\hfa, op>> ELSE <<>>
    BY <1>2, <1>9 DEF Effect
  <2>2. op = PortLow => s[2] = c[2]
    <3>1. op = PortLow => HeaderLen(op) = 3
      BY DEF HeaderLen
    <3>2. Len(c) >= HeaderLen(op)
      BY <1>2 DEF WellFormed, Complete
    <3> QED BY <1>2, <3>1, <3>2
  <2>3. reply' = IF op \in Abstract!Sync THEN [reply EXCEPT ![ch] = @ \o <<\hfa, op>>] ELSE reply
    BY <1>4, <1>5, <2>1, SameCommands, ZenonT(60)
  <2>4. exec' = IF op = Abstract!PortLow /\ ch \in Adapters
                THEN [exec EXCEPT ![ch] = Append(@, Abstract!PortCall(s[2]))] ELSE exec
    BY <2>1, <2>2, SameCommands, SameAnswers
  <2> HIDE DEF reply, stream
  <2>5. Abstract!Configure(ch)
    BY <2>3, <2>4, Zenon DEF Abstract!Configure, s, stream, reply
  <2> QED BY <1>9, <1>11, <2>5
<1> QED BY <1>7, <1>8, <1>9

-----------------------------------------------------------------------------
(* A channel's stream and replies in the device. *)

\* The header of the command of which a channel keeps a fragment.
Announced(ch) ==
    <<IF hasRep[ch] THEN \h39 ELSE \h19, (total[ch] - 1) % 256, (total[ch] - 1) \div 256>>

\* The header of an open command, rebuilt, is three bytes in front of the fragment.
LEMMA AnnouncedType ==
    ASSUME Inv, NEW ch \in Channels, frag[ch] # <<>>
    PROVE  /\ Announced(ch) \in Seq(Nat) /\ Len(Announced(ch)) = 3
           /\ OpenCommand(ch) = Announced(ch) \o frag[ch]
<1>1. frag[ch] \in Seq(Byte) /\ total[ch] \in Nat
  BY CountModAssumption DEF Inv, TypeOK, ChannelType
<1>2. total[ch] >= 1
  <2>1. Len(frag[ch]) < total[ch] /\ Len(frag[ch]) \in Nat
    BY <1>1 DEF Inv, FragmentOpen
  <2> QED BY <1>1, <2>1
<1>3. PICK t \in Nat : total[ch] = t + 1
  <2>1. total[ch] - 1 \in Nat /\ total[ch] = (total[ch] - 1) + 1
    BY <1>1, <1>2
  <2> QED BY <2>1
<1>4. (total[ch] - 1) % 256 = t % 256 /\ (total[ch] - 1) \div 256 = t \div 256
  BY <1>3
<1>5. t % 256 \in Nat /\ t \div 256 \in Nat
  OBVIOUS
<1>6. Announced(ch) \in Seq(Nat) /\ Len(Announced(ch)) = 3
  BY <1>4, <1>5 DEF Announced
<1> QED BY <1>6 DEF OpenCommand, Announced

\* The parts of a channel's stream, and its replies, are byte sequences in every state, the
\* halted one included.
LEMMA PartsType ==
    Inv => \A ch \in Channels :
      /\ OpenCommand(ch) \in Seq(Nat) /\ Held(ch) \in Seq(Nat) /\ Bytes(wire[ch]) \in Seq(Nat)
      /\ Unexecuted(ch) \in Seq(Nat)
      /\ Unexecuted(ch) = OpenCommand(ch) \o (Held(ch) \o Bytes(wire[ch]))
      /\ FlattenSeq(inData[ch]) \in Seq(Nat) /\ Unread(ch) \in Seq(Nat)
<1> SUFFICES ASSUME Inv, NEW ch \in Channels
             PROVE  /\ OpenCommand(ch) \in Seq(Nat) /\ Held(ch) \in Seq(Nat)
                    /\ Bytes(wire[ch]) \in Seq(Nat) /\ Unexecuted(ch) \in Seq(Nat)
                    /\ Unexecuted(ch) = OpenCommand(ch) \o (Held(ch) \o Bytes(wire[ch]))
                    /\ FlattenSeq(inData[ch]) \in Seq(Nat) /\ Unread(ch) \in Seq(Nat)
  OBVIOUS
<1>1. /\ frag[ch] \in Seq(Byte) /\ total[ch] \in Nat /\ data \in Seq(Byte) /\ rep \in Seq(Byte)
      /\ wire[ch] \in Seq(WireByte) /\ inData[ch] \in Seq(Seq(Byte)) /\ CountMod \in Nat
  BY CountModAssumption DEF Inv, TypeOK, ChannelType, TransferType, OutsideType
<1>2. OpenCommand(ch) \in Seq(Nat)
  <2>1. CASE frag[ch] = <<>>
    BY <2>1 DEF OpenCommand
  <2>2. CASE frag[ch] # <<>>
    <3>1. Announced(ch) \in Seq(Nat) /\ OpenCommand(ch) = Announced(ch) \o frag[ch]
      BY <2>2, AnnouncedType
    <3>2. frag[ch] \in Seq(Nat)
      BY <1>1, ByteNumbers
    <3> QED BY <3>1, <3>2, ConcatProperties
  <2> QED BY <2>1, <2>2
<1>3. Held(ch) \in Seq(Nat)
  <2>1. data \in Seq(Nat) /\ <<>> \in Seq(Nat)
    BY <1>1, ByteNumbers
  <2> QED BY <2>1, Zenon DEF Held
<1>4. Bytes(wire[ch]) \in Seq(Nat)
  BY <1>1, BytesType, ByteNumbers
<1>5. Unexecuted(ch) = (OpenCommand(ch) \o Held(ch)) \o Bytes(wire[ch])
  BY Zenon DEF Unexecuted, Held
<1>6. /\ Unexecuted(ch) \in Seq(Nat)
      /\ Unexecuted(ch) = OpenCommand(ch) \o (Held(ch) \o Bytes(wire[ch]))
  <2>1. \A a, b, c \in Seq(Nat) : (a \o b) \o c = a \o (b \o c)
    BY ConcatTriple, SMTT(60)
  <2>2. \A a, b \in Seq(Nat) : a \o b \in Seq(Nat)
    OBVIOUS
  <2>3. Unexecuted(ch) = OpenCommand(ch) \o (Held(ch) \o Bytes(wire[ch]))
    BY <1>2, <1>3, <1>4, <1>5, <2>1
  <2>4. OpenCommand(ch) \o Held(ch) \in Seq(Nat)
    BY <1>2, <1>3, <2>2
  <2>5. Unexecuted(ch) \in Seq(Nat)
    BY <1>4, <1>5, <2>2, <2>4
  <2> QED BY <2>3, <2>5
<1>7. FlattenSeq(inData[ch]) \in Seq(Nat)
  BY <1>1, FlattenType, ByteNumbers
<1>8. Unread(ch) \in Seq(Nat)
  <2>1. rep \in Seq(Nat) /\ <<>> \in Seq(Nat)
    BY <1>1, ByteNumbers
  <2>2. \A a, b \in Seq(Nat) : a \o b \in Seq(Nat)
    OBVIOUS
  <2>3. Unread(ch) = FlattenSeq(inData[ch]) \o (IF ch = cur THEN rep ELSE <<>>)
    BY Zenon DEF Unread
  <2>4. (IF ch = cur THEN rep ELSE <<>>) \in Seq(Nat)
    BY <2>1, Zenon
  <2> QED BY <1>7, <2>2, <2>3, <2>4
<1> QED BY <1>2, <1>3, <1>4, <1>6, <1>7, <1>8

\* The parts of the mapped stream are sequences of bytes after a step as well.
LEMMA PartsTypeNext ==
    Inv' => \A ch \in Channels :
      /\ OpenCommand(ch)' \in Seq(Nat) /\ Held(ch)' \in Seq(Nat) /\ Bytes(wire[ch])' \in Seq(Nat)
      /\ Unexecuted(ch)' \in Seq(Nat)
      /\ Unexecuted(ch)' = OpenCommand(ch)' \o (Held(ch)' \o Bytes(wire[ch])')
      /\ FlattenSeq(inData[ch])' \in Seq(Nat) /\ Unread(ch)' \in Seq(Nat)
<1> DEFINE P == \A ch \in Channels :
      /\ OpenCommand(ch) \in Seq(Nat) /\ Held(ch) \in Seq(Nat) /\ Bytes(wire[ch]) \in Seq(Nat)
      /\ Unexecuted(ch) \in Seq(Nat)
      /\ Unexecuted(ch) = OpenCommand(ch) \o (Held(ch) \o Bytes(wire[ch]))
      /\ FlattenSeq(inData[ch]) \in Seq(Nat) /\ Unread(ch) \in Seq(Nat)
<1>1. Inv => P
  BY PartsType
<1> HIDE DEF P
<1>2. Inv' => P'
  BY <1>1, PTL
<1> QED BY <1>2 DEF P

\* The bytes on a wire to which a command is added.
LEMMA BytesConcat ==
    ASSUME NEW w \in Seq(WireByte), NEW c \in Seq(Byte)
    PROVE  Bytes(w \o Encoded(c)) = Bytes(w) \o c
<1> DEFINE e == Encoded(c)
<1>0. PICK m \in Nat, n \in Nat : m = Len(w) /\ n = Len(c)
  OBVIOUS
<1>1. e \in Seq(WireByte) /\ Len(e) = n /\ \A i \in 1 .. n : e[i].byte = c[i]
  <2>1. Len(e) = n /\ \A i \in 1 .. n : e[i].byte = c[i]
    BY <1>0 DEF Encoded
  <2> QED BY <2>1, EncodedType
<1> HIDE DEF e
<1>2. /\ w \o e \in Seq(WireByte) /\ Len(w \o e) = m + n
      /\ \A i \in 1 .. m : (w \o e)[i] = w[i]
      /\ \A i \in 1 .. n : (w \o e)[m + i] = e[i]
  <2>1. /\ w \o e \in Seq(WireByte) /\ Len(w \o e) = Len(w) + Len(e)
        /\ \A i \in 1 .. Len(w) : (w \o e)[i] = w[i]
        /\ \A i \in 1 .. Len(e) : (w \o e)[Len(w) + i] = e[i]
    <3>1. e \in Seq(WireByte)
      BY <1>1
    <3> QED BY <3>1, ConcatElements
  <2> QED BY <1>0, <1>1, <2>1
<1>3. /\ Bytes(w) \in Seq(Byte) /\ Len(Bytes(w)) = m
      /\ \A i \in 1 .. m : Bytes(w)[i] = w[i].byte
  BY <1>0, BytesType DEF Bytes
<1>4. /\ Bytes(w \o e) \in Seq(Byte) /\ Len(Bytes(w \o e)) = m + n
      /\ \A i \in 1 .. m + n : Bytes(w \o e)[i] = (w \o e)[i].byte
  BY <1>2, BytesType DEF Bytes
<1>5. /\ Bytes(w) \o c \in Seq(Byte) /\ Len(Bytes(w) \o c) = m + n
      /\ \A i \in 1 .. m : (Bytes(w) \o c)[i] = Bytes(w)[i]
      /\ \A i \in 1 .. n : (Bytes(w) \o c)[m + i] = c[i]
  <2> DEFINE b == Bytes(w)
  <2>1. b \in Seq(Byte) /\ Len(b) = m
    BY <1>3
  <2> HIDE DEF b
  <2>2. /\ b \o c \in Seq(Byte) /\ Len(b \o c) = Len(b) + Len(c)
        /\ \A i \in 1 .. Len(b) : (b \o c)[i] = b[i]
        /\ \A i \in 1 .. Len(c) : (b \o c)[Len(b) + i] = c[i]
    <3>1. b \in Seq(Byte)
      BY <2>1
    <3> QED BY <3>1, ConcatElements
  <2> QED BY <1>0, <2>1, <2>2 DEF b
<1>6. ASSUME NEW i \in 1 .. m + n PROVE Bytes(w \o e)[i] = (Bytes(w) \o c)[i]
  <2>1. CASE i \in 1 .. m
    <3>1. Bytes(w \o e)[i] = (w \o e)[i].byte /\ (w \o e)[i] = w[i]
      BY <1>2, <1>4, <2>1
    <3>2. (Bytes(w) \o c)[i] = w[i].byte
      BY <1>3, <1>5, <2>1
    <3> QED BY <3>1, <3>2
  <2>2. CASE i \notin 1 .. m
    <3>1. PICK j \in 1 .. n : i = m + j
      <4>1. i - m \in 1 .. n /\ i = m + (i - m)
        BY <2>2
      <4> QED BY <4>1
    <3> QED BY <1>1, <1>2, <1>4, <1>5, <3>1, ZenonT(60)
  <2> QED BY <2>1, <2>2
<1>7. Bytes(w \o e) = Bytes(w) \o c
  BY <1>4, <1>5, <1>6, SeqEqual
<1> QED BY <1>7 DEF e

\* A sequence is its first elements and the rest.
LEMMA DropSplit ==
    ASSUME NEW S, NEW s \in Seq(S), NEW n \in 0 .. Len(s)
    PROVE  s = SubSeq(s, 1, n) \o Drop(s, n)
<1>1. 1 \in 1 .. Len(s) + 1 /\ n \in 1 - 1 .. Len(s) /\ Len(s) \in n .. Len(s)
  OBVIOUS
<1>2. SubSeq(s, 1, n) \o SubSeq(s, n + 1, Len(s)) = SubSeq(s, 1, Len(s))
  BY <1>1, ConcatAdjacentSubSeq
<1> QED BY <1>2, SubSeqFull DEF Drop

\* The bytes of the part of a wire that a transfer takes, and of the part it leaves.
LEMMA BytesSplit ==
    ASSUME NEW w \in Seq(WireByte), NEW n \in 1 .. Len(w)
    PROVE  Bytes(w) = Bytes(SubSeq(w, 1, n)) \o Bytes(Drop(w, n))
<1> DEFINE b == Bytes(w)
<1>0. PICK m \in Nat : m = Len(w) /\ n \in 1 .. m
  OBVIOUS
<1>1. b \in Seq(Byte) /\ Len(b) = m /\ \A i \in 1 .. m : b[i] = w[i].byte
  BY <1>0, BytesType DEF Bytes
<1>2. Bytes(SubSeq(w, 1, n)) = SubSeq(b, 1, n)
  BY <1>0, <1>1 DEF Bytes
<1>3. Bytes(Drop(w, n)) = Drop(b, n)
  BY <1>0, <1>1 DEF Bytes, Drop
<1> HIDE DEF b
<1>4. b = SubSeq(b, 1, n) \o Drop(b, n)
  BY <1>0, <1>1, DropSplit
<1> QED BY <1>2, <1>3, <1>4 DEF b

-----------------------------------------------------------------------------
(* The host's steps, and the ones that do not touch a command. *)

\* A channel all of whose parts stay as they are keeps its stream, and its replies.
LEMMA PartsUnchanged ==
    ASSUME NEW ch \in Channels
    PROVE  /\ /\ frag'[ch] = frag[ch] /\ total'[ch] = total[ch] /\ hasRep'[ch] = hasRep[ch]
              /\ Held(ch)' = Held(ch) /\ wire'[ch] = wire[ch]
              => Unexecuted(ch)' = Unexecuted(ch)
           /\ inData'[ch] = inData[ch] /\ cur' = cur /\ rep' = rep => Unread(ch)' = Unread(ch)
           /\ inData'[ch] = inData[ch] /\ cur' = cur /\ ch # cur => Unread(ch)' = Unread(ch)
           /\ /\ frag'[ch] = frag[ch] /\ total'[ch] = total[ch] /\ hasRep'[ch] = hasRep[ch]
              => OpenCommand(ch)' = OpenCommand(ch)
<1>1. Unexecuted(ch) = (OpenCommand(ch) \o Held(ch)) \o Bytes(wire[ch])
  BY Zenon DEF Unexecuted, Held
<1>2. Unexecuted(ch)' = (OpenCommand(ch)' \o Held(ch)') \o Bytes(wire'[ch])
  BY Zenon DEF Unexecuted, Held
<1>3. /\ frag'[ch] = frag[ch] /\ total'[ch] = total[ch] /\ hasRep'[ch] = hasRep[ch]
      => OpenCommand(ch)' = OpenCommand(ch)
  BY DEF OpenCommand
<1>4. /\ inData'[ch] = inData[ch] /\ cur' = cur /\ rep' = rep => Unread(ch)' = Unread(ch)
      /\ inData'[ch] = inData[ch] /\ cur' = cur /\ ch # cur => Unread(ch)' = Unread(ch)
  BY Zenon DEF Unread
<1> QED BY <1>1, <1>2, <1>3, <1>4

\* The host writes a command: Write.
LEMMA IssueRefines ==
    ASSUME Inv, Inv', NEW ch \in Channels, NEW c \in Commands, Issue(ch, c)
    PROVE  Abstract!Next
<1>1. /\ c \in Seq(Byte) /\ wire[ch] \in Seq(WireByte)
      /\ wire' = [wire EXCEPT ![ch] = @ \o Encoded(c)] /\ wire'[ch] = wire[ch] \o Encoded(c)
      /\ UNCHANGED <<chanVars, xferVars, inData, exec>>
  BY CommandsAssumption DEF Issue, Inv, TypeOK, OutsideType
<1>2. /\ UNCHANGED <<frag, total, hasRep, loopback, cur, data, rep, inData, exec>>
      /\ \A other \in Channels \ {ch} : wire'[other] = wire[other]
  BY <1>1 DEF chanVars, xferVars
<1>3. \A other \in Channels : Held(other)' = Held(other) /\ OpenCommand(other)' = OpenCommand(other)
  BY <1>2 DEF Held, OpenCommand
<1>4. \A other \in Channels \ {ch} : Unexecuted(other)' = Unexecuted(other)
  BY <1>2, <1>3, PartsUnchanged
<1>5. \A other \in Channels : Unread(other)' = Unread(other)
  BY <1>2, PartsUnchanged
<1>6. Unexecuted(ch)' = Unexecuted(ch) \o c
  <2>1. Bytes(wire[ch])' = Bytes(wire[ch]) \o c
    BY <1>1, BytesConcat
  <2>2. PICK a, b, w : a = OpenCommand(ch) /\ b = Held(ch) /\ w = Bytes(wire[ch])
    OBVIOUS
  <2>3. a \in Seq(Nat) /\ b \in Seq(Nat) /\ w \in Seq(Nat) /\ c \in Seq(Nat)
    BY <1>1, <2>2, PartsType, ByteNumbers
  <2>4. Unexecuted(ch) = a \o (b \o w)
    BY <2>2, PartsType
  <2>5. Unexecuted(ch)' = a \o (b \o (w \o c))
    <3>1. Unexecuted(ch)' = OpenCommand(ch)' \o (Held(ch)' \o Bytes(wire[ch])')
      BY PartsTypeNext
    <3> QED BY <1>3, <2>1, <2>2, <3>1
  <2>6. (a \o (b \o w)) \o c = a \o (b \o (w \o c))
    <3>1. b \o w \in Seq(Nat)
      BY <2>3, NatConcat
    <3>2. (b \o w) \o c = b \o (w \o c)
      BY <2>3, NatConcat, ZenonT(100)
    <3>3. (a \o (b \o w)) \o c = a \o ((b \o w) \o c)
      BY <2>3, <3>1, NatConcat, ZenonT(100)
    <3> QED BY <3>2, <3>3, Zenon
  <2> QED BY <2>4, <2>5, <2>6
<1>7. [x \in Channels |-> Unexecuted(x)]' = [[x \in Channels |-> Unexecuted(x)] EXCEPT ![ch] = @ \o c]
  <2>1. [x \in Channels |-> Unexecuted(x)]' = [x \in Channels |-> Unexecuted(x)']
    OBVIOUS
  <2> QED BY <1>4, <1>6, <2>1
<1>8. [x \in Channels |-> Unread(x)]' = [x \in Channels |-> Unread(x)]
  BY <1>5
<1>9. Abstract!Write(ch, c)
  BY <1>2, <1>7, <1>8 DEF Abstract!Write
<1> QED BY <1>9 DEF Abstract!Next

\* The host reads a buffer: Read, or nothing if the buffer is the empty one of a status
\* packet.
LEMMA HostReadRefines ==
    ASSUME Inv, Inv', NEW ch \in Channels, HostRead(ch)
    PROVE  Abstract!Next \/ UNCHANGED Abstract!vars
<1>1. /\ inData[ch] \in Seq(Seq(Nat)) /\ inData[ch] # <<>>
      /\ inData' = [inData EXCEPT ![ch] = Tail(@)] /\ inData'[ch] = Tail(inData[ch])
      /\ UNCHANGED <<chanVars, xferVars, wire, exec>>
  <2>1. Seq(Byte) \subseteq Seq(Nat)
    BY ByteNumbers
  <2>2. inData[ch] \in Seq(Seq(Byte)) /\ inData \in [Channels -> Seq(Seq(Byte))]
    BY DEF Inv, TypeOK, OutsideType
  <2>3. inData[ch] \in Seq(Seq(Nat))
    BY <2>1, <2>2, SeqMonotonic
  <2> QED BY <2>2, <2>3 DEF HostRead
<1>2. /\ UNCHANGED <<frag, total, hasRep, loopback, cur, data, rep, wire, exec>>
      /\ \A other \in Channels \ {ch} : inData'[other] = inData[other]
  BY <1>1 DEF chanVars, xferVars
<1>3. \A other \in Channels : Unexecuted(other)' = Unexecuted(other)
  <2>1. \A other \in Channels : Held(other)' = Held(other)
    BY <1>2 DEF Held
  <2> QED BY <1>2, <2>1, PartsUnchanged
<1>4. \A other \in Channels \ {ch} : Unread(other)' = Unread(other)
  BY <1>2, PartsUnchanged
<1>5. PICK h \in Seq(Nat) : h = Head(inData[ch]) /\ Unread(ch) = h \o Unread(ch)'
  <2> DEFINE x == IF ch = cur THEN rep ELSE <<>>
  <2>1. x \in Seq(Nat)
    <3>1. rep \in Seq(Nat) /\ <<>> \in Seq(Nat)
      BY ByteNumbers DEF Inv, TypeOK, TransferType
    <3> QED BY <3>1, Zenon
  <2>2. PICK q \in Seq(Seq(Nat)) : q = inData[ch] /\ q # <<>>
    BY <1>1
  <2>3. Head(q) \in Seq(Nat) /\ Tail(q) \in Seq(Seq(Nat))
    BY <2>2, HeadTailProperties
  <2>4. FlattenSeq(q) = Head(q) \o FlattenSeq(Tail(q)) /\ FlattenSeq(Tail(q)) \in Seq(Nat)
    BY <2>2, <2>3, FlattenTail, FlattenType
  <2>5. Unread(ch) = FlattenSeq(q) \o x
    BY <2>2, Zenon DEF Unread
  <2>6. Unread(ch)' = FlattenSeq(Tail(q)) \o x
    BY <1>1, <1>2, <2>2, Zenon DEF Unread
  <2> HIDE DEF x
  <2>7. \A a, b, c \in Seq(Nat) : (a \o b) \o c = a \o (b \o c)
    BY ConcatTriple, SMTT(60)
  <2>8. PICK h \in Seq(Nat), t \in Seq(Nat), y \in Seq(Nat) :
          h = Head(q) /\ t = FlattenSeq(Tail(q)) /\ y = x
    BY <2>1, <2>3, <2>4
  <2>9. Unread(ch) = (h \o t) \o y /\ Unread(ch)' = t \o y
    BY <2>4, <2>5, <2>6, <2>8
  <2>10. Unread(ch) = h \o Unread(ch)'
    <3>1. (h \o t) \o y = h \o (t \o y)
      BY <2>7
    <3> QED BY <2>9, <3>1
  <2> QED BY <2>2, <2>8, <2>10
<1>6. Unread(ch)' \in Seq(Nat)
  BY PartsTypeNext
<1>7. CASE h = <<>>
  <2>1. Unread(ch)' = Unread(ch)
    BY <1>5, <1>6, <1>7, ConcatEmptySeq
  <2> QED BY <1>2, <1>3, <1>4, <2>1, StutterRefines
<1>8. CASE h # <<>>
  <2> DEFINE reply == [x \in Channels |-> Unread(x)]
  <2>1. PICK r \in Seq(Nat) : r = Unread(ch)'
    BY <1>6
  <2>2. PICK n \in Nat : n = Len(h) /\ n >= 1
    BY <1>8
  <2>3. Len(h \o r) >= n /\ Drop(h \o r, n) = r
    BY <2>2 DEF Drop
  <2>4. n \in 1 .. Len(reply[ch]) /\ reply' = [reply EXCEPT ![ch] = Drop(@, n)]
    <3>1. reply[ch] = h \o r
      BY <1>5, <2>1
    <3>2. reply' = [x \in Channels |-> Unread(x)']
      OBVIOUS
    <3>3. n \in 1 .. Len(reply[ch])
      <4>1. Len(h \o r) \in Nat
        OBVIOUS
      <4> QED BY <2>2, <2>3, <3>1, <4>1
    <3>4. reply' = [reply EXCEPT ![ch] = Drop(@, n)]
      BY <1>4, <2>1, <2>3, <3>1, <3>2
    <3> QED BY <3>3, <3>4
  <2>5. [x \in Channels |-> Unexecuted(x)]' = [x \in Channels |-> Unexecuted(x)]
    BY <1>3
  <2>6. Abstract!Read(ch)
    BY <1>2, <2>4, <2>5, SameLayout, Zenon DEF Abstract!Read
  <2> QED BY <2>6 DEF Abstract!Next
<1> QED BY <1>7, <1>8

\* Between transfers no reply is being put together; the host has given nothing up.
Quiet == (pc = "idle" => rep = <<>>) /\ lastCut # "abandoned"

\* No fragment wants a reply at first.
LEMMA QuietInit == Init => Quiet
BY DEF Init, Quiet

\* No step leaves a fragment that wants a reply.
LEMMA QuietNext ==
    ASSUME "Abandon" \notin Faults
    PROVE  Inv /\ Quiet /\ [Next]_vars => Quiet'
<1> SUFFICES ASSUME Inv, Quiet, [Next]_vars PROVE Quiet'
  OBVIOUS
<1>1. ASSUME NEW ch \in Channels, Deliver(ch) PROVE Quiet'
  <2>1. PICK n \in 1 .. Len(wire[ch]) :
          lastCut' = IF lastCut = "abandoned" THEN lastCut ELSE wire[ch][n].cut
    BY <1>1 DEF Deliver
  <2>2. wire[ch] \in Seq(WireByte)
    BY DEF Inv, TypeOK, OutsideType
  <2>3. wire[ch][n] \in WireByte
    BY <2>2
  <2>4. wire[ch][n].cut \in CutKinds
    BY <2>3 DEF WireByte
  <2>5. lastCut' # "abandoned"
    BY <2>1, <2>4 DEF Quiet, CutKinds
  <2>6. pc' # "idle"
    BY <1>1, Zenon DEF Deliver
  <2> QED BY <2>5, <2>6 DEF Quiet
<1>2. ASSUME NEW ch \in Channels, HostRead(ch) PROVE Quiet'
  BY <1>2 DEF HostRead, Quiet, xferVars
<1>3. ASSUME NEW ch \in Channels, ResetPort(ch) PROVE FALSE
  BY <1>3 DEF ResetPort
<1>4. ASSUME NEW ch \in Channels, NEW c \in Commands, Issue(ch, c) PROVE Quiet'
  BY <1>4 DEF Issue, Quiet, xferVars
<1>5. CASE EmptyTransfer \/ Throw
  BY <1>5 DEF EmptyTransfer, Throw, Quiet
<1>6. ASSUME NEW r \in Requests, HandleEP0(r) PROVE Quiet'
  <2>1. pc = "idle" /\ UNCHANGED <<rep, lastCut>>
    BY <1>6 DEF HandleEP0
  <2> QED BY <2>1 DEF Quiet
<1>7. CASE \/ ResumePartial \/ ResumeComplete \/ SkipCommand \/ SyncCommand \/ LoopbackCommand
           \/ SetPort \/ ShiftBits \/ ShiftBytes \/ BreakBytes
  <2>1. lastCut' = lastCut /\ \E n : Consume(n)
    BY <1>7, Zenon DEF ResumePartial, ResumeComplete, SkipCommand, SyncCommand, LoopbackCommand,
                SetPort, ShiftBits, ShiftBytes, BreakBytes
  <2>2. pc' # "idle"
    <3>1. PICK n : Consume(n)
      BY <2>1
    <3> QED BY <3>1 DEF Consume
  <2> QED BY <2>1, <2>2 DEF Quiet
<1>8. CASE Finish
  BY <1>8 DEF Finish, Quiet
<1>9. CASE UNCHANGED vars
  BY <1>9 DEF vars, xferVars, Quiet
<1> QED BY <1>1, <1>2, <1>3, <1>4, <1>5, <1>6, <1>7, <1>8, <1>9 DEF Next, Host, Handler

\* A transfer takes bytes off a channel's wire; they stay part of its stream.
LEMMA DeliverRefines ==
    ASSUME Inv, Inv', Quiet, data = <<>>, NEW ch \in Channels, Deliver(ch)
    PROVE  UNCHANGED Abstract!vars
<1>1. PICK n \in 1 .. Len(wire[ch]) :
        /\ data' = Bytes(SubSeq(wire[ch], 1, n))
        /\ wire' = [wire EXCEPT ![ch] = Drop(@, n)]
  BY DEF Deliver
<1>2. /\ UNCHANGED <<frag, total, hasRep, loopback, rep, inData, exec>>
      /\ cur' = ch /\ rep = <<>> /\ wire[ch] \in Seq(WireByte)
      /\ wire'[ch] = Drop(wire[ch], n)
      /\ \A other \in Channels \ {ch} : wire'[other] = wire[other]
  BY <1>1 DEF Deliver, Quiet, chanVars, Inv, TypeOK, OutsideType
<1>3. \A other \in Channels : Held(other) = <<>>
  BY Zenon DEF Held
<1>4. ASSUME NEW other \in Channels PROVE Unread(other)' = Unread(other)
  BY <1>2, Zenon DEF Unread
<1>5. ASSUME NEW other \in Channels, other # ch PROVE Unexecuted(other)' = Unexecuted(other)
  <2>1. Held(other)' = <<>>
    BY <1>2, <1>5, Zenon DEF Held
  <2> QED BY <1>2, <1>3, <1>5, <2>1, PartsUnchanged
<1>6. Unexecuted(ch)' = Unexecuted(ch)
  <2>1. Held(ch)' = Bytes(SubSeq(wire[ch], 1, n)) /\ OpenCommand(ch)' = OpenCommand(ch)
    BY <1>1, <1>2, ZenonT(60) DEF Held, OpenCommand
  <2>2. Bytes(wire[ch]) = Bytes(SubSeq(wire[ch], 1, n)) \o Bytes(Drop(wire[ch], n))
    BY <1>2, BytesSplit
  <2>3. Unexecuted(ch)' = OpenCommand(ch) \o Bytes(wire[ch])
    <3>1. Unexecuted(ch)' = OpenCommand(ch)' \o (Held(ch)' \o Bytes(wire'[ch]))
      BY PartsTypeNext
    <3> QED BY <1>2, <2>1, <2>2, <3>1, Zenon
  <2>4. Unexecuted(ch) = OpenCommand(ch) \o Bytes(wire[ch])
    <3>1. Unexecuted(ch) = OpenCommand(ch) \o (<<>> \o Bytes(wire[ch])) /\ Bytes(wire[ch]) \in Seq(Nat)
      BY <1>3, PartsType
    <3> QED BY <3>1, NatConcat
  <2> QED BY <2>3, <2>4
<1> QED BY <1>2, <1>4, <1>5, <1>6, StutterRefines

\* The end of a transfer: the reply becomes a buffer on the endpoint, or there was none.
LEMMA FinishRefines ==
    ASSUME Inv, Inv', Finish
    PROVE  UNCHANGED Abstract!vars
<1>1. /\ UNCHANGED <<frag, total, hasRep, loopback, cur, data, wire, exec>> /\ rep' = <<>>
      /\ inData' = IF rep # <<>> \/ sendStatus
                   THEN [inData EXCEPT ![cur] = Append(@, rep)] ELSE inData
  BY DEF Finish, chanVars
<1>2. /\ cur \in Channels /\ rep \in Seq(Byte) /\ inData[cur] \in Seq(Seq(Byte))
      /\ inData \in [Channels -> Seq(Seq(Byte))]
  BY DEF Inv, TypeOK, TransferType, OutsideType
<1>3. ASSUME NEW ch \in Channels PROVE Unexecuted(ch)' = Unexecuted(ch)
  <2>1. Held(ch)' = Held(ch)
    BY <1>1 DEF Held
  <2> QED BY <1>1, <2>1, PartsUnchanged
<1>4. ASSUME NEW ch \in Channels PROVE Unread(ch)' = Unread(ch)
  <2>1. CASE ch # cur
    BY <1>1, <1>2, <2>1, PartsUnchanged
  <2>2. CASE ch = cur
    <3>0. FlattenSeq(inData[cur]) \in Seq(Byte) /\ rep \in Seq(Byte)
      BY <1>2, FlattenType
    <3>1. Unread(ch) = FlattenSeq(inData[cur]) \o rep
      BY <2>2 DEF Unread
    <3>2. Unread(ch)' = FlattenSeq(inData'[cur]) \o <<>>
      BY <1>1, <2>2 DEF Unread
    <3>3. CASE inData'[cur] = Append(inData[cur], rep)
      <4>1. FlattenSeq(inData'[cur]) = FlattenSeq(inData[cur]) \o rep
        BY <1>2, <3>3, FlattenAppend
      <4>2. (FlattenSeq(inData[cur]) \o rep) \in Seq(Byte)
        BY <3>0, ConcatProperties
      <4> QED BY <3>1, <3>2, <4>1, <4>2, ConcatEmptySeq
    <3>4. CASE rep = <<>> /\ inData' = inData
      BY <3>1, <3>2, <3>4
    <3> QED BY <1>1, <1>2, <3>3, <3>4
  <2> QED BY <2>1, <2>2
<1> QED BY <1>1, <1>3, <1>4, StutterRefines

\* Vendor requests and the ends of the process do not touch what the abstraction sees.
LEMMA OtherRefines ==
    ASSUME EmptyTransfer \/ Throw \/ (\E r \in Requests : HandleEP0(r)) \/ UNCHANGED vars
    PROVE  UNCHANGED Abstract!vars
<1>1. UNCHANGED <<frag, total, hasRep, loopback, cur, data, rep, wire, inData, exec>>
  BY DEF EmptyTransfer, Throw, HandleEP0, vars, chanVars, xferVars, hostVars
<1>2. ASSUME NEW ch \in Channels PROVE Unexecuted(ch)' = Unexecuted(ch)
  <2>1. Held(ch)' = Held(ch)
    BY <1>1 DEF Held
  <2> QED BY <1>1, <2>1, PartsUnchanged
<1>3. ASSUME NEW ch \in Channels PROVE Unread(ch)' = Unread(ch)
  BY <1>1, PartsUnchanged
<1> QED BY <1>1, <1>2, <1>3, StutterRefines

-----------------------------------------------------------------------------
(* The handler's steps. *)

\* What a transfer brings of a kept command stays in the stream.
LEMMA ResumePartialRefines ==
    ASSUME Inv, Inv', ResumePartial
    PROVE  UNCHANGED Abstract!vars
<1>1. /\ cur \in Channels /\ data \in Seq(Nat) /\ frag[cur] \in Seq(Nat) /\ frag[cur] # <<>>
      /\ frag' = [frag EXCEPT ![cur] = @ \o data] /\ frag'[cur] = frag[cur] \o data
      /\ data' = <<>>
      /\ UNCHANGED <<total, hasRep, loopback, cur, rep, wire, inData, exec>>
  <2>1. data' = Drop(data, Len(data)) /\ data \in Seq(Byte)
    BY DEF ResumePartial, Consume, Inv, TypeOK, TransferType
  <2>2. Len(Drop(data, Len(data))) = 0 /\ Drop(data, Len(data)) \in Seq(Byte)
    BY <2>1 DEF Drop
  <2>3. data' = <<>>
    BY <2>1, <2>2
  <2>4. frag \in [Channels -> Seq(Byte)] /\ cur \in Channels /\ frag[cur] # <<>>
    BY DEF ResumePartial, Inv, TypeOK, ChannelType, TransferType, FragmentFirst
  <2> QED BY <2>1, <2>3, <2>4, ByteNumbers DEF ResumePartial, ExtendFragment, hostVars
<1>2. \A ch \in Channels \ {cur} : frag'[ch] = frag[ch]
  BY <1>1
<1>3. ASSUME NEW ch \in Channels, ch # cur PROVE Unexecuted(ch)' = Unexecuted(ch)
  <2>1. Held(ch)' = Held(ch)
    BY <1>1, <1>3 DEF Held
  <2> QED BY <1>1, <1>2, <1>3, <2>1, PartsUnchanged
<1>4. ASSUME NEW ch \in Channels PROVE Unread(ch)' = Unread(ch)
  BY <1>1, PartsUnchanged
<1>5. Unexecuted(cur)' = Unexecuted(cur)
  <2>1. PICK h \in Seq(Nat), f \in Seq(Nat), d \in Seq(Nat), w \in Seq(Nat) :
          h = Announced(cur) /\ f = frag[cur] /\ d = data /\ w = Bytes(wire[cur])
    BY <1>1, AnnouncedType, PartsType
  <2>2. OpenCommand(cur) = h \o f /\ Held(cur) = d
    BY <1>1, <2>1, AnnouncedType DEF Held
  <2>3. OpenCommand(cur)' = h \o (f \o d) /\ Held(cur)' = <<>>
    <3>1. f \o d # <<>>
      BY <1>1, <2>1, ConcatEqualIffEmpty
    <3>2. frag'[cur] = f \o d
      BY <1>1, <2>1
    <3>3. total'[cur] = total[cur] /\ hasRep'[cur] = hasRep[cur] /\ cur' = cur
      BY <1>1
    <3>4. OpenCommand(cur)' = Announced(cur) \o frag'[cur]
      <4>1. OpenCommand(cur)' =
              IF frag'[cur'] = <<>> THEN <<>>
              ELSE <<IF hasRep'[cur'] THEN \h39 ELSE \h19, (total'[cur'] - 1) % 256,
                     (total'[cur'] - 1) \div 256>> \o frag'[cur']
        BY DEF OpenCommand
      <4>2. frag'[cur] # <<>>
        BY <3>1, <3>2
      <4>3. frag'[cur'] = frag'[cur] /\ total'[cur'] = total[cur] /\ hasRep'[cur'] = hasRep[cur]
        BY <3>3
      <4> QED BY <4>1, <4>2, <4>3, SMTT(60) DEF Announced
    <3> QED BY <1>1, <2>1, <3>2, <3>3, <3>4 DEF Held
  <2>4. Unexecuted(cur) = (h \o f) \o (d \o w)
    BY <1>1, <2>1, <2>2, PartsType
  <2>5. Unexecuted(cur)' = (h \o (f \o d)) \o w
    <3>1. Unexecuted(cur)' = OpenCommand(cur)' \o (Held(cur)' \o Bytes(wire[cur])')
      BY <1>1, PartsTypeNext
    <3>2. Bytes(wire[cur])' = w
      BY <1>1, <2>1
    <3>3. <<>> \o w = w
      BY NatConcat
    <3> QED BY <2>3, <3>1, <3>2, <3>3
  <2>6. (h \o f) \o (d \o w) = (h \o (f \o d)) \o w
    <3>1. h \o f \in Seq(Nat)
      BY NatConcat
    <3>2. ((h \o f) \o d) \o w = (h \o f) \o (d \o w)
      <4>1. \A a, b, c \in Seq(Nat) : (a \o b) \o c = a \o (b \o c)
        BY NatConcat
      <4> QED BY <3>1, <4>1, ZenonT(60)
    <3>3. (h \o f) \o d = h \o (f \o d)
      BY NatConcat, SMTT(40)
    <3> QED BY <3>2, <3>3, Zenon
  <2> QED BY <2>4, <2>5, <2>6
<1> QED BY <1>1, <1>3, <1>4, <1>5, StutterRefines

\* A broken write command's bytes move from the transfer into the fragment: its header is
\* kept as the size announced.
LEMMA BreakBytesRefines ==
    ASSUME Inv, Inv', CommandsWellFormed, \A ch \in Channels : InSync(ch),
           lastCut \notin {"head", "gap", "rwbody"}, BreakBytes
    PROVE  UNCHANGED Abstract!vars
<1>1. PICK lab \in Seq(Place), c \in Commands :
        /\ AtHead(c, lab) /\ Head(c) \in {\h19, \h39}
        /\ Len(data) > 3 /\ Len(data) < Len(c) /\ Len(c) = 3 + ShiftSize(c)
        /\ frag' = [frag EXCEPT ![cur] = Drop(data, 3)] /\ data' = <<>>
        /\ total' = [total EXCEPT ![cur] = ShiftSize(c)]
        /\ hasRep' = [hasRep EXCEPT ![cur] = (Head(c) = \h39)]
        /\ rep' = IF Head(c) = \h39 THEN rep \o Zeros(ShiftSize(c)) ELSE rep
  BY BreakFits, BrokenCommand
<1>2. /\ data \in Seq(Nat) /\ Len(data) \in Nat /\ cur \in Channels
      /\ frag[cur] = <<>> /\ UNCHANGED <<loopback, cur, wire, inData, exec>>
      /\ frag \in [Channels -> Seq(Byte)] /\ total \in [Channels -> Nat]
      /\ hasRep \in [Channels -> BOOLEAN]
  <2>1. data \in Seq(Byte) /\ Len(data) \in Nat /\ cur \in Channels /\ total \in [Channels -> Nat]
        /\ frag \in [Channels -> Seq(Byte)] /\ hasRep \in [Channels -> BOOLEAN]
    BY CountModAssumption, SMTT(60) DEF Inv, TypeOK, ChannelType, TransferType
  <2>2. frag[cur] = <<>>
    BY DEF Inv, FragmentFirst, BreakBytes, AtCommand
  <2> QED BY <2>1, <2>2, ByteNumbers DEF BreakBytes, hostVars
<1>0. PICK m \in Nat, k \in Nat : m = Len(data) /\ k = Len(c) /\ m > 3 /\ m < k
  BY <1>1, <1>2, CommandType
<1>3. Head(c) = \h19 /\ rep' = rep
  <2>1. CutAfter(c, Len(data)) = lastCut /\ Len(data) # Len(c) /\ ~ (Len(data) < 3) /\ Len(data) # 3
    <3>1. CutAfter(c, m) = lastCut
      BY <1>0, <1>1 DEF AtHead
    <3>2. m # k /\ ~ (m < 3) /\ m # 3
      <4>1. \A x, y \in Nat : x > 3 /\ x < y => x # y /\ ~ (x < 3) /\ x # 3
        OBVIOUS
      <4> QED BY <1>0, <4>1, Zenon
    <3> QED BY <1>0, <3>1, <3>2
  <2>2. Head(c) \in ByteOps
    BY <1>1 DEF ByteOps
  <2>3. Reads(Head(c)) => lastCut = "rwbody"
    BY <2>1, <2>2, Zenon DEF CutAfter
  <2>4. Head(c) # \h39
    BY <2>3 DEF Reads
  <2> QED BY <1>1, <2>4
<1>4. /\ ShiftSize(c) = 256 * c[3] + c[2] + 1 /\ c[2] \in Byte /\ c[3] \in Byte /\ c[1] = \h19
      /\ data[1] = c[1] /\ data[2] = c[2] /\ data[3] = c[3]
  <2>1. Head(c) \in ByteOps /\ c # <<>> /\ c \in Seq(Byte)
    BY <1>1, CommandLength, CommandType DEF ByteOps
  <2>2. c[2] \in Byte /\ c[3] \in Byte /\ Len(c) >= 3 /\ Len(c) \in Nat
    BY <2>1, CommandLength
  <2>3. \A i \in {1, 2, 3} : i \in 1 .. Len(c) /\ i <= Len(data)
    BY <1>1, <1>2, <2>2, SMTT(40)
  <2>4. \A i \in {1, 2, 3} : data[i] = c[i]
    BY <1>1, <2>3 DEF AtHead
  <2> QED BY <1>3, <2>1, <2>2, <2>4 DEF ShiftSize
<1>5. PICK t \in Nat : /\ t = 256 * c[3] + c[2] /\ total'[cur] = t + 1
                       /\ t % 256 = c[2] /\ t \div 256 = c[3]
  <2>1. PICK lo \in Byte, hi \in Byte : lo = c[2] /\ hi = c[3]
    BY <1>4
  <2>2. /\ 256 * hi + lo \in Nat /\ (256 * hi + lo) % 256 = lo
        /\ (256 * hi + lo) \div 256 = hi
    BY DEF Byte
  <2>3. total'[cur] = (256 * hi + lo) + 1
    BY <1>1, <1>2, <1>4, <2>1 DEF Byte
  <2> QED BY <2>1, <2>2, <2>3
<1>6. frag'[cur] = Drop(data, 3) /\ frag'[cur] # <<>> /\ ~hasRep'[cur]
  <2>1. frag'[cur] = Drop(data, 3) /\ hasRep'[cur] = FALSE
    <3>1. hasRep'[cur] = (Head(c) = \h39)
      BY <1>1, <1>2, ZenonT(60)
    <3>2. Head(c) # \h39
      BY <1>3
    <3>3. hasRep'[cur] = FALSE
      BY <3>1, <3>2, Zenon
    <3>4. frag'[cur] = Drop(data, 3)
      BY <1>1, <1>2
    <3> QED BY <3>3, <3>4
  <2>2. Drop(data, 3) # <<>>
    <3>1. Len(Drop(data, 3)) = m - 3
      BY <1>0, <1>2 DEF Drop
    <3>2. m - 3 # 0
      BY <1>0, SMTT(120)
    <3> QED BY <3>1, <3>2
  <2> QED BY <2>1, <2>2
<1>7. OpenCommand(cur)' = data
  <2>1. OpenCommand(cur)' =
          IF frag'[cur'] = <<>> THEN <<>>
          ELSE <<IF hasRep'[cur'] THEN \h39 ELSE \h19, (total'[cur'] - 1) % 256,
                 (total'[cur'] - 1) \div 256>> \o frag'[cur']
    BY DEF OpenCommand
  <2>2. frag'[cur'] = Drop(data, 3) /\ Drop(data, 3) # <<>> /\ hasRep'[cur'] = FALSE
        /\ total'[cur'] - 1 = t
    BY <1>2, <1>5, <1>6
  <2>3. OpenCommand(cur)' = <<\h19, t % 256, t \div 256>> \o Drop(data, 3)
    BY <2>1, <2>2, SMTT(60)
  <2>4. SubSeq(data, 1, 3) = <<\h19, t % 256, t \div 256>>
    <3>1. /\ SubSeq(data, 1, 3) \in Seq(Nat) /\ Len(SubSeq(data, 1, 3)) = 3
          /\ \A i \in 1 .. 3 : SubSeq(data, 1, 3)[i] = data[i]
      BY <1>0, <1>2, SMTT(60)
    <3>2. data[1] = \h19 /\ data[2] = t % 256 /\ data[3] = t \div 256
      BY <1>4, <1>5
    <3>3. t % 256 \in Nat /\ t \div 256 \in Nat
      OBVIOUS
    <3> DEFINE u == SubSeq(data, 1, 3)
    <3> DEFINE v == <<\h19, t % 256, t \div 256>>
    <3>4. /\ v \in Seq(Nat) /\ Len(v) = 3
          /\ v[1] = \h19 /\ v[2] = t % 256 /\ v[3] = t \div 256
      BY <3>3
    <3>5. u \in Seq(Nat) /\ Len(u) = 3 /\ u[1] = data[1] /\ u[2] = data[2] /\ u[3] = data[3]
      BY <3>1
    <3> HIDE DEF u, v
    <3>6. \A i \in 1 .. 3 : i = 1 \/ i = 2 \/ i = 3
      OBVIOUS
    <3>7. \A i \in 1 .. 3 : u[i] = v[i]
      BY <3>2, <3>4, <3>5, <3>6
    <3>8. \A i \in 1 .. Len(u) : u[i] = v[i]
      BY <3>5, <3>7
    <3>9. u = v
      BY <3>4, <3>5, <3>8, SeqEqual, SMTT(90)
    <3> QED BY <3>9 DEF u, v
  <2>5. data = SubSeq(data, 1, 3) \o Drop(data, 3)
    <3>1. 3 \in 0 .. Len(data)
      BY <1>1, <1>2
    <3> QED BY <1>2, <3>1, DropSplit
  <2> QED BY <2>3, <2>4, <2>5, ZenonT(60)
<1>8. Unexecuted(cur)' = Unexecuted(cur)
  <2>1. PICK d \in Seq(Nat), w \in Seq(Nat) : d = data /\ w = Bytes(wire[cur])
    BY <1>2, PartsType
  <2>2. Unexecuted(cur) = <<>> \o (d \o w)
    <3>1. OpenCommand(cur) = <<>> /\ Held(cur) = data
      BY <1>2 DEF OpenCommand, Held
    <3> QED BY <1>2, <2>1, <3>1, PartsType
  <2>3. Unexecuted(cur)' = d \o (<<>> \o w)
    <3>1. Unexecuted(cur)' = OpenCommand(cur)' \o (Held(cur)' \o Bytes(wire[cur])')
      BY <1>2, PartsTypeNext
    <3>2. Held(cur)' = <<>> /\ Bytes(wire[cur])' = w
      BY <1>1, <1>2, <2>1 DEF Held
    <3> QED BY <1>7, <2>1, <3>1, <3>2, Zenon
  <2>4. d \o w \in Seq(Nat)
    BY NatConcat
  <2>5. <<>> \o (d \o w) = d \o w /\ <<>> \o w = w
    BY <2>4, NatConcat
  <2> QED BY <2>2, <2>3, <2>5, Zenon
<1>9. ASSUME NEW ch \in Channels, ch # cur PROVE Unexecuted(ch)' = Unexecuted(ch)
  <2>1. Held(ch)' = Held(ch)
    BY <1>2, <1>9 DEF Held
  <2>2. frag'[ch] = frag[ch] /\ total'[ch] = total[ch] /\ hasRep'[ch] = hasRep[ch]
    BY <1>1, <1>2, <1>9
  <2> QED BY <1>2, <2>1, <2>2, PartsUnchanged
<1>10. ASSUME NEW ch \in Channels PROVE Unread(ch)' = Unread(ch)
  BY <1>2, <1>3, PartsUnchanged
<1> QED BY <1>2, <1>8, <1>9, <1>10, StutterRefines

\* A command the handler takes whole is the first of the channel's stream, and all of it
\* is taken.
LEMMA CommandTaken ==
    ASSUME Inv, Inv', CommandsWellFormed, \A ch \in Channels : InSync(ch), lastCut # "head",
           SkipCommand \/ SyncCommand \/ LoopbackCommand \/ SetPort \/ ShiftBits \/ ShiftBytes
    PROVE  \E c \in Commands :
             /\ Head(data) = Head(c) /\ Len(c) <= Len(data) /\ data # <<>>
             /\ \A i \in 1 .. Len(c) : data[i] = c[i]
             /\ \A k \in 2 .. Len(c) : NextByte(k) = {c[k]}
             /\ Unexecuted(cur) = c \o Unexecuted(cur)'
             /\ \A other \in Channels \ {cur} : Unexecuted(other)' = Unexecuted(other)
             /\ UNCHANGED <<cur, inData>>
<1>1. PICK lab \in Seq(Place), c \in Commands :
        /\ Follows(lab, cur) /\ AtHead(c, lab)
        /\ Consume(Len(c)) /\ Len(c) \in Nat /\ Len(c) <= Len(data)
  BY WholeFits
<1>2. /\ UNCHANGED <<frag, total, hasRep, cur, wire, inData>>
      /\ data # <<>> /\ data \in Seq(Byte) /\ cur \in Channels /\ frag[cur] = <<>>
      /\ data' = Drop(data, Len(c))
  <2>1. pc = "loop" /\ data # <<>>
    BY DEF SkipCommand, SyncCommand, LoopbackCommand, SetPort, ShiftBits, ShiftBytes, AtCommand
  <2>2. UNCHANGED <<frag, total, hasRep, cur, wire, inData>>
    BY DEF SkipCommand, SyncCommand, LoopbackCommand, SetPort, ShiftBits, ShiftBytes, chanVars, hostVars
  <2> QED BY <1>1, <2>1, <2>2 DEF Inv, TypeOK, TransferType, FragmentFirst, Consume
<1>3. PICK m \in Nat, n \in Nat : m = Len(c) /\ n = Len(data) /\ m <= n
  BY <1>1, <1>2, LenProperties
<1>4. c # <<>> /\ c \in Seq(Byte)
  BY CommandLength, CommandType
<1>5. /\ Head(data) = Head(c)
      /\ \A k \in 2 .. Len(c) : NextByte(k) = {c[k]}
      /\ \A i \in 1 .. Len(c) : data[i] = c[i]
  <2>1. \A k \in 1 .. m : k <= n
    BY <1>3
  <2>2. \A k \in 2 .. m : k <= n
    BY <1>3
  <2>3. Head(data) = Head(c) /\ \A k \in 2 .. Len(c) : k <= Len(data) => NextByte(k) = {c[k]}
    BY <1>1, <1>2, <1>4, HeadBytes
  <2>4. \A i \in 1 .. Len(c) : i <= Len(data) => data[i] = c[i]
    BY <1>1 DEF AtHead
  <2> QED BY <1>3, <2>1, <2>2, <2>3, <2>4, Zenon
<1>6. data = c \o Drop(data, m)
  <2>1. m \in 0 .. Len(data)
    BY <1>3
  <2>2. data = SubSeq(data, 1, m) \o Drop(data, m)
    BY <1>2, <2>1, DropSplit
  <2>3. SubSeq(data, 1, m) \in Seq(Byte) /\ Len(SubSeq(data, 1, m)) = m
        /\ \A i \in 1 .. m : SubSeq(data, 1, m)[i] = data[i]
    BY <1>2, <1>3
  <2>4. SubSeq(data, 1, m) = c
    BY <1>3, <1>4, <1>5, <2>3, SeqEqual
  <2> QED BY <2>2, <2>4
<1>7. Unexecuted(cur) = c \o Unexecuted(cur)'
  <2>1. PICK d \in Seq(Nat), w \in Seq(Nat) : d = Drop(data, m) /\ w = Bytes(wire[cur])
    <3>1. Drop(data, m) \in Seq(Byte)
      BY <1>2, DropType
    <3> QED BY <1>2, <3>1, ByteNumbers, PartsType
  <2>2. c \in Seq(Nat)
    BY <1>4, ByteNumbers
  <2>3. Unexecuted(cur) = <<>> \o ((c \o d) \o w)
    <3>1. OpenCommand(cur) = <<>> /\ Held(cur) = data
      BY <1>2 DEF OpenCommand, Held
    <3>2. Unexecuted(cur) = OpenCommand(cur) \o (Held(cur) \o Bytes(wire[cur]))
      BY <1>2, PartsType
    <3>3. data = c \o d
      BY <1>6, <2>1
    <3> QED BY <2>1, <3>1, <3>2, <3>3, Zenon
  <2>4. Unexecuted(cur)' = <<>> \o (d \o w)
    <3>1. Unexecuted(cur)' = OpenCommand(cur)' \o (Held(cur)' \o Bytes(wire[cur])')
      BY <1>2, PartsTypeNext
    <3>2. OpenCommand(cur)' = <<>> /\ Held(cur)' = d /\ Bytes(wire[cur])' = w
      BY <1>2, <1>3, <2>1 DEF OpenCommand, Held
    <3> QED BY <3>1, <3>2, Zenon
  <2>5. c \o d \in Seq(Nat) /\ d \o w \in Seq(Nat)
    BY <2>2, NatConcat
  <2>6. (c \o d) \o w \in Seq(Nat)
    BY <2>5, NatConcat
  <2>7. <<>> \o ((c \o d) \o w) = (c \o d) \o w /\ <<>> \o (d \o w) = d \o w
    BY <2>5, <2>6, NatConcat
  <2>8. (c \o d) \o w = c \o (d \o w)
    BY <2>2, NatConcat, ZenonT(60)
  <2> QED BY <2>3, <2>4, <2>7, <2>8, Zenon
<1>8. ASSUME NEW other \in Channels \ {cur} PROVE Unexecuted(other)' = Unexecuted(other)
  <2>1. Held(other)' = Held(other)
    BY <1>2 DEF Held
  <2> QED BY <1>2, <2>1, PartsUnchanged
<1> QED BY <1>1, <1>2, <1>5, <1>7, <1>8

\* A step with the effect of the stream's first command is the abstract Execute.
LEMMA EffectRefines ==
    ASSUME Inv, Inv', NEW c \in Commands, WellFormed(c),
           Unexecuted(cur) = c \o Unexecuted(cur)',
           \A other \in Channels \ {cur} : Unexecuted(other)' = Unexecuted(other),
           UNCHANGED <<cur, inData>>,
           NEW calls, NEW bytes \in Seq(Nat), NEW lp, Effect(c, cur, calls, bytes, lp),
           exec' = [exec EXCEPT ![cur] = calls], loopback' = [loopback EXCEPT ![cur] = lp],
           rep' = rep \o bytes
    PROVE  Abstract!Next
<1>1. /\ cur \in Channels /\ exec \in [Channels -> Seq(Call)] /\ loopback \in [Channels -> BOOLEAN]
      /\ rep \in Seq(Nat) /\ c \in Seq(Byte)
  BY ByteNumbers, CommandType DEF Inv, TypeOK, ChannelType, TransferType, OutsideType
<1>2. Unexecuted(cur)' \in Seq(Nat) /\ Unread(cur) \in Seq(Nat) /\ FlattenSeq(inData[cur]) \in Seq(Nat)
  BY <1>1, PartsType, PartsTypeNext
<1>3. \A other \in Channels \ {cur} : Unread(other)' = Unread(other)
  BY PartsUnchanged
<1>4. Unread(cur)' = Unread(cur) \o bytes
  <2>1. Unread(cur) = FlattenSeq(inData[cur]) \o rep
    BY DEF Unread
  <2>2. Unread(cur)' = FlattenSeq(inData[cur]) \o (rep \o bytes)
    BY DEF Unread
  <2>3. PICK f \in Seq(Nat), r \in Seq(Nat) : f = FlattenSeq(inData[cur]) /\ r = rep
    BY <1>1, <1>2
  <2>4. (f \o r) \o bytes = f \o (r \o bytes)
    BY NatConcat, ZenonT(60)
  <2> QED BY <2>1, <2>2, <2>3, <2>4, Zenon
<1>5. Abstract!Execute(cur)
  BY <1>1, <1>2, <1>3, <1>4, ExecuteRefines
<1> QED BY <1>1, <1>5 DEF Abstract!Next

\* A command without effect is one of the abstract channel.
LEMMA SkipCommandRefines ==
    ASSUME Inv, Inv', CommandsWellFormed, \A ch \in Channels : InSync(ch), lastCut # "head",
           SkipCommand
    PROVE  Abstract!Next
<1>1. PICK c \in Commands :
        /\ Head(data) = Head(c) /\ Unexecuted(cur) = c \o Unexecuted(cur)'
        /\ \A other \in Channels \ {cur} : Unexecuted(other)' = Unexecuted(other)
        /\ UNCHANGED <<cur, inData>>
  BY CommandTaken
<1>2. /\ Head(c) \in {Ignored, ClockDivisor, PortHigh, Flush} \cup ClockModes
      /\ UNCHANGED <<rep, exec, loopback>>
      /\ cur \in Channels /\ exec \in [Channels -> Seq(Call)] /\ loopback \in [Channels -> BOOLEAN]
      /\ rep \in Seq(Nat)
  BY <1>1, ByteNumbers DEF SkipCommand, AtCommand, chanVars, Inv, TypeOK, ChannelType, TransferType,
                       OutsideType
<1>3. Head(c) \notin Shifts /\ Head(c) \notin Sync /\ Head(c) \notin {PortLow, LoopbackOn, LoopbackOff}
  <2>1. PICK op : op = Head(c) /\ op \in {Ignored, ClockDivisor, PortHigh, Flush} \cup ClockModes
    BY <1>2
  <2>2. op \notin Shifts
    BY <2>1 DEF Ignored, ClockDivisor, PortHigh, Flush, ClockModes, Shifts, BitOps, ByteOps
  <2>3. op \notin Sync /\ op \notin {PortLow, LoopbackOn, LoopbackOff}
    BY <2>1 DEF Ignored, ClockDivisor, PortHigh, Flush, ClockModes, Sync, PortLow, LoopbackOn,
                LoopbackOff
  <2> QED BY <2>1, <2>2, <2>3
<1>4. Effect(c, cur, exec[cur], <<>>, loopback[cur])
  BY <1>3, Zenon DEF Effect
<1>5. /\ exec' = [exec EXCEPT ![cur] = exec[cur]] /\ loopback' = [loopback EXCEPT ![cur] = loopback[cur]]
      /\ rep' = rep \o <<>> /\ <<>> \in Seq(Nat)
  BY <1>2, NatConcat
<1>6. WellFormed(c)
  BY DEF CommandsWellFormed
<1> QED BY <1>1, <1>4, <1>5, <1>6, EffectRefines

\* An answer to a bad opcode is one of the abstract channel.
LEMMA SyncCommandRefines ==
    ASSUME Inv, Inv', CommandsWellFormed, \A ch \in Channels : InSync(ch), lastCut # "head",
           SyncCommand
    PROVE  Abstract!Next
<1>1. PICK c \in Commands :
        /\ Head(data) = Head(c) /\ Unexecuted(cur) = c \o Unexecuted(cur)'
        /\ \A other \in Channels \ {cur} : Unexecuted(other)' = Unexecuted(other)
        /\ UNCHANGED <<cur, inData>>
  BY CommandTaken
<1>2. /\ Head(c) \in Sync /\ rep' = rep \o <<\hfa, Head(c)>>
      /\ UNCHANGED <<exec, loopback>>
      /\ cur \in Channels /\ exec \in [Channels -> Seq(Call)] /\ loopback \in [Channels -> BOOLEAN]
  BY <1>1 DEF SyncCommand, AtCommand, chanVars, Inv, TypeOK, ChannelType, TransferType, OutsideType
<1>3. /\ Head(c) \notin Shifts /\ Head(c) \notin {PortLow, LoopbackOn, LoopbackOff}
      /\ <<\hfa, Head(c)>> \in Seq(Nat)
  <2>1. Head(c) = \haa \/ Head(c) = \hab
    BY <1>2 DEF Sync
  <2> DEFINE op == Head(c)
  <2> HIDE DEF op
  <2>2. op = \haa \/ op = \hab
    BY <2>1 DEF op
  <2>3. /\ op \notin Shifts /\ op \notin {PortLow, LoopbackOn, LoopbackOff}
        /\ op \in Nat
    BY <2>2 DEF Shifts, BitOps, ByteOps, PortLow, LoopbackOn, LoopbackOff
  <2>4. <<\hfa, op>> \in Seq(Nat)
    BY <2>3
  <2> QED BY <2>3, <2>4 DEF op
<1>4. Effect(c, cur, exec[cur], <<\hfa, Head(c)>>, loopback[cur])
  BY <1>2, <1>3, Zenon DEF Effect
<1>5. exec' = [exec EXCEPT ![cur] = exec[cur]] /\ loopback' = [loopback EXCEPT ![cur] = loopback[cur]]
  BY <1>2
<1>6. WellFormed(c)
  BY DEF CommandsWellFormed
<1> QED BY <1>1, <1>2, <1>3, <1>4, <1>5, <1>6, EffectRefines, ZenonT(60)

\* A change of the loopback is one of the abstract channel.
LEMMA LoopbackCommandRefines ==
    ASSUME Inv, Inv', CommandsWellFormed, \A ch \in Channels : InSync(ch), lastCut # "head",
           LoopbackCommand
    PROVE  Abstract!Next
<1>1. PICK c \in Commands :
        /\ Head(data) = Head(c) /\ Unexecuted(cur) = c \o Unexecuted(cur)'
        /\ \A other \in Channels \ {cur} : Unexecuted(other)' = Unexecuted(other)
        /\ UNCHANGED <<cur, inData>>
  BY CommandTaken
<1> DEFINE lp == Head(c) = LoopbackOn \/ LoopbackAfterOff(cur)
<1>2. /\ Head(c) \in {LoopbackOn, LoopbackOff} /\ loopback' = [loopback EXCEPT ![cur] = lp]
      /\ UNCHANGED <<rep, exec>>
      /\ cur \in Channels /\ exec \in [Channels -> Seq(Call)] /\ loopback \in [Channels -> BOOLEAN]
      /\ rep \in Seq(Nat)
  <2>1. Head(data) \in {LoopbackOn, LoopbackOff} /\ UNCHANGED <<rep, exec>>
        /\ loopback' = [loopback EXCEPT ![cur] = Head(data) = LoopbackOn \/ LoopbackAfterOff(cur)]
    BY Zenon DEF LoopbackCommand, AtCommand
  <2>2. /\ cur \in Channels /\ exec \in [Channels -> Seq(Call)] /\ loopback \in [Channels -> BOOLEAN]
        /\ rep \in Seq(Nat)
    BY ByteNumbers DEF Inv, TypeOK, ChannelType, TransferType, OutsideType
  <2> QED BY <1>1, <2>1, <2>2, Zenon
<1>3. Head(c) \notin Shifts /\ Head(c) \notin Sync /\ Head(c) # PortLow /\ LoopbackOn # LoopbackOff
  <2>1. PICK op : op = Head(c) /\ op \in {LoopbackOn, LoopbackOff}
    BY <1>2
  <2> QED BY <2>1 DEF Shifts, BitOps, ByteOps, Sync, PortLow, LoopbackOn, LoopbackOff
<1>4. LoopbackAfterOff(cur) = (cur \notin Adapters)
  <2>1. cur \notin Adapters => loopback[cur]
    BY <1>2 DEF Inv, LoopbackWithoutAdapter
  <2> QED BY <2>1, Zenon DEF LoopbackAfterOff
<1>5. lp = IF Head(c) = LoopbackOn THEN TRUE
           ELSE IF Head(c) = LoopbackOff THEN cur \notin Adapters ELSE loopback[cur]
  BY <1>2, <1>3, <1>4, Zenon
<1> HIDE DEF lp
<1>6. Effect(c, cur, exec[cur], <<>>, lp)
  BY <1>3, <1>5, Zenon DEF Effect
<1>7. exec' = [exec EXCEPT ![cur] = exec[cur]] /\ rep' = rep \o <<>> /\ <<>> \in Seq(Nat)
  BY <1>2, NatConcat
<1>8. WellFormed(c)
  BY DEF CommandsWellFormed
<1> QED BY <1>1, <1>2, <1>6, <1>7, <1>8, EffectRefines

\* A port write is one of the abstract channel.
LEMMA SetPortRefines ==
    ASSUME Inv, Inv', CommandsWellFormed, \A ch \in Channels : InSync(ch), lastCut # "head",
           SetPort
    PROVE  Abstract!Next
<1>1. PICK c \in Commands :
        /\ Head(data) = Head(c) /\ \A k \in 2 .. Len(c) : NextByte(k) = {c[k]}
        /\ Unexecuted(cur) = c \o Unexecuted(cur)'
        /\ \A other \in Channels \ {cur} : Unexecuted(other)' = Unexecuted(other)
        /\ UNCHANGED <<cur, inData>>
  BY CommandTaken
<1>2. /\ Head(c) = PortLow /\ UNCHANGED <<rep, loopback>>
      /\ cur \in Channels /\ exec \in [Channels -> Seq(Call)] /\ loopback \in [Channels -> BOOLEAN]
      /\ rep \in Seq(Nat)
  BY <1>1, ByteNumbers DEF SetPort, AtCommand, chanVars, Inv, TypeOK, ChannelType, TransferType,
                       OutsideType
<1>3. NextByte(2) = {c[2]}
  <2>1. Len(c) = 3
    BY <1>2, CommandLength
  <2> QED BY <1>1, <2>1
<1>4. Head(c) \notin Shifts /\ Head(c) \notin Sync /\ Head(c) \notin {LoopbackOn, LoopbackOff}
  BY <1>2 DEF Shifts, BitOps, ByteOps, Sync, PortLow, LoopbackOn, LoopbackOff
<1> DEFINE calls == IF cur \in Adapters THEN Append(exec[cur], PortCall(c[2])) ELSE exec[cur]
<1>5. exec' = [exec EXCEPT ![cur] = calls]
  <2>1. exec' = IF cur \in Adapters
                THEN [exec EXCEPT ![cur] = Append(@, PortCall(c[2]))] ELSE exec
    BY <1>3 DEF SetPort
  <2> QED BY <1>2, <2>1
<1>6. Effect(c, cur, calls, <<>>, loopback[cur])
  BY <1>2, <1>4, Zenon DEF Effect
<1> HIDE DEF calls
<1>7. /\ loopback' = [loopback EXCEPT ![cur] = loopback[cur]]
      /\ rep' = rep \o <<>> /\ <<>> \in Seq(Nat)
  BY <1>2, NatConcat
<1>8. WellFormed(c)
  BY DEF CommandsWellFormed
<1> QED BY <1>1, <1>5, <1>6, <1>7, <1>8, EffectRefines

-----------------------------------------------------------------------------
(* The shifts. *)

\* The payload of a shift command.
LEMMA ShiftPayload ==
    ASSUME CommandsWellFormed, NEW c \in Commands, Head(c) \in Shifts
    PROVE  /\ Payload(c) = SubSeq(c, HeaderLen(Head(c)) + 1, Len(c)) /\ Payload(c) \in Seq(Byte)
           /\ Len(Payload(c)) = (IF Writes(Head(c)) THEN ShiftSize(c) ELSE 0)
           /\ ShiftSize(c) \in Nat /\ ShiftSize(c) >= 1
           /\ HeaderLen(Head(c)) = (IF Head(c) \in ByteOps THEN 3 ELSE 2)
           /\ Len(c) = HeaderLen(Head(c)) + (IF Writes(Head(c)) THEN ShiftSize(c) ELSE 0)
<1>1. c \in Seq(Byte) /\ Len(c) \in Nat /\ Len(c) = CommandLen(c)
  BY CommandType DEF CommandsWellFormed, WellFormed
<1>2. HeaderLen(Head(c)) = IF Head(c) \in ByteOps THEN 3 ELSE 2
  <2>1. PICK op : op = Head(c) /\ op \in Shifts
    OBVIOUS
  <2>2. HeaderLen(op) = IF op \in ByteOps THEN 3 ELSE 2
    BY <2>1 DEF HeaderLen, Shifts, BitOps, ByteOps, PortLow, PortHigh, ClockDivisor
  <2> QED BY <2>1, <2>2
<1>3. ShiftSize(c) \in Nat /\ ShiftSize(c) >= 1
  <2>1. CASE Head(c) \in ByteOps
    <3>1. c[2] \in Byte /\ c[3] \in Byte /\ ByteCount(c[2], c[3]) = ShiftSize(c) /\ ShiftSize(c) >= 1
      BY <2>1, CommandLength
    <3> QED BY <3>1, ByteCountType, CountModAssumption
  <2>2. CASE Head(c) \notin ByteOps
    BY <2>2 DEF ShiftSize
  <2> QED BY <2>1, <2>2
<1> DEFINE h == HeaderLen(Head(c))
<1> DEFINE k == IF Writes(Head(c)) THEN ShiftSize(c) ELSE 0
<1>4. h \in {2, 3} /\ k \in Nat /\ Len(c) = h + k
  BY <1>1, <1>2, <1>3 DEF CommandLen
<1>5. Payload(c) = SubSeq(c, h + 1, Len(c))
  BY <1>1 DEF Payload
<1> HIDE DEF h, k
<1>6. SubSeq(c, h + 1, Len(c)) \in Seq(Byte) /\ Len(SubSeq(c, h + 1, Len(c))) = k
  BY <1>1, <1>4
<1> QED BY <1>2, <1>3, <1>4, <1>5, <1>6 DEF h, k

\* What shifting a byte command's payload comes to is the command's effect.
LEMMA BytesEffect ==
    ASSUME Inv, CommandsWellFormed, NEW c \in Commands, Head(c) \in ByteOps,
           NEW n, n = (IF Reads(Head(c)) THEN ShiftSize(c) ELSE 0),
           NEW o \in Outcomes(Payload(c), 7, "TDI", n)
    PROVE  Effect(c, cur, o.calls, Got(n, o.rx), loopback[cur]) /\ Got(n, o.rx) \in Seq(Nat)
<1> DEFINE tx == Payload(c)
<1> DEFINE op == Head(c)
<1>1. op \in Shifts /\ op \notin {LoopbackOn, LoopbackOff} /\ op \notin BitOps
  <2>1. PICK x : x = op /\ x \in ByteOps
    OBVIOUS
  <2> QED BY <2>1 DEF Shifts, ByteOps, BitOps, LoopbackOn, LoopbackOff
<1>2. /\ tx \in Seq(Byte) /\ Len(tx) = (IF Writes(op) THEN ShiftSize(c) ELSE 0)
      /\ ShiftSize(c) \in Nat /\ ShiftSize(c) >= 1
  BY <1>1, ShiftPayload
<1>3. n \in Nat /\ (Reads(op) <=> n # 0) /\ (Reads(op) => n = ShiftSize(c)) /\ (~Reads(op) => n = 0)
  BY <1>2
<1>4. CASE loopback[cur]
  <2>1. o = [rx |-> LoopbackReply(tx, n), calls |-> exec[cur]]
    BY <1>4 DEF Outcomes
  <2>2. o.calls = exec[cur] /\ o.rx = LoopbackReply(tx, n)
    BY <2>1
  <2>3. CASE ~Reads(op)
    <3>1. Got(n, o.rx) = <<>>
      BY <1>3, <2>3 DEF Got
    <3>2. Effect(c, cur, o.calls, Got(n, o.rx), loopback[cur])
      BY <1>1, <1>4, <2>2, <2>3, <3>1, Zenon DEF Effect
    <3>3. <<>> \in Seq(Nat)
      OBVIOUS
    <3> QED BY <3>1, <3>2, <3>3
  <2>4. CASE Reads(op) /\ Writes(op)
    <3>1. Got(n, o.rx) = LoopbackReply(tx, n)
      BY <1>3, <2>2, <2>4 DEF Got
    <3>2. tx # <<>> /\ n = Len(tx)
      BY <1>2, <1>3, <2>4
    <3>3. LoopbackReply(tx, n) = tx
      BY <1>2, <3>2, SubSeqFull DEF LoopbackReply
    <3>4. tx \in Seq(Nat)
      BY <1>2, ByteNumbers
    <3>5. Got(n, o.rx) = Payload(c)
      BY <3>1, <3>3
    <3>6. Effect(c, cur, o.calls, Got(n, o.rx), loopback[cur])
      BY <1>1, <1>4, <2>2, <2>4, <3>5, Zenon DEF Effect
    <3> QED BY <3>4, <3>5, <3>6
  <2>5. CASE Reads(op) /\ ~Writes(op)
    <3>1. Got(n, o.rx) = LoopbackReply(tx, n)
      BY <1>3, <2>2, <2>5 DEF Got
    <3>2. tx = <<>> /\ n = ShiftSize(c)
      BY <1>2, <1>3, <2>5
    <3>3. LoopbackReply(tx, n) = Zeros(n)
      BY <3>2, Zenon DEF LoopbackReply
    <3>4. Zeros(n) \in Seq(Nat)
      BY <1>3, ZerosType, ByteNumbers
    <3>5. Got(n, o.rx) = Zeros(ShiftSize(c))
      BY <3>1, <3>2, <3>3
    <3>6. Effect(c, cur, o.calls, Got(n, o.rx), loopback[cur])
      BY <1>1, <1>4, <2>2, <2>5, <3>5, Zenon DEF Effect
    <3> QED BY <3>2, <3>4, <3>5, <3>6
  <2> QED BY <2>3, <2>4, <2>5
<1>5. CASE ~loopback[cur]
  <2>1. PICK rx \in Answers(n) :
          o = [rx |-> rx, calls |-> Append(exec[cur], ShiftCall(tx, 7, "TDI", rx))]
    BY <1>5 DEF Outcomes
  <2>2. o.rx = rx /\ o.calls = Append(exec[cur], ShiftCall(tx, 7, "TDI", rx))
    BY <2>1
  <2>3. Got(n, o.rx) = IF Reads(op) THEN rx ELSE <<>>
    BY <1>3, <2>2 DEF Got
  <2>4. rx \in Seq(Nat)
    BY <1>3, AnswersType, ByteNumbers
  <2>5. Got(n, o.rx) \in Seq(Nat)
    <3>1. <<>> \in Seq(Nat)
      OBVIOUS
    <3> QED BY <2>3, <2>4, <3>1, Zenon
  <2>6. Effect(c, cur, o.calls, Got(n, o.rx), loopback[cur])
    BY <1>1, <1>5, <2>2, <2>3 DEF Effect
  <2> QED BY <2>5, <2>6
<1> QED BY <1>4, <1>5

\* The same for a bit command: there is one reply byte, whatever the adapter fills in.
LEMMA BitsEffect ==
    ASSUME Inv, CommandsWellFormed, NEW c \in Commands, Head(c) \in BitOps,
           NEW d, NEW tx, NEW n,
           Writes(Head(c)) => d = c[3],
           tx = (IF Writes(Head(c)) THEN <<d>> ELSE <<>>),
           n = (IF Reads(Head(c)) THEN 1 ELSE 0),
           NEW o \in Outcomes(tx, c[2], ShiftOp(Head(c), d), n)
    PROVE  LET bytes == IF Reads(Head(c)) THEN BitReply(o.rx) ELSE <<>>
           IN Effect(c, cur, o.calls, bytes, loopback[cur]) /\ bytes \in Seq(Nat)
<1> DEFINE op == Head(c)
<1> DEFINE bytes == IF Reads(op) THEN BitReply(o.rx) ELSE <<>>
<1>1. /\ op \in Shifts /\ op \notin {LoopbackOn, LoopbackOff} /\ op \notin ByteOps
      /\ (~Writes(op) => ~IsTms(op))
  <2>1. PICK x : x = op /\ x \in BitOps
    OBVIOUS
  <2> QED BY <2>1 DEF Shifts, ByteOps, BitOps, LoopbackOn, LoopbackOff, Writes, IsTms
<1>2. /\ Payload(c) \in Seq(Byte) /\ Len(Payload(c)) = (IF Writes(op) THEN 1 ELSE 0)
      /\ Payload(c) = SubSeq(c, 3, Len(c)) /\ Len(c) = 2 + (IF Writes(op) THEN 1 ELSE 0)
      /\ ShiftSize(c) = 1
  <2>1. ShiftSize(c) = 1
    BY <1>1 DEF ShiftSize
  <2>2. HeaderLen(op) = 2
    BY <1>1, ShiftPayload
  <2>3. /\ Payload(c) = SubSeq(c, HeaderLen(op) + 1, Len(c)) /\ Payload(c) \in Seq(Byte)
        /\ Len(Payload(c)) = (IF Writes(op) THEN ShiftSize(c) ELSE 0)
        /\ Len(c) = HeaderLen(op) + (IF Writes(op) THEN ShiftSize(c) ELSE 0)
    BY <1>1, ShiftPayload
  <2>4. 2 + 1 = 3
    OBVIOUS
  <2> QED BY <2>1, <2>2, <2>3, <2>4, Zenon
<1>3. Payload(c) = tx /\ tx \in Seq(Nat)
  <2>1. CASE Writes(op)
    <3>1. c \in Seq(Byte) /\ Len(c) = 3 /\ Payload(c) = SubSeq(c, 3, 3)
      BY <1>2, <2>1, CommandType
    <3>2. SubSeq(c, 3, 3) = <<c[3]>> /\ c[3] \in Byte
      <4>1. c[3] \in Byte
        <5>1. 3 \in 1 .. Len(c) /\ c \in Seq(Byte)
          BY <3>1
        <5> QED BY <5>1, ElementOfSeq
      <4>2. <<c[3]>> \in Seq(Byte) /\ Len(<<c[3]>>) = 1 /\ <<c[3]>>[1] = c[3]
        BY <4>1
      <4>3. /\ SubSeq(c, 3, 3) \in Seq(Byte) /\ Len(SubSeq(c, 3, 3)) = 1
            /\ SubSeq(c, 3, 3)[1] = c[3]
        BY <3>1, SMTT(60)
      <4>4. \A i \in 1 .. 1 : i = 1
        OBVIOUS
      <4>5. SubSeq(c, 3, 3) = <<c[3]>>
        BY <4>2, <4>3, <4>4, SeqEqual
      <4> QED BY <4>1, <4>5
    <3>3. c[3] \in Nat /\ d = c[3]
      BY <2>1, <3>2 DEF Byte
    <3>4. tx = <<d>>
      BY <2>1, Zenon
    <3>5. <<d>> \in Seq(Nat)
      BY <3>3
    <3> QED BY <3>1, <3>2, <3>3, <3>4, <3>5, Zenon
  <2>2. CASE ~Writes(op)
    BY <1>2, <2>2
  <2> QED BY <2>1, <2>2
<1>4. ShiftOp(op, d) = ShiftOp(op, IF Writes(op) THEN Payload(c)[1] ELSE 0)
  <2>1. CASE Writes(op)
    <3>1. Payload(c)[1] = d
      BY <1>3, <2>1
    <3> QED BY <2>1, <3>1
  <2>2. CASE ~Writes(op)
    BY <1>1, <2>2 DEF ShiftOp
  <2> QED BY <2>1, <2>2
<1>5. CASE loopback[cur]
  <2>1. o = [rx |-> LoopbackReply(tx, n), calls |-> exec[cur]]
    BY <1>5 DEF Outcomes
  <2>2. o.calls = exec[cur] /\ o.rx = LoopbackReply(tx, n)
    BY <2>1
  <2>3. bytes = IF ~Reads(op) THEN <<>> ELSE IF Writes(op) THEN Payload(c) ELSE Zeros(ShiftSize(c))
    <3>1. CASE Reads(op) /\ Writes(op)
      <4>1. tx = <<d>> /\ n = 1
        BY <3>1
      <4>2. LoopbackReply(tx, n) = <<d>>
        <5>1. <<d>> \in Seq({d}) /\ Len(<<d>>) = 1 /\ <<d>> # <<>>
          OBVIOUS
        <5>2. SubSeq(<<d>>, 1, 1) = <<d>>
          BY <5>1, SubSeqFull
        <5> QED BY <4>1, <5>1, <5>2, Zenon DEF LoopbackReply
      <4>3. BitReply(o.rx) = <<d>>
        BY <2>2, <4>2 DEF BitReply
      <4> QED BY <1>3, <3>1, <4>1, <4>3
    <3>2. CASE Reads(op) /\ ~Writes(op)
      <4>1. tx = <<>> /\ n = 1
        BY <3>2
      <4>2. LoopbackReply(tx, n) = Zeros(1)
        BY <4>1 DEF LoopbackReply
      <4>3. Zeros(1) = <<0>>
        BY DEF Zeros
      <4>4. BitReply(o.rx) = <<0>>
        BY <2>2, <4>2, <4>3 DEF BitReply
      <4> QED BY <1>2, <3>2, <4>3, <4>4
    <3> QED BY <3>1, <3>2
  <2>4. bytes \in Seq(Nat)
    <3>1. <<>> \in Seq(Nat) /\ Zeros(1) \in Seq(Nat)
      BY ZerosType, ByteNumbers
    <3> QED BY <1>2, <1>3, <2>3, <3>1
  <2>5. Effect(c, cur, o.calls, bytes, loopback[cur])
    <3> HIDE DEF bytes
    <3> QED BY <1>1, <1>5, <2>2, <2>3, Zenon DEF Effect
  <2> QED BY <2>4, <2>5
<1>6. CASE ~loopback[cur]
  <2>1. PICK rx \in Answers(n) :
          o = [rx |-> rx, calls |-> Append(exec[cur], ShiftCall(tx, c[2], ShiftOp(op, d), rx))]
    BY <1>6 DEF Outcomes
  <2>2. o.rx = rx /\ o.calls = Append(exec[cur], ShiftCall(Payload(c), c[2], ShiftOp(op, d), rx))
    BY <1>3, <2>1
  <2>3. n \in Nat /\ rx \in Answers(IF Reads(op) THEN ShiftSize(c) ELSE 0)
    BY <1>2, <2>1
  <2>4. bytes = IF ~Reads(op) THEN <<>> ELSE BitReply(rx)
    BY <2>2
  <2>5. bytes \in Seq(Nat)
    <3>1. BitReply(rx) \in Seq(Nat) /\ <<>> \in Seq(Nat)
      BY <2>3, <2>1, AnswersType, BitReplyType, ByteNumbers
    <3> QED BY <2>4, <3>1, Zenon
  <2>6. Effect(c, cur, o.calls, bytes, loopback[cur])
    <3> HIDE DEF bytes
    <3>1. op \in BitOps
      OBVIOUS
    <3> QED BY <1>1, <1>4, <1>6, <2>2, <2>3, <2>4, <3>1 DEF Effect
  <2> QED BY <2>5, <2>6
<1> QED BY <1>5, <1>6

\* A shift of bits is one of the abstract channel.
LEMMA ShiftBitsRefines ==
    ASSUME Inv, Inv', CommandsWellFormed, \A ch \in Channels : InSync(ch), lastCut # "head",
           ShiftBits
    PROVE  Abstract!Next
<1>1. PICK c \in Commands :
        /\ Head(data) = Head(c) /\ \A k \in 2 .. Len(c) : NextByte(k) = {c[k]}
        /\ Unexecuted(cur) = c \o Unexecuted(cur)'
        /\ \A other \in Channels \ {cur} : Unexecuted(other)' = Unexecuted(other)
        /\ UNCHANGED <<cur, inData>>
  BY CommandTaken
<1> DEFINE op == Head(c)
<1>2. /\ op \in BitOps /\ UNCHANGED loopback
      /\ cur \in Channels /\ loopback \in [Channels -> BOOLEAN] /\ rep \in Seq(Nat)
  BY <1>1, ByteNumbers DEF ShiftBits, AtCommand, chanVars, Inv, TypeOK, ChannelType, TransferType
<1>3. NextByte(2) = {c[2]} /\ (Writes(op) => NextByte(3) = {c[3]})
  <2>1. Len(c) = 2 + (IF Writes(op) THEN 1 ELSE 0)
    BY <1>2, CommandLength
  <2> QED BY <1>1, <2>1
<1>4. PICK bits \in NextByte(2), d \in NextByte(3) :
        LET tx   == IF Writes(op) THEN <<d>> ELSE <<>>
            rsiz == IF Reads(op) THEN 1 ELSE 0
        IN \E o \in Outcomes(tx, bits, ShiftOp(op, d), rsiz) :
             /\ rep' = IF Reads(op) THEN rep \o BitReply(o.rx) ELSE rep
             /\ exec' = [exec EXCEPT ![cur] = o.calls]
  BY <1>1, Zenon DEF ShiftBits
<1>5. bits = c[2] /\ (Writes(op) => d = c[3])
  BY <1>3
<1> DEFINE tx == IF Writes(op) THEN <<d>> ELSE <<>>
<1> DEFINE n == IF Reads(op) THEN 1 ELSE 0
<1>6. PICK o \in Outcomes(tx, c[2], ShiftOp(op, d), n) :
        /\ rep' = IF Reads(op) THEN rep \o BitReply(o.rx) ELSE rep
        /\ exec' = [exec EXCEPT ![cur] = o.calls]
  BY <1>4, <1>5, Zenon
<1> DEFINE bytes == IF Reads(op) THEN BitReply(o.rx) ELSE <<>>
<1>7. Effect(c, cur, o.calls, bytes, loopback[cur]) /\ bytes \in Seq(Nat)
  BY <1>2, <1>5, BitsEffect
<1>8. rep' = rep \o bytes
  <2>1. rep \o <<>> = rep
    BY <1>2, NatConcat
  <2> QED BY <1>6, <2>1, Zenon
<1>9. loopback' = [loopback EXCEPT ![cur] = loopback[cur]]
  BY <1>2
<1>10. WellFormed(c)
  BY DEF CommandsWellFormed
<1> HIDE DEF bytes, tx, n
<1> QED BY <1>1, <1>6, <1>7, <1>8, <1>9, <1>10, EffectRefines

\* A shift of bytes that came in one transfer is one of the abstract channel.
LEMMA ShiftBytesRefines ==
    ASSUME Inv, Inv', CommandsWellFormed, \A ch \in Channels : InSync(ch), lastCut # "head",
           ShiftBytes
    PROVE  Abstract!Next
<1>1. PICK c \in Commands :
        /\ Head(data) = Head(c) /\ Len(c) <= Len(data)
        /\ \A i \in 1 .. Len(c) : data[i] = c[i]
        /\ \A k \in 2 .. Len(c) : NextByte(k) = {c[k]}
        /\ Unexecuted(cur) = c \o Unexecuted(cur)'
        /\ \A other \in Channels \ {cur} : Unexecuted(other)' = Unexecuted(other)
        /\ UNCHANGED <<cur, inData>>
  BY CommandTaken
<1> DEFINE op == Head(c)
<1>2. /\ op \in ByteOps /\ UNCHANGED loopback /\ data \in Seq(Byte)
      /\ cur \in Channels /\ loopback \in [Channels -> BOOLEAN] /\ rep \in Seq(Nat)
  BY <1>1, ByteNumbers DEF ShiftBytes, AtCommand, chanVars, Inv, TypeOK, ChannelType, TransferType
<1> DEFINE k == IF Writes(op) THEN ShiftSize(c) ELSE 0
<1> DEFINE n == IF Reads(op) THEN ShiftSize(c) ELSE 0
<1>3. Len(c) = 3 + k /\ k \in Nat /\ Len(c) >= 3 /\ ByteCount(c[2], c[3]) = ShiftSize(c)
      /\ Payload(c) = SubSeq(c, 4, Len(c))
  <2>1. op \in Shifts
    BY <1>2 DEF Shifts
  <2>2. HeaderLen(op) = 3
    BY <1>2, <2>1, ShiftPayload
  <2>3. /\ Payload(c) = SubSeq(c, HeaderLen(op) + 1, Len(c)) /\ Len(c) = HeaderLen(op) + k
        /\ ShiftSize(c) \in Nat
    BY <2>1, ShiftPayload
  <2>4. k \in Nat
    BY <2>3
  <2>5. Len(c) >= 3 /\ ByteCount(c[2], c[3]) = ShiftSize(c)
    BY <1>2, CommandLength
  <2>6. 3 + 1 = 4
    OBVIOUS
  <2> HIDE DEF k
  <2> QED BY <2>2, <2>3, <2>4, <2>5, <2>6, Zenon
<1>4. NextByte(2) = {c[2]} /\ NextByte(3) = {c[3]}
  BY <1>1, <1>3, CommandType, SMTT(60)
<1>5. PICK lo \in NextByte(2), hi \in NextByte(3) :
        LET tsiz == IF Writes(op) THEN ByteCount(lo, hi) ELSE 0
            rsiz == IF Reads(op) THEN ByteCount(lo, hi) ELSE 0
        IN \E o \in Outcomes(SubSeq(data, 4, 3 + tsiz), 7, "TDI", rsiz) :
             /\ rep' = rep \o Got(rsiz, o.rx)
             /\ exec' = [exec EXCEPT ![cur] = o.calls]
  BY <1>1, ZenonT(60) DEF ShiftBytes
<1>6. ByteCount(lo, hi) = ShiftSize(c)
  BY <1>3, <1>4
<1>7. SubSeq(data, 4, 3 + k) = Payload(c)
  <2>0. c \in Seq(Byte) /\ Len(c) \in Nat /\ Len(data) \in Nat
    BY <1>2, CommandType, LenProperties
  <2>1. PICK m \in Nat : m = Len(c) /\ m <= Len(data) /\ m >= 3
    BY <1>1, <1>3, <2>0
  <2>2. \A i \in 1 .. m : data[i] = c[i]
    BY <1>1, <2>1
  <2>3. SubSeq(data, 4, m) = SubSeq(c, 4, m)
    BY <1>2, <2>0, <2>1, <2>2
  <2> HIDE DEF k
  <2> QED BY <1>3, <2>1, <2>3, Zenon
<1>8. PICK o \in Outcomes(Payload(c), 7, "TDI", n) :
        /\ rep' = rep \o Got(n, o.rx)
        /\ exec' = [exec EXCEPT ![cur] = o.calls]
  BY <1>5, <1>6, <1>7, Zenon
<1>9. Effect(c, cur, o.calls, Got(n, o.rx), loopback[cur]) /\ Got(n, o.rx) \in Seq(Nat)
  BY <1>2, BytesEffect
<1>10. loopback' = [loopback EXCEPT ![cur] = loopback[cur]]
  BY <1>2
<1>11. WellFormed(c)
  BY DEF CommandsWellFormed
<1> HIDE DEF n, k
<1> QED BY <1>1, <1>8, <1>9, <1>10, <1>11, EffectRefines

\* What completes a kept command, together with its fragment, is its payload; with the
\* header announced it is the command.
LEMMA CommandResumed ==
    ASSUME Inv, Inv', CommandsWellFormed, \A ch \in Channels : InSync(ch), ResumeComplete
    PROVE  \E c \in Commands :
             /\ Head(c) \in {\h19, \h39} /\ total[cur] = ShiftSize(c)
             /\ hasRep[cur] = (Head(c) = \h39)
             /\ Payload(c) = frag[cur] \o SubSeq(data, 1, Missing)
             /\ Missing \in 0 .. Len(data)
             /\ c = Announced(cur) \o Payload(c)
<1>0. /\ pc = "resume" /\ Len(data) >= Missing /\ cur \in Channels /\ data \in Seq(Byte)
      /\ Len(data) \in Nat /\ frag[cur] # <<>> /\ frag[cur] \in Seq(Byte)
  BY LenProperties DEF ResumeComplete, Inv, TypeOK, ChannelType, TransferType, FragmentFirst
<1>1. PICK lab \in Seq(Place), c \in Commands, m \in Nat :
        /\ Follows(lab, cur) /\ Head(c) \in {\h19, \h39}
        /\ m = Missing /\ m >= 1 /\ m <= Len(lab)
        /\ Len(c) = 3 + total[cur] /\ Len(frag[cur]) = total[cur] - m
        /\ hasRep[cur] = (Head(c) = \h39)
        /\ \A i \in 1 .. Len(frag[cur]) : frag[cur][i] = c[3 + i]
        /\ \A i \in 1 .. m : lab[i] = [cmd |-> c, at |-> 3 + Len(frag[cur]) + i]
  BY <1>0, ResumedCommand, SMTT(60)
<1>2. m <= Len(data) /\ m \in 0 .. Len(data)
  BY <1>0, <1>1
<1>3. \A i \in 1 .. m : data[i] = c[3 + Len(frag[cur]) + i]
  <2> TAKE i \in 1 .. m
  <2>1. i \in 1 .. Len(data)
    BY <1>0, <1>2
  <2>2. data[i] = Sent(lab[i]).byte
    BY <1>0, <1>1, <2>1, LabelsOfData
  <2>3. lab[i] = [cmd |-> c, at |-> 3 + Len(frag[cur]) + i]
    BY <1>1
  <2> QED BY <2>2, <2>3 DEF Sent
<1>4. /\ Head(c) \in ByteOps /\ Head(c) \in Shifts /\ Writes(Head(c)) /\ c \in Seq(Byte) /\ c # <<>>
      /\ Len(c) \in Nat
  BY <1>1, CommandType, CommandLength DEF ByteOps, Shifts, Writes
<1>5. /\ Payload(c) = SubSeq(c, 4, Len(c)) /\ Payload(c) \in Seq(Byte)
      /\ Len(Payload(c)) = ShiftSize(c) /\ ShiftSize(c) \in Nat /\ ShiftSize(c) >= 1
      /\ Len(c) = 3 + ShiftSize(c)
  <2>1. HeaderLen(Head(c)) = 3
    BY <1>4, ShiftPayload
  <2>2. /\ Payload(c) = SubSeq(c, HeaderLen(Head(c)) + 1, Len(c)) /\ Payload(c) \in Seq(Byte)
        /\ Len(Payload(c)) = (IF Writes(Head(c)) THEN ShiftSize(c) ELSE 0)
        /\ ShiftSize(c) \in Nat /\ ShiftSize(c) >= 1
        /\ Len(c) = HeaderLen(Head(c)) + (IF Writes(Head(c)) THEN ShiftSize(c) ELSE 0)
    BY <1>4, ShiftPayload
  <2>3. 3 + 1 = 4
    OBVIOUS
  <2> QED BY <1>4, <2>1, <2>2, <2>3, Zenon
<1>6. PICK z \in Nat, f \in Nat :
        z = ShiftSize(c) /\ z >= 1 /\ total[cur] = z /\ f = Len(frag[cur]) /\ z = f + m
  <2>1. total[cur] \in Nat
    BY <1>0, CountModAssumption DEF Inv, TypeOK, ChannelType
  <2>2. Len(frag[cur]) \in Nat
    BY <1>0, LenProperties
  <2> QED BY <1>1, <1>5, <2>1, <2>2, SMTT(60)
<1>7. Payload(c) = frag[cur] \o SubSeq(data, 1, m)
  <2> DEFINE p == SubSeq(data, 1, m)
  <2> DEFINE g == frag[cur]
  <2>1. p \in Seq(Byte) /\ Len(p) = m /\ \A i \in 1 .. m : p[i] = data[i]
    BY <1>0, <1>2
  <2>2. g \in Seq(Byte) /\ Len(g) = f /\ \A i \in 1 .. f : g[i] = c[3 + i]
    BY <1>0, <1>1, <1>6
  <2>3. \A i \in 1 .. m : p[i] = c[3 + f + i]
    BY <1>3, <1>6, <2>1
  <2> HIDE DEF p, g
  <2>4. /\ g \o p \in Seq(Byte) /\ Len(g \o p) = Len(g) + Len(p)
        /\ \A i \in 1 .. Len(g) : (g \o p)[i] = g[i]
        /\ \A i \in 1 .. Len(p) : (g \o p)[Len(g) + i] = p[i]
    <3>1. g \in Seq(Byte) /\ p \in Seq(Byte)
      BY <2>1, <2>2
    <3> QED BY <3>1, ConcatElements
  <2>5. \A i \in 1 .. z : Payload(c)[i] = c[3 + i]
    BY <1>4, <1>5, <1>6
  <2>6. \A i \in 1 .. z : (g \o p)[i] = c[3 + i]
    <3> TAKE i \in 1 .. z
    <3>1. CASE i \in 1 .. f
      BY <2>2, <2>4, <3>1
    <3>2. CASE i \notin 1 .. f
      <4>1. PICK j \in 1 .. m : i = f + j
        <5>1. i - f \in 1 .. m /\ i = f + (i - f)
          BY <1>6, <3>2
        <5> QED BY <5>1
      <4>2. (g \o p)[f + j] = p[j]
        BY <2>1, <2>2, <2>4
      <4>3. p[j] = c[3 + f + j] /\ 3 + f + j = 3 + i
        BY <2>3, <4>1
      <4> QED BY <4>1, <4>2, <4>3
    <3> QED BY <3>1, <3>2
  <2>7. Len(g \o p) = z /\ Len(Payload(c)) = z
    BY <1>5, <1>6, <2>1, <2>2, <2>4
  <2>8. Payload(c) = g \o p
    BY <1>5, <2>4, <2>5, <2>6, <2>7, SeqEqual, ZenonT(60)
  <2> QED BY <2>8 DEF g, p
<1>8. Announced(cur) = SubSeq(c, 1, 3)
  <2>1. /\ ShiftSize(c) = 256 * c[3] + c[2] + 1 /\ c[2] \in Byte /\ c[3] \in Byte /\ c[1] = Head(c)
    BY <1>4, CommandLength DEF ShiftSize
  <2>2. PICK lo \in Byte, hi \in Byte : lo = c[2] /\ hi = c[3]
    BY <2>1
  <2>3. PICK t \in Nat : t = 256 * hi + lo /\ t % 256 = lo /\ t \div 256 = hi
    BY DEF Byte
  <2>4. total[cur] - 1 = t
    <3>1. z = t + 1
      BY <1>6, <2>1, <2>2, <2>3, ZenonT(60) DEF Byte
    <3> QED BY <1>6, <3>1
  <2>5. (IF hasRep[cur] THEN \h39 ELSE \h19) = c[1]
    <3>1. CASE Head(c) = \h39
      BY <1>1, <2>1, <3>1, Zenon
    <3>2. CASE Head(c) # \h39
      BY <1>1, <2>1, <3>2, Zenon
    <3> QED BY <3>1, <3>2
  <2>6. Announced(cur) = <<c[1], c[2], c[3]>>
    BY <2>2, <2>3, <2>4, <2>5, ZenonT(60) DEF Announced
  <2> DEFINE u == SubSeq(c, 1, 3)
  <2> DEFINE v == <<c[1], c[2], c[3]>>
  <2>7. Len(c) >= 3
    BY <1>5
  <2>8. c[1] \in Byte
    <3>1. 1 \in 1 .. Len(c)
      BY <1>4, <2>7
    <3> QED BY <1>4, <3>1, ElementOfSeq
  <2>9. v \in Seq(Byte) /\ Len(v) = 3 /\ v[1] = c[1] /\ v[2] = c[2] /\ v[3] = c[3]
    BY <2>1, <2>8
  <2>10. u \in Seq(Byte) /\ Len(u) = 3 /\ \A i \in 1 .. 3 : u[i] = c[i]
    BY <1>4, <2>7
  <2> HIDE DEF u, v
  <2>11. \A i \in 1 .. 3 : i = 1 \/ i = 2 \/ i = 3
    OBVIOUS
  <2>12. \A i \in 1 .. 3 : u[i] = v[i]
    BY <2>9, <2>10, <2>11
  <2>13. u = v
    BY <2>9, <2>10, <2>12, SeqEqual
  <2> QED BY <2>6, <2>13 DEF u, v
<1>9. c = Announced(cur) \o Payload(c)
  <2>1. 3 \in 0 .. Len(c)
    BY <1>4, <1>5
  <2>2. c = SubSeq(c, 1, 3) \o Drop(c, 3)
    BY <1>4, <2>1, DropSplit
  <2>3. Drop(c, 3) = Payload(c)
    BY <1>5 DEF Drop
  <2> QED BY <1>8, <2>2, <2>3
<1> QED BY <1>1, <1>2, <1>6, <1>7, <1>9

\* The fragment's end and the transfer's beginning join to one payload.
LEMMA Regroup ==
    \A a, f, x, y, w \in Seq(Nat) : (a \o f) \o ((x \o y) \o w) = (a \o (f \o x)) \o (y \o w)
<1> DEFINE cat(s, t) == s \o t
<1>1. \A s, t \in Seq(Nat) : cat(s, t) \in Seq(Nat)
  BY NatConcat
<1>2. \A r, s, t \in Seq(Nat) : cat(cat(r, s), t) = cat(r, cat(s, t))
  BY NatConcat
<1> HIDE DEF cat
<1>3. \A a, f, x, y, w \in Seq(Nat) :
        cat(cat(a, f), cat(cat(x, y), w)) = cat(cat(a, cat(f, x)), cat(y, w))
  BY <1>1, <1>2
<1> QED BY <1>3 DEF cat

\* The transfer that completes a kept command executes it.
LEMMA ResumeCompleteRefines ==
    ASSUME Inv, Inv', CommandsWellFormed, \A ch \in Channels : InSync(ch), ResumeComplete
    PROVE  Abstract!Next
<1>1. PICK c \in Commands :
        /\ Head(c) \in {\h19, \h39} /\ total[cur] = ShiftSize(c)
        /\ hasRep[cur] = (Head(c) = \h39)
        /\ Payload(c) = frag[cur] \o SubSeq(data, 1, Missing)
        /\ Missing \in 0 .. Len(data)
        /\ c = Announced(cur) \o Payload(c)
  BY CommandResumed
<1>2. /\ cur \in Channels /\ data \in Seq(Byte) /\ frag[cur] \in Seq(Byte) /\ frag[cur] # <<>>
      /\ frag \in [Channels -> Seq(Byte)] /\ loopback \in [Channels -> BOOLEAN]
      /\ frag' = [frag EXCEPT ![cur] = <<>>] /\ data' = Drop(data, Missing)
      /\ UNCHANGED <<total, hasRep, loopback, cur, wire, inData>>
  BY DEF ResumeComplete, ClearFragment, Consume, hostVars, Inv, TypeOK, ChannelType, TransferType,
         FragmentFirst
<1> DEFINE rsiz == IF hasRep[cur] THEN total[cur] ELSE 0
<1>3. PICK o \in Outcomes(frag[cur] \o SubSeq(data, 1, Missing), 7, "TDI", rsiz) :
        /\ rep' = rep \o Got(rsiz, o.rx)
        /\ exec' = [exec EXCEPT ![cur] = o.calls]
  BY Zenon DEF ResumeComplete
<1>4. Head(c) \in ByteOps /\ rsiz = (IF Reads(Head(c)) THEN ShiftSize(c) ELSE 0)
  <2>1. PICK op : op = Head(c) /\ op \in {\h19, \h39}
    BY <1>1
  <2>2. op \in ByteOps /\ (Reads(op) <=> op = \h39)
    BY <2>1 DEF ByteOps, Reads
  <2>3. CASE op = \h39
    BY <1>1, <2>1, <2>2, <2>3, Zenon
  <2>4. CASE op # \h39
    BY <1>1, <2>1, <2>2, <2>4, Zenon
  <2> QED BY <2>3, <2>4
<1>5. Effect(c, cur, o.calls, Got(rsiz, o.rx), loopback[cur]) /\ Got(rsiz, o.rx) \in Seq(Nat)
  <2>1. o \in Outcomes(Payload(c), 7, "TDI", rsiz)
    BY <1>1, <1>3, Zenon
  <2> HIDE DEF rsiz
  <2> QED BY <1>4, <2>1, BytesEffect
<1>6. Unexecuted(cur) = c \o Unexecuted(cur)'
  <2> DEFINE p == SubSeq(data, 1, Missing)
  <2> DEFINE q == Drop(data, Missing)
  <2>1. data = p \o q /\ p \in Seq(Byte) /\ q \in Seq(Byte)
    <3>1. data = p \o q
      BY <1>1, <1>2, DropSplit
    <3>2. PICK m \in Nat : m = Missing /\ m <= Len(data)
      BY <1>1, <1>2
    <3>3. SubSeq(data, 1, m) \in Seq(Byte)
      BY <1>2, <3>2
    <3>4. Drop(data, m) \in Seq(Byte)
      BY <1>2, <3>2, DropType
    <3> QED BY <3>1, <3>2, <3>3, <3>4
  <2>2. Unexecuted(cur)' = q \o Bytes(wire[cur])
    <3>1. Unexecuted(cur)' = OpenCommand(cur)' \o (Held(cur)' \o Bytes(wire[cur])')
      BY <1>2, PartsTypeNext
    <3>2. OpenCommand(cur)' = <<>> /\ Held(cur)' = q /\ Bytes(wire[cur])' = Bytes(wire[cur])
      BY <1>2 DEF OpenCommand, Held
    <3>3. q \o Bytes(wire[cur]) \in Seq(Nat)
      BY <1>2, <2>1, PartsType, ByteNumbers, NatConcat
    <3> QED BY <3>1, <3>2, <3>3, NatConcat
  <2>3. Unexecuted(cur) = (Announced(cur) \o frag[cur]) \o (data \o Bytes(wire[cur]))
    <3>1. Unexecuted(cur) = OpenCommand(cur) \o (Held(cur) \o Bytes(wire[cur]))
      BY <1>2, PartsType
    <3>2. OpenCommand(cur) = Announced(cur) \o frag[cur] /\ Held(cur) = data
      BY <1>2, AnnouncedType DEF Held
    <3> QED BY <3>1, <3>2, Zenon
  <2> HIDE DEF p, q
  <2>4. PICK a, f, x, y, w :
          /\ a = Announced(cur) /\ f = frag[cur] /\ x = p /\ y = q /\ w = Bytes(wire[cur])
          /\ a \in Seq(Nat) /\ f \in Seq(Nat) /\ x \in Seq(Nat) /\ y \in Seq(Nat) /\ w \in Seq(Nat)
    BY <1>2, <2>1, AnnouncedType, PartsType, ByteNumbers, SMTT(40)
  <2>5. /\ c = a \o (f \o x) /\ Unexecuted(cur)' = y \o w
        /\ Unexecuted(cur) = (a \o f) \o ((x \o y) \o w)
    BY <1>1, <2>1, <2>2, <2>3, <2>4, Zenon DEF p
  <2>6. (a \o f) \o ((x \o y) \o w) = (a \o (f \o x)) \o (y \o w)
    <3>1. \A g, r, s, t \in Seq(Nat) : (a \o g) \o ((r \o s) \o t) = (a \o (g \o r)) \o (s \o t)
      BY <2>4, Regroup, Zenon
    <3>2. \A s, t \in Seq(Nat) : (a \o f) \o ((x \o s) \o t) = (a \o (f \o x)) \o (s \o t)
      BY <2>4, <3>1, ZenonT(60)
    <3> QED BY <2>4, <3>2, Zenon
  <2> QED BY <2>5, <2>6, Zenon
<1>7. ASSUME NEW other \in Channels \ {cur} PROVE Unexecuted(other)' = Unexecuted(other)
  <2>1. Held(other)' = Held(other)
    BY <1>2 DEF Held
  <2>2. frag'[other] = frag[other]
    BY <1>2
  <2> QED BY <1>2, <2>1, <2>2, PartsUnchanged
<1>8. loopback' = [loopback EXCEPT ![cur] = loopback[cur]]
  BY <1>2
<1>9. WellFormed(c)
  BY DEF CommandsWellFormed
<1> HIDE DEF rsiz
<1> QED BY <1>2, <1>3, <1>5, <1>6, <1>7, <1>8, <1>9, EffectRefines

-----------------------------------------------------------------------------
(* The refinement. *)

\* The device begins as the abstract channel does.
LEMMA InitRefines == Init => Abstract!Init
<1> SUFFICES ASSUME Init PROVE Abstract!Init
  OBVIOUS
<1>1. \A ch \in Channels : Unexecuted(ch) = <<>>
  <2> TAKE ch \in Channels
  <2>1. OpenCommand(ch) = <<>> /\ (IF ch = cur THEN data ELSE <<>>) = <<>>
    BY DEF Init, OpenCommand
  <2>2. Bytes(wire[ch]) = <<>>
    <3>1. wire[ch] = <<>>
      BY DEF Init
    <3>2. Bytes(<<>>) \in Seq(Byte) /\ Len(Bytes(<<>>)) = 0
      BY DEF Bytes
    <3> QED BY <3>1, <3>2
  <2>3. <<>> \o <<>> = <<>> /\ <<>> \in Seq(Nat)
    OBVIOUS
  <2> QED BY <2>1, <2>2, <2>3, Zenon DEF Unexecuted
<1>2. \A ch \in Channels : Unread(ch) = <<>>
  <2> TAKE ch \in Channels
  <2>1. inData[ch] = <<>> /\ (IF ch = cur THEN rep ELSE <<>>) = <<>>
    BY DEF Init
  <2>2. FlattenSeq(<<>>) = <<>>
    <3>1. <<>> \in Seq(Seq(Nat))
      OBVIOUS
    <3> QED BY <3>1, FlattenType
  <2>3. <<>> \o <<>> = <<>>
    OBVIOUS
  <2> QED BY <2>1, <2>2, <2>3, Zenon DEF Unread
<1>3. [ch \in Channels |-> Unexecuted(ch)] = [ch \in Channels |-> <<>>]
  BY <1>1
<1>4. [ch \in Channels |-> Unread(ch)] = [ch \in Channels |-> <<>>]
  BY <1>2
<1>5. exec = [ch \in Channels |-> <<>>] /\ loopback = [ch \in Channels |-> ch \notin Adapters]
  BY DEF Init
<1> QED BY <1>3, <1>4, <1>5 DEF Abstract!Init

\* The abstract interpreter's step, or none, for every step of the device and the host.
LEMMA StepRefines ==
    ASSUME CommandsWellFormed, Cuts \cap {"head", "gap", "rwbody"} = {}, "Abandon" \notin Faults,
           Inv, Inv', SyncInv, Quiet, [Next]_vars
    PROVE  Abstract!Next \/ UNCHANGED Abstract!vars
<1>1. lastCut \notin {"head", "gap", "rwbody"} /\ lastCut # "abandoned"
  BY DEF SyncInv, Quiet
<1>2. ASSUME NEW ch \in Channels, Deliver(ch) PROVE UNCHANGED Abstract!vars
  <2>1. data = <<>>
    BY <1>2 DEF Deliver, SyncInv
  <2> QED BY <1>2, <2>1, DeliverRefines
<1>3. ASSUME NEW ch \in Channels, ResetPort(ch) PROVE FALSE
  BY <1>3 DEF ResetPort
<1>4. ASSUME NEW ch \in Channels, HostRead(ch) PROVE Abstract!Next \/ UNCHANGED Abstract!vars
  BY <1>4, HostReadRefines
<1>5. ASSUME NEW ch \in Channels, NEW c \in Commands, Issue(ch, c) PROVE Abstract!Next
  BY <1>5, IssueRefines
<1>6. ASSUME Handler PROVE Abstract!Next \/ UNCHANGED Abstract!vars
  <2>1. \A ch \in Channels : InSync(ch)
    <3>1. pc # "halted"
      BY <1>6 DEF Handler, ResumePartial, ResumeComplete, SkipCommand, SyncCommand,
                  LoopbackCommand, SetPort, ShiftBits, ShiftBytes, BreakBytes, Finish, Throw,
                  AtCommand, WrongMode, Unsupported, AdapterError
    <3> QED BY <1>1, <3>1 DEF SyncInv
  <2>2. lastCut # "head"
    BY <1>1
  <2>3. CASE Finish
    BY <2>3, FinishRefines
  <2>4. CASE Throw
    BY <2>4, OtherRefines
  <2>5. CASE ResumePartial
    BY <2>5, ResumePartialRefines
  <2>6. CASE ResumeComplete
    BY <2>1, <2>6, ResumeCompleteRefines
  <2>7. CASE BreakBytes
    BY <1>1, <2>1, <2>7, BreakBytesRefines
  <2>8. CASE SkipCommand
    BY <2>1, <2>2, <2>8, SkipCommandRefines
  <2>9. CASE SyncCommand
    BY <2>1, <2>2, <2>9, SyncCommandRefines
  <2>10. CASE LoopbackCommand
    BY <2>1, <2>2, <2>10, LoopbackCommandRefines
  <2>11. CASE SetPort
    BY <2>1, <2>2, <2>11, SetPortRefines
  <2>12. CASE ShiftBits
    BY <2>1, <2>2, <2>12, ShiftBitsRefines
  <2>13. CASE ShiftBytes
    BY <2>1, <2>2, <2>13, ShiftBytesRefines
  <2> QED BY <1>6, <2>3, <2>4, <2>5, <2>6, <2>7, <2>8, <2>9, <2>10, <2>11, <2>12, <2>13 DEF Handler
<1>7. CASE EmptyTransfer \/ (\E r \in Requests : HandleEP0(r)) \/ UNCHANGED vars
  BY <1>7, OtherRefines
<1> QED BY <1>2, <1>3, <1>4, <1>5, <1>6, <1>7 DEF Next, Host

\* The device implements the interpreter of the uncut stream: whatever well-formed commands
\* the host writes, however the USB stack cuts them where the handler can carry a command
\* over (between commands and inside the payload of a write-only one), every adapter call
\* and every reply byte is one the interpreter of the whole stream may give, in its order.
THEOREM ImplementsStream ==
    ASSUME CommandsWellFormed, Cuts \cap {"head", "gap", "rwbody"} = {}, "Abandon" \notin Faults
    PROVE  Spec => StreamSpec
<1>1. Init => Abstract!Init
  BY InitRefines
<1>2. Inv /\ Inv' /\ SyncInv /\ Quiet /\ [Next]_vars => [Abstract!Next]_(Abstract!vars)
  BY StepRefines, Zenon
<1>3. Spec => []SyncInv
  <2>1. "gap" \notin Cuts
    OBVIOUS
  <2> QED BY <2>1, KeepsInStep
<1>4. Spec => []Inv
  BY Invariance
<1>5. Init => Quiet
  BY QuietInit
<1>6. Inv /\ Quiet /\ [Next]_vars => Quiet'
  BY QuietNext
<1> QED
  BY <1>1, <1>2, <1>3, <1>4, <1>5, <1>6, PTL DEF Spec, StreamSpec, Abstract!Spec
=============================================================================
