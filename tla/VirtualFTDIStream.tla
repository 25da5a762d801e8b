------------------------- MODULE VirtualFTDIStream -------------------------
(***************************************************************************)
(* VirtualFTDI implements MpsseStream.  A channel's stream is the command  *)
(* whose payload is incomplete, the rest of the transfer being handled and *)
(* what the USB stack still holds; its replies are the buffers waiting on  *)
(* the IN endpoint and the one being put together.                         *)
(***************************************************************************)
EXTENDS VirtualFTDI, SequencesExt

\* The header and the bytes of a command of which only a fragment has arrived.
OpenCommand(ch) ==
    IF frag[ch] = <<>> THEN <<>>
    ELSE <<IF hasRep[ch] THEN \h39 ELSE \h19, (total[ch] - 1) % 256, (total[ch] - 1) \div 256>>
           \o frag[ch]

Unexecuted(ch) == OpenCommand(ch) \o (IF ch = cur THEN data ELSE <<>>) \o Bytes(wire[ch])

Unread(ch) == FlattenSeq(inData[ch]) \o (IF ch = cur THEN rep ELSE <<>>)

Abstract == INSTANCE MpsseStream WITH
    stream <- [ch \in Channels |-> Unexecuted(ch)],
    reply  <- [ch \in Channels |-> Unread(ch)],
    loop   <- loopback

\* Every step of the device is a step of the abstract command interpreter or changes
\* nothing it can see: how the bytes are cut into transfers does not matter.
StreamSpec == Abstract!Spec
=============================================================================
