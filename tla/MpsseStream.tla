---------------------------- MODULE MpsseStream ----------------------------
(***************************************************************************)
(* What a channel of the virtual FTDI promises its host, whatever USB      *)
(* transfers the bytes travel in: the bytes written to a channel are a     *)
(* stream of MPSSE commands; each command is executed once, whole and in   *)
(* order; the replies form one stream too.                                 *)
(***************************************************************************)
EXTENDS Mpsse

CONSTANTS
    Channels,    \* the channels of the device
    Adapters,    \* those with a JTAG adapter behind them
    Commands     \* encoded commands the host may write

VARIABLES
    stream,      \* [Channels -> Seq(Byte)]: written and not yet executed
    exec,        \* [Channels -> Seq(call)]: what the adapter was made to do
    reply,       \* [Channels -> Seq(Byte)]: answered and not yet read by the host
    loop         \* [Channels -> BOOLEAN]: internal loopback

vars == <<stream, exec, reply, loop>>

Init ==
    /\ stream = [ch \in Channels |-> <<>>]
    /\ exec = [ch \in Channels |-> <<>>]
    /\ reply = [ch \in Channels |-> <<>>]
    /\ loop = [ch \in Channels |-> ch \notin Adapters]

Write(ch, c) ==
    /\ stream' = [stream EXCEPT ![ch] = @ \o c]
    /\ UNCHANGED <<exec, reply, loop>>

\* In loopback a shift answers with what was written, zeros if nothing was.
Echo(ch) ==
    LET s == stream[ch] IN
    /\ loop[ch]
    /\ Reads(Head(s))
         => reply' = [reply EXCEPT ![ch] = @ \o IF Writes(Head(s)) THEN Payload(s)
                                                ELSE Zeros(ShiftSize(s))]
    /\ ~Reads(Head(s)) => UNCHANGED reply
    /\ UNCHANGED exec

Shift(ch) ==
    LET s   == stream[ch]
        op  == Head(s)
        tx  == Payload(s)
        out == IF op \in ByteOps THEN [bits |-> 7, shift |-> "TDI"]
               ELSE [bits |-> s[2], shift |-> ShiftOp(op, IF Writes(op) THEN tx[1] ELSE 0)]
    IN /\ ~loop[ch]
       /\ \E rx \in Answers(IF Reads(op) THEN ShiftSize(s) ELSE 0) :
            /\ exec' = [exec EXCEPT ![ch] = Append(@, ShiftCall(tx, out.bits, out.shift, rx))]
            /\ reply' = IF ~Reads(op) THEN reply
                        ELSE [reply EXCEPT ![ch] = @ \o IF op \in BitOps THEN BitReply(rx) ELSE rx]

\* Commands that do not shift: synchronise, set the port, switch the loopback.
Configure(ch) ==
    LET s == stream[ch]  op == Head(s) IN
    /\ reply' = IF op \in Sync THEN [reply EXCEPT ![ch] = @ \o <<\hfa, op>>] ELSE reply
    /\ exec' = IF op = PortLow /\ ch \in Adapters
               THEN [exec EXCEPT ![ch] = Append(@, PortCall(s[2]))] ELSE exec

Execute(ch) ==
    LET s == stream[ch] IN
    /\ Complete(s)
    /\ stream' = [stream EXCEPT ![ch] = Drop(s, CommandLen(s))]
    /\ IF Head(s) \in Shifts THEN Echo(ch) \/ Shift(ch) ELSE Configure(ch)
    /\ loop' = IF Head(s) = LoopbackOn THEN [loop EXCEPT ![ch] = TRUE]
               ELSE IF Head(s) = LoopbackOff THEN [loop EXCEPT ![ch] = ch \notin Adapters]
               ELSE loop

Read(ch) ==
    /\ \E n \in 1 .. Len(reply[ch]) : reply' = [reply EXCEPT ![ch] = Drop(@, n)]
    /\ UNCHANGED <<stream, exec, loop>>

Next == \E ch \in Channels :
    \/ \E c \in Commands : Write(ch, c)
    \/ Execute(ch)
    \/ Read(ch)

Spec == Init /\ [][Next]_vars
=============================================================================
