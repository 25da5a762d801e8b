--------------------------- MODULE MCVirtualFTDI ---------------------------
(***************************************************************************)
(* Small instances of VirtualFTDI for TLC: command alphabets (the payload  *)
(* bytes are themselves opcodes, so that a payload taken for commands      *)
(* shows) and vendor requests.                                             *)
(***************************************************************************)
EXTENDS VirtualFTDIStream

\* One command of every class, payloads of up to three bytes.
Everything == {
    <<\h00>>, <<\haa>>, <<\h8a>>, <<\h84>>, <<\h85>>, <<\h87>>,
    <<\h86, 1, 0>>, <<\h80, \h08, \h0b>>, <<\h82, 0, 0>>,
    <<\h1b, 2, \haa>>, <<\h4b, 4, \h03>>, <<\h2e, 1>>, <<\h6b, 2, \h83>>,
    <<\h19, 2, 0, \haa, \h84, \h85>>, <<\h39, 1, 0, \haa, \hab>>, <<\h2c, 1, 0>>}

\* The commands the fragments interact with.
Writers == {
    <<\haa>>, <<\h84>>, <<\h85>>, <<\h80, \h08, \h0b>>, <<\h3b, 2, \haa>>,
    <<\h19, 2, 0, \haa, \h84, \h85>>, <<\h39, 0, 0, \hab>>}

Split == {<<\haa>>, <<\h19, 1, 0, \haa, \hab>>}
SplitRead == {<<\haa>>, <<\h39, 1, 0, \haa, \hab>>}
Overflowing == {<<\haa>>, <<\h19, 3, 0, \haa, \haa, \haa, \haa>>}

Vendor(dir, q, index, value, length) ==
    [type |-> "vendor", recipient |-> "device", dir |-> dir, request |-> q,
     index |-> index, value |-> value, length |-> length]

ModeRequests(n) == {Vendor("out", SetBitMode, ch, 256 * MpsseMode, 0) : ch \in 1 .. n}

\* Set and leave MPSSE mode, reset, read the latency timer, name a port that is not there.
SomeRequests == ModeRequests(2) \cup {
    Vendor("out", SetBitMode, 1, 0, 0), Vendor("out", \h00, 1, 0, 0),
    Vendor("out", SetBitMode, 0, 256 * MpsseMode, 0), Vendor("in", \h0a, 1, 0, 1)}

\* Also what handleXferEP0 refuses.
AllRequests == SomeRequests \cup {
    Vendor("in", \h05, 1, 0, 1), Vendor("out", \h90, 1, 0, 0),
    [Vendor("out", \h00, 1, 0, 0) EXCEPT !.type = "class"],
    [Vendor("out", \h00, 1, 0, 0) EXCEPT !.recipient = "interface"]}

Tdos == {1, 2}
OneTdo == {1}
Requests2 == ModeRequests(2)
Requests1 == ModeRequests(1)
StrayBytes == {0, 1, \h85}
=============================================================================
