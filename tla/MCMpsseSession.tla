--------------------------- MODULE MCMpsseSession ---------------------------
(***************************************************************************)
(* Small instances of MpsseSession for TLC.                                *)
(***************************************************************************)
EXTENDS MpsseSession, MCVirtualFTDI

Mask == \h0b
SessionCommands == Writers \cup {<<PortLow, 0, Mask>>}
SessionRequests ==
    {Vendor("out", q, ch, 0, 0) : ch \in 1 .. 2, q \in {\h06, \h07}}
    \cup {Vendor("out", \h00, ch, v, 0) : ch \in 1 .. 2, v \in 0 .. 2}
    \cup {Vendor("out", \h09, ch, 1, 0) : ch \in 1 .. 2}
    \cup {Vendor("out", SetBitMode, ch, 256 * m + Mask, 0) : ch \in 1 .. 2, m \in {0, MpsseMode}}
=============================================================================
