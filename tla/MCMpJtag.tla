------------------------------ MODULE MCMpJtag ------------------------------
(***************************************************************************)
(* Small scan chains and scripts for TLC.                                  *)
(***************************************************************************)
EXTENDS MpJtag

One == <<[ir |-> 8, id |-> <<1, 0, 0, 1, 1, 0, 1>>]>>

ToRTI == [op |-> "toRTI"]
Shift(op, b, lst) == [op |-> op, b |-> b, lst |-> lst]

\* Last bytes of every length, and one with bits above lst.
ScriptCalls ==
    {ToRTI, Shift("shiftIR", <<\h32>>, 8), Shift("shiftDR", <<\hb4, 0>>, 7),
     Shift("shiftDR", <<\h39, \hff>>, 4)} \cup
    {Shift(op, b, lst) : op \in {"shiftIR", "shiftDR"},
                         b \in {<<1>>, <<\h39, \h6c, 1>>}, lst \in {1, 2, 8}}
=============================================================================
