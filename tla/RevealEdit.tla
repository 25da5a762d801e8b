----------------------------- MODULE RevealEdit -----------------------------
(***************************************************************************)
(* What rvl_edit.py does to the top-level file the Reveal tool generates.  *)
(* The tool puts an instance of the hard JTAG block (JTAGH19) or of its    *)
(* soft stand-in (JTAGH19SOFT) into it; the editor has the design's own    *)
(* JTAGH19EMUL take that instance's place.                                 *)
(*                                                                         *)
(* A file is a sequence of items, an item has a kind and a map:            *)
(*   "H19", "H19SOFT", "H19EMUL", "logic": an instance; its map says which *)
(*       net each port is connected to, a net is a name with or without    *)
(*       the suffix "emu";                                                 *)
(*   "(", ",", ")", "tap", "port": the top level's port list; "tap" is a   *)
(*       declaration of TCK, TMS, TDI or TDO, "port" one of the user's.    *)
(***************************************************************************)
EXTENDS Integers, Sequences

CONSTANT Ports     \* plst: the ports of the JTAG block

Originals == {"H19", "H19SOFT"}
Emulation == {"H19EMUL"}

Of(f, kinds) == {i \in DOMAIN f : f[i].kind \in kinds}

\* re.search: the first instance of one of the kinds.
First(f, kinds) == f[CHOOSE i \in Of(f, kinds) : \A j \in Of(f, kinds) : i <= j]

Without(f, gone) ==
    LET kept[n \in 0 .. Len(f)] ==
            IF n = 0 THEN <<>>
            ELSE IF n \in gone THEN kept[n - 1] ELSE Append(kept[n - 1], f[n])
    IN kept[Len(f)]

-----------------------------------------------------------------------------
\* VHDL: the instance goes, and the nets named after it are connected instead.
Unsuffixed(net) == [net EXCEPT !.emu = @ /\ net.name \notin Ports]

Suffixed(item) == \E p \in DOMAIN item.map : item.map[p] # Unsuffixed(item.map[p])

VhdlRefuses(f) == Of(f, Originals) = {} \/ ~\E i \in DOMAIN f : Suffixed(f[i])

VhdlEdited(f) ==
    LET rest == Without(f, Of(f, Originals))
    IN [n \in DOMAIN rest |->
          [rest[n] EXCEPT !.map = [p \in DOMAIN @ |-> Unsuffixed(@[p])]]]

-----------------------------------------------------------------------------
\* Verilog: the emulation is connected as the first of the originals is.
VerilogRefuses(f) == Of(f, Originals) = {} \/ Of(f, Emulation) = {}

\* m.group(1) of a port that was not found.
VerilogRaises(f) == ~ Ports \subseteq DOMAIN First(f, Originals).map

OwnMap(f) == First(f, Emulation)
Remapped(f) ==
    [First(f, Emulation) EXCEPT !.map =
        [p \in DOMAIN @ |-> IF p \in Ports THEN First(f, Originals).map[p] ELSE @[p]]]

OnlyLeading(f) ==
    {i \in Of(f, {","}) : i < Len(f) /\ f[i + 1].kind = "tap"}

\* The commas that go with a declaration: the one behind it when it is the first
\* of the list, or else the one in front of it.
EatenCommas(f) ==
    {i \in Of(f, {","}) : \/ i > 2 /\ f[i - 2].kind = "(" /\ f[i - 1].kind = "tap"
                          \/ i < Len(f) /\ f[i + 1].kind = "tap"}

VerilogEdited(f) ==
    Without([i \in DOMAIN f |-> IF i \in Of(f, Emulation) THEN Remapped(f) ELSE f[i]],
            Of(f, {"H19SOFT", "tap"}) \cup EatenCommas(f))

-----------------------------------------------------------------------------
\* The suffix of the file's name chooses the editor; NoH19Error refuses the file,
\* any other exception ends the editor; the file is left alone by both.
Refuses(suffix, f) ==
    \/ suffix = "v" /\ VerilogRefuses(f)
    \/ suffix = "vhd" /\ VhdlRefuses(f)

Raises(suffix, f) ==
    \/ suffix \notin {"v", "vhd"}
    \/ suffix = "v" /\ ~ VerilogRefuses(f) /\ VerilogRaises(f)

Edited(suffix, f) == IF suffix = "v" THEN VerilogEdited(f) ELSE VhdlEdited(f)
=============================================================================
