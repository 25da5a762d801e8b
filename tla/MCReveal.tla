------------------------------ MODULE MCReveal ------------------------------
(***************************************************************************)
(* Small top-level files and settings for TLC.                             *)
(***************************************************************************)
EXTENDS Reveal

TwoPorts == {"jtck", "jtdi"}

Net(n, emu) == [name |-> n, emu |-> emu]
Item(k) == [kind |-> k, map |-> <<>>]
Connected(k, ports, emu) == [kind |-> k, map |-> [p \in ports |-> Net(p, emu)]]

H19 == Connected("H19", TwoPorts, FALSE)
Soft == Connected("H19SOFT", TwoPorts, FALSE)
SoftLacking == Connected("H19SOFT", {"jtck"}, FALSE)
Emul == Connected("H19EMUL", TwoPorts, TRUE)
EmulMore == [Emul EXCEPT !.map =
               [p \in TwoPorts \cup {"clk"} |-> Net(p, TRUE)]]
Logic == [kind |-> "logic", map |-> [p \in {"clk"} |-> Net("clk", TRUE)]]

List(decls) ==
    <<Item("(")>> \o [i \in 1 .. (2 * Len(decls) - 1) |->
                        IF i % 2 = 0 THEN Item(",") ELSE Item(decls[(i + 1) \div 2])]
                  \o <<Item(")")>>

Lists == {List(d) : d \in {<<"tap">>, <<"port">>, <<"tap", "port">>, <<"port", "tap", "tap">>,
                           <<"tap", "tap">>, <<"tap", "tap", "port">>, <<"port", "tap", "port">>,
                           <<"tap", "port", "tap">>}}

VerilogFiles ==
    {l \o <<Emul, Logic, Soft>> : l \in Lists}
      \cup {List(<<"port", "tap">>) \o b :
              b \in {<<Emul, H19>>, <<SoftLacking, Emul>>, <<Emul, Logic>>, <<Soft, Logic>>, <<H19, EmulMore>>}}

VhdlFiles ==
    {List(<<"port">>) \o b :
       b \in {<<Logic, Emul, Soft>>, <<H19, EmulMore>>, <<Emul, Logic>>, <<Soft, Logic>>}}

Files == [v |-> VerilogFiles, vhd |-> VhdlFiles, sv |-> {List(<<"port">>) \o <<Soft, Emul>>}]

ByHand == <<Logic, Emul>>

Usual == [skip |-> FALSE, hck |-> Absent, otherHck |-> FALSE, named |-> "top",
          editor |-> "rvl_edit.py", hack |-> Absent]

SomeSettings ==
    {Usual, [Usual EXCEPT !.skip = TRUE, !.hck = ByHand], [Usual EXCEPT !.hck = ByHand, !.named = "unset"],
     [Usual EXCEPT !.otherHck = TRUE], [Usual EXCEPT !.named = "unset"], [Usual EXCEPT !.named = "wrong"],
     [Usual EXCEPT !.editor = "missing"], [Usual EXCEPT !.editor = "rvl_cpy.sh"],
     [Usual EXCEPT !.editor = "rvl_cpy.sh", !.hack = ByHand]}
=============================================================================
