------------------------------- MODULE Reveal -------------------------------
(***************************************************************************)
(* The Reveal flow: istflow.sh, which Radiant runs in place of istflow.    *)
(* It runs the tool, which writes the top-level file, keeps a copy of that *)
(* file and has an editor (rvl_edit.py, or rvl_cpy.sh) change it in place. *)
(* Synthesis may be aborted at any time and started again; the files stay. *)
(*                                                                         *)
(* The tool is external: a run of it writes the file anew, or fails and    *)
(* leaves what was there, or a part.  Nobody looks at its exit status.     *)
(***************************************************************************)
EXTENDS RevealEdit

CONSTANTS
    Absent,      \* stands for a file that does not exist
    Outputs,     \* by suffix, the files the tool may write
    Settings,    \* what the user may set up for a run, see Start
    MaxRuns      \* bound: runs of istflow.sh

VARIABLES
    suffix,      \* of the top-level file's name: "v", "vhd" or another
    top, orig,   \* the file, and the file .orig beside it
    setting,     \* the user's files and variables of this run
    pc,          \* where the script is
    text,        \* blob: the edited text, while it is written back
    tool,        \* (ghost) the file as the tool left it in this run
    fresh,       \* (ghost) what the tool wrote last, if nothing but whole runs
                 \*   of rvl_edit.py happened to the file since, or Absent
    result,      \* (ghost) how the last run ended
    runs         \* runs so far

vars == <<suffix, top, orig, setting, pc, text, tool, fresh, result, runs>>

Beginnings(f) == {SubSeq(f, 1, n) : n \in 0 .. (Len(f) - 1)}

End(r) == pc' = "idle" /\ result' = r
Goto(p) == pc' = p /\ UNCHANGED result

-----------------------------------------------------------------------------
\* skip: there is a skip_rvl_edit; hck, otherHck: a .hck file of the top-level
\* file, one of another file; named: REVEAL_TOP; editor: REVEAL_EDITOR, or the
\* one that is installed; hack: rvl_cpy.sh's .hack file.
Start ==
    /\ pc = "idle" /\ runs < MaxRuns
    /\ \E s \in Settings : setting' = s
    /\ runs' = runs + 1
    /\ Goto("istflow")
    /\ UNCHANGED <<suffix, top, orig, text, tool, fresh>>

Istflow ==
    /\ pc = "istflow"
    /\ \/ \E f \in Outputs[suffix] : top' = f /\ fresh' = f
       \/ \E f \in Outputs[suffix] : top' \in Beginnings(f) /\ fresh' = Absent
       \/ UNCHANGED <<top, fresh>>
    /\ tool' = top'
    /\ Goto("checks")
    /\ UNCHANGED <<suffix, orig, setting, text, runs>>

Hacked == setting.hck # Absent \/ setting.otherHck

\* The exits of the script before it touches anything.
Leave ==
    /\ pc = "checks"
    /\ \/ setting.skip /\ End("skipped")
       \/ ~ setting.skip /\ Hacked /\ setting.hck = Absent /\ End("skipped")
       \/ ~ setting.skip /\ ~ Hacked /\ setting.named = "unset" /\ End("skipped")
       \/ /\ ~ setting.skip /\ ~ Hacked
          /\ setting.named = "wrong" \/ (setting.named = "top" /\ top = Absent)
          /\ End("missing")
    /\ UNCHANGED <<suffix, top, orig, setting, text, tool, fresh, runs>>

\* cp of the .hck file over the top-level file.
UseHck ==
    /\ pc = "checks" /\ ~ setting.skip /\ setting.hck # Absent
    /\ top' = setting.hck
    /\ fresh' = Absent
    /\ End("hacked")
    /\ UNCHANGED <<suffix, orig, setting, text, tool, runs>>

\* Line 102, and the checks before it that let it pass.
Copying ==
    /\ pc = "checks" /\ ~ setting.skip /\ ~ Hacked
    /\ setting.named = "top" /\ top # Absent
    /\ Goto("editor")
    /\ UNCHANGED <<suffix, top, setting, text, tool, fresh, runs>>

OrigIfNone == Copying /\ orig' = IF orig = Absent THEN top ELSE orig
CopyOrig == Copying /\ orig' = top

NoEditor ==
    /\ pc = "editor" /\ setting.editor = "missing"
    /\ End("failed")
    /\ UNCHANGED <<suffix, top, orig, setting, text, tool, fresh, runs>>

\* rvl_cpy.sh
RvlCpy ==
    /\ pc = "editor" /\ setting.editor = "rvl_cpy.sh"
    /\ \/ setting.hack = Absent /\ End("left") /\ UNCHANGED <<top, fresh>>
       \/ setting.hack # Absent /\ top' = setting.hack /\ fresh' = Absent /\ End("replaced")
    /\ UNCHANGED <<suffix, orig, setting, text, tool, runs>>

\* rvl_edit.py reads the file and edits the text.
EditBlob ==
    /\ pc = "editor" /\ setting.editor = "rvl_edit.py"
    /\ \/ Refuses(suffix, top) /\ End("refused") /\ UNCHANGED text
       \/ Raises(suffix, top) /\ End("failed") /\ UNCHANGED text
       \/ /\ ~ Refuses(suffix, top) /\ ~ Raises(suffix, top)
          /\ text' = Edited(suffix, top) /\ Goto("truncate")
    /\ UNCHANGED <<suffix, orig, setting, tool, fresh, runs>>

TruncateFirst == EditBlob /\ top' = <<>>
EditText == EditBlob /\ UNCHANGED top

NoTruncate ==
    /\ pc = "truncate" /\ Goto("write")
    /\ UNCHANGED <<suffix, top, orig, setting, text, tool, fresh, runs>>

Truncate ==
    /\ pc = "truncate"
    /\ top' = <<>>
    /\ Goto("write")
    /\ UNCHANGED <<suffix, orig, setting, text, tool, fresh, runs>>

\* Writing from the start of a file leaves what lies behind the text.
Overwritten(f, t) == IF f = <<>> THEN t ELSE t \o SubSeq(f, Len(t) + 1, Len(f))

Write ==
    /\ pc = "write"
    /\ top' = Overwritten(top, text)
    /\ text' = <<>>
    /\ End("edited")
    /\ UNCHANGED <<suffix, orig, setting, tool, fresh, runs>>

-----------------------------------------------------------------------------
\* Radiant's files are removed after synthesis, unless KEEP_REVEAL_TEMP is set.
RemoveTemp ==
    /\ pc = "idle" /\ top # Absent
    /\ top' = Absent /\ fresh' = Absent /\ result' = "removed"
    /\ UNCHANGED <<suffix, orig, setting, pc, text, tool, runs>>

\* Synthesis is aborted: what is being written is cut short.  The result says
\* whether that was behind the copy.
Abort ==
    /\ pc # "idle"
    /\ End(IF pc \in {"editor", "truncate", "write"} THEN "cut" ELSE "aborted")
    /\ \/ pc \in {"istflow", "checks", "editor", "truncate"} /\ UNCHANGED <<top, orig, fresh>>
       \/ /\ pc = "istflow"
          /\ \E f \in Outputs[suffix] : top' \in Beginnings(f)
          /\ fresh' = Absent /\ UNCHANGED orig
       \/ /\ pc = "checks" /\ ~ setting.skip /\ setting.hck # Absent
          /\ top' \in Beginnings(setting.hck)
          /\ fresh' = Absent /\ UNCHANGED orig
       \/ /\ pc = "checks" /\ ~ setting.skip /\ ~ Hacked
          /\ setting.named = "top" /\ top # Absent
          /\ orig' \in Beginnings(top) /\ UNCHANGED <<top, fresh>>
       \/ /\ pc = "editor" /\ setting.editor = "rvl_cpy.sh" /\ setting.hack # Absent
          /\ top' \in Beginnings(setting.hack)
          /\ fresh' = Absent /\ UNCHANGED orig
       \/ /\ pc = "write"
          /\ top' \in {Overwritten(top, t) : t \in Beginnings(text)}
          /\ fresh' = Absent /\ UNCHANGED orig
    /\ text' = <<>>
    /\ UNCHANGED <<suffix, setting, tool, runs>>

Init ==
    /\ suffix \in DOMAIN Outputs
    /\ top = Absent /\ orig = Absent
    /\ setting \in Settings
    /\ pc = "idle" /\ text = <<>>
    /\ tool = Absent /\ fresh = Absent /\ result = "none" /\ runs = 0

Next ==
    \/ Start \/ Istflow \/ Leave \/ UseHck \/ CopyOrig \/ NoEditor \/ RvlCpy
    \/ EditText \/ Truncate \/ Write \/ RemoveTemp \/ Abort

Spec == Init /\ [][Next]_vars

-----------------------------------------------------------------------------
Ended(results) == pc = "idle" /\ result \in results

PastTheCopy == {"edited", "replaced", "left", "refused", "failed", "cut"}

\* Safety: a run that got as far as an editor leaves in .orig exactly the file the
\* tool had left when the script took over (istflow.sh:101-102 "make a copy"),
\* whatever earlier runs left there, whether the editor worked, refused, failed or
\* was cut off while the file itself was empty or half written (rvl_edit.py:101-104).
OriginalKept == Ended(PastTheCopy) => orig = tool

\* Safety: a run that skips the editing, that does not find its file or its editor,
\* or whose editor refuses the file (NoH19Error: "they simply have debugging
\* disabled") or raises, leaves the file as the tool left it.
Untouched == Ended({"skipped", "missing", "left", "refused", "failed"}) => top = tool

\* Safety: whatever runs were aborted before, and also when the tool failed and
\* left an earlier file: once a run has gone through the editor the file is the
\* tool's last output edited once, with nothing of the old text behind it.
EditedOnce ==
    Ended({"edited", "refused"}) /\ fresh # Absent =>
        top = IF Refuses(suffix, fresh) \/ Raises(suffix, fresh)
              THEN fresh ELSE Edited(suffix, fresh)

Others(f) == Without(f, Of(f, Originals \cup Emulation \cup {"tap", ","}))

\* Safety: the emulation ends up connected to the nets of the instance the tool
\* had put in, the soft instance is gone, and the rest of the design is what it
\* was (rvl_edit.py:11-18, :56-61).
Rewired ==
    Ended({"edited"}) =>
        /\ \A i \in Of(top, Emulation) :
              \A p \in Ports \cap DOMAIN top[i].map :
                 top[i].map[p] = First(tool, Originals).map[p]
        /\ Of(top, {"H19SOFT"}) = {}
        /\ Others(top) = Others(tool)

Declarations == {"tap", "port"}
PortKinds == Declarations \cup {"(", ",", ")"}

Only(f, kinds) == Without(f, DOMAIN f \ Of(f, kinds))
PortList(f) == Only(f, PortKinds)

\* Declarations in parentheses, with a comma between any two of them.
WellFormed(l) ==
    /\ Len(l) >= 2 /\ l[1].kind = "(" /\ l[Len(l)].kind = ")"
    /\ \A i \in 2 .. (Len(l) - 1) :
         \/ l[i].kind \in Declarations /\ l[i + 1].kind \notin Declarations
         \/ l[i].kind = "," /\ {l[i - 1].kind, l[i + 1].kind} \subseteq Declarations

\* A list that begins with two TAP ports and goes on with one of the user's.
BeginsWithTaps(l) ==
    Len(l) > 4 /\ l[2].kind = "tap" /\ l[4].kind = "tap" /\ Of(l, {"port"}) # {}

\* Safety: a port list stays a port list without its TAP ports (rvl_edit.py:86-87
\* "we eat the declaration as well as trailing or leading commas"), unless it
\* begins with two of them: each eats a comma, and the one behind the last stays.
PortsWellFormed ==
    Ended({"edited"}) /\ WellFormed(PortList(tool)) /\ ~ BeginsWithTaps(PortList(tool)) =>
        WellFormed(PortList(top)) /\ (suffix = "v" => Of(top, {"tap"}) = {})

\* What a comment says: rvl_edit.py:67-68 "replace the emul instantiation by the
\* remapped one and remove the original instantiation".
OriginalRemoved == Ended({"edited"}) => Of(top, Originals) = {}
=============================================================================
