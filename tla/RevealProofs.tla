---------------------------- MODULE RevealProofs ----------------------------
(***************************************************************************)
(* Theorems about Reveal, for any files, settings and number of runs: what *)
(* the script does with them, and what the editors make of a file with one *)
(* instance of each kind.                                                  *)
(***************************************************************************)
EXTENDS Reveal, FlattenProofs

\* The script holds on to the file the tool left until it truncates it, and from
\* the copy on that file is in .orig.
InScript ==
    /\ pc \in {"checks", "editor"} => top = tool
    /\ pc \in {"editor", "truncate", "write"} => orig = tool

FlowInv == InScript /\ OriginalKept /\ Untouched

\* FlowInv holds at first.
LEMMA FlowInitially == Init => FlowInv
  BY DEF Init, FlowInv, InScript, OriginalKept, Untouched, Ended, PastTheCopy

\* FlowInv is kept by every step of the script, of the tool and of the user.
LEMMA FlowKept == FlowInv /\ [Next]_vars => FlowInv'
<1> SUFFICES ASSUME FlowInv, [Next]_vars PROVE FlowInv'
  OBVIOUS
<1> USE DEF FlowInv, InScript, OriginalKept, Untouched, Ended, PastTheCopy, End, Goto
<1>1. CASE Start
  BY <1>1 DEF Start
<1>2. CASE Istflow
  BY <1>2 DEF Istflow
<1>3. CASE Leave
  BY <1>3 DEF Leave
<1>4. CASE UseHck
  BY <1>4 DEF UseHck
<1>5. CASE CopyOrig
  BY <1>5 DEF CopyOrig, Copying
<1>6. CASE NoEditor
  BY <1>6 DEF NoEditor
<1>7. CASE RvlCpy
  BY <1>7 DEF RvlCpy
<1>8. CASE EditText
  BY <1>8 DEF EditText, EditBlob
<1>9. CASE Truncate
  BY <1>9 DEF Truncate
<1>10. CASE Write
  BY <1>10 DEF Write
<1>11. CASE RemoveTemp
  BY <1>11 DEF RemoveTemp
<1>12. CASE Abort
  BY <1>12 DEF Abort
<1>13. CASE UNCHANGED vars
  BY <1>13 DEF vars
<1> QED
  BY <1>1, <1>2, <1>3, <1>4, <1>5, <1>6, <1>7, <1>8, <1>9, <1>10, <1>11, <1>12, <1>13
     DEF Next

\* FlowInv holds in every state of the flow.
LEMMA FlowInvariance == Spec => []FlowInv
  BY FlowInitially, FlowKept, PTL DEF Spec

\* A run that got as far as an editor leaves the tool's file in .orig, whatever
\* was aborted before and whatever the editor does.
THEOREM OriginalIsKept == Spec => []OriginalKept
<1>1. FlowInv => OriginalKept
  BY DEF FlowInv
<1> QED
  BY <1>1, FlowInvariance, PTL

\* A run that skips, refuses or fails leaves the tool's file alone.
THEOREM RefusedIsUntouched == Spec => []Untouched
<1>1. FlowInv => Untouched
  BY DEF FlowInv
<1> QED
  BY <1>1, FlowInvariance, PTL

-----------------------------------------------------------------------------
(* Removing items from a file. *)

\* h[i] is what is left of the first i items of f.
Leaves(h, f, gone, n) ==
    /\ h[0] = <<>>
    /\ \A i \in 1 .. n : h[i] = IF i \in gone THEN h[i - 1] ELSE Append(h[i - 1], f[i])

\* There is such a function, of sequences of the items that stay.
LEMMA LeavesExists ==
    ASSUME NEW S, NEW f \in Seq(S), NEW gone, NEW T,
           \A i \in (1 .. Len(f)) \ gone : f[i] \in T
    PROVE  \E h \in [0 .. Len(f) -> Seq(T)] : Leaves(h, f, gone, Len(f))
<1> DEFINE G == {n \in Nat : n <= Len(f) => \E h \in [0 .. n -> Seq(T)] : Leaves(h, f, gone, n)}
<1>0. Len(f) \in Nat
  OBVIOUS
<1>1. 0 \in G
  <2> DEFINE h == [i \in 0 .. 0 |-> <<>>]
  <2>1. h \in [0 .. 0 -> Seq(T)] /\ Leaves(h, f, gone, 0)
    BY DEF Leaves
  <2> QED BY <2>1
<1>2. ASSUME NEW n \in 0 .. Len(f) - 1, n \in G PROVE n + 1 \in G
  <2>0. n \in Nat /\ n + 1 \in Nat /\ n <= Len(f) /\ n + 1 \in 1 .. Len(f) /\ (n + 1) - 1 = n
    BY <1>0
  <2>1. PICK h \in [0 .. n -> Seq(T)] : Leaves(h, f, gone, n)
    BY <1>2, <2>0
  <2> DEFINE e == IF n + 1 \in gone THEN h[n] ELSE Append(h[n], f[n + 1])
             k == [i \in 0 .. n + 1 |-> IF i = n + 1 THEN e ELSE h[i]]
  <2>2. e \in Seq(T)
    <3>1. h[n] \in Seq(T)
      BY <2>0, <2>1
    <3>2. CASE n + 1 \in gone
      BY <3>1, <3>2
    <3>3. CASE n + 1 \notin gone
      <4>1. f[n + 1] \in T
        BY <2>0, <3>3
      <4> QED BY <3>1, <3>3, <4>1, AppendProperties
    <3> QED BY <3>2, <3>3
  <2>3. k[n + 1] = e /\ \A i \in 0 .. n : k[i] = h[i]
    <3> HIDE DEF e
    <3> QED BY <2>0
  <2>4. k \in [0 .. n + 1 -> Seq(T)]
    <3> HIDE DEF e
    <3> QED BY <2>0, <2>1, <2>2
  <2> HIDE DEF k
  <2>5. Leaves(k, f, gone, n + 1)
    <3>1. k[0] = <<>>
      BY <2>0, <2>1, <2>3 DEF Leaves
    <3>2. ASSUME NEW i \in 1 .. n + 1
          PROVE  k[i] = IF i \in gone THEN k[i - 1] ELSE Append(k[i - 1], f[i])
      <4>1. CASE i = n + 1
        <5>1. k[n] = h[n]
          BY <2>0, <2>3
        <5> QED BY <2>0, <2>3, <4>1, <5>1
      <4>2. CASE i # n + 1
        <5>1. i \in 1 .. n /\ i \in 0 .. n /\ i - 1 \in 0 .. n
          BY <2>0, <4>2
        <5>2. k[i] = h[i] /\ k[i - 1] = h[i - 1]
          BY <2>3, <5>1
        <5> QED BY <2>1, <5>1, <5>2 DEF Leaves
      <4> QED BY <4>1, <4>2
    <3> QED BY <3>1, <3>2 DEF Leaves
  <2> QED BY <2>0, <2>4, <2>5
<1> HIDE DEF G
<1>3. Len(f) \in G
  BY <1>0, <1>1, <1>2, ClimbFrom0
<1> QED BY <1>0, <1>3 DEF G

\* Two such functions agree, if they remove the same of the same items.
LEMMA LeavesUnique ==
    ASSUME NEW n \in Nat, NEW h, NEW k, NEW f, NEW g, NEW gone, NEW lost,
           Leaves(h, f, gone, n), Leaves(k, g, lost, n),
           \A i \in 1 .. n : (i \in gone <=> i \in lost) /\ (i \notin gone => f[i] = g[i])
    PROVE  \A i \in 0 .. n : h[i] = k[i]
<1> DEFINE G == {i \in 0 .. n : h[i] = k[i]}
<1>1. 0 \in G
  BY DEF Leaves
<1>2. ASSUME NEW i \in 0 .. n - 1, i \in G PROVE i + 1 \in G
  <2>1. i + 1 \in 1 .. n /\ i + 1 \in 0 .. n /\ (i + 1) - 1 = i
    OBVIOUS
  <2>2. h[i] = k[i]
    BY <1>2
  <2>3. h[i + 1] = IF i + 1 \in gone THEN h[i] ELSE Append(h[i], f[i + 1])
    BY <2>1 DEF Leaves
  <2>4. k[i + 1] = IF i + 1 \in lost THEN k[i] ELSE Append(k[i], g[i + 1])
    BY <2>1 DEF Leaves
  <2>5. (i + 1 \in gone <=> i + 1 \in lost) /\ (i + 1 \notin gone => f[i + 1] = g[i + 1])
    BY <2>1
  <2> QED BY <2>1, <2>2, <2>3, <2>4, <2>5
<1>3. \A j \in 0 .. n : j \in G
  <2> HIDE DEF G
  <2> SUFFICES ASSUME NEW j \in 0 .. n PROVE j \in G
    OBVIOUS
  <2>1. j \in Nat /\ \A i \in 0 .. j - 1 : i \in 0 .. n - 1
    OBVIOUS
  <2> QED BY <1>1, <1>2, <2>1, ClimbFrom0
<1> QED BY <1>3

\* Without is the last value of that function.
LEMMA WithoutIsLast ==
    ASSUME NEW S, NEW f \in Seq(S), NEW gone, NEW h,
           DOMAIN h = 0 .. Len(f), h = [i \in 0 .. Len(f) |-> h[i]],
           Leaves(h, f, gone, Len(f))
    PROVE  Without(f, gone) = h[Len(f)]
<1>0. PICK n \in Nat : n = Len(f)
  OBVIOUS
<1> DEFINE E(k) == k = [i \in 0 .. n |-> IF i = 0 THEN <<>>
                          ELSE IF i \in gone THEN k[i - 1] ELSE Append(k[i - 1], f[i])]
<1>1. E(h)
  <2>1. ASSUME NEW i \in 0 .. n
        PROVE  h[i] = IF i = 0 THEN <<>>
                      ELSE IF i \in gone THEN h[i - 1] ELSE Append(h[i - 1], f[i])
    <3>1. CASE i = 0
      BY <3>1 DEF Leaves
    <3>2. CASE i # 0
      <4>1. i \in 1 .. n
        BY <3>2
      <4> QED BY <1>0, <3>2, <4>1 DEF Leaves
    <3> QED BY <3>1, <3>2
  <2> QED BY <1>0, <2>1
<1>2. ASSUME NEW k, E(k) PROVE k = h
  <2>1. Leaves(k, f, gone, n)
    <3>1. k[0] = <<>>
      BY <1>0, <1>2
    <3>2. ASSUME NEW i \in 1 .. n
          PROVE  k[i] = IF i \in gone THEN k[i - 1] ELSE Append(k[i - 1], f[i])
      <4>1. i \in 0 .. n /\ i # 0
        OBVIOUS
      <4> QED BY <1>2, <4>1
    <3> QED BY <3>1, <3>2 DEF Leaves
  <2>2. \A i \in 0 .. n : k[i] = h[i]
    BY <1>0, <2>1, LeavesUnique
  <2>3. k = [i \in 0 .. n |-> k[i]]
    <3>1. DOMAIN k = 0 .. n
      BY <1>2
    <3> QED BY <1>2
  <2> QED BY <1>0, <2>2, <2>3
<1>3. (CHOOSE k : E(k)) = h
  <2> HIDE DEF E
  <2> QED BY <1>1, <1>2
<1>4. Without(f, gone) = (CHOOSE k : E(k))[n]
  BY <1>0 DEF Without
<1> QED BY <1>0, <1>3, <1>4

\* What is left is made of the items that stay.
LEMMA WithoutType ==
    ASSUME NEW S, NEW f \in Seq(S), NEW gone, NEW T,
           \A i \in (1 .. Len(f)) \ gone : f[i] \in T
    PROVE  Without(f, gone) \in Seq(T)
<1>1. PICK h \in [0 .. Len(f) -> Seq(T)] : Leaves(h, f, gone, Len(f))
  BY LeavesExists
<1>2. DOMAIN h = 0 .. Len(f) /\ h = [i \in 0 .. Len(f) |-> h[i]] /\ Len(f) \in 0 .. Len(f)
  BY <1>1
<1>3. Without(f, gone) = h[Len(f)]
  BY <1>1, <1>2, WithoutIsLast
<1> QED BY <1>1, <1>2, <1>3

\* If nothing goes all stays.
LEMMA WithoutNone ==
    ASSUME NEW S, NEW f \in Seq(S)
    PROVE  Without(f, {}) = f
<1>0. PICK n \in Nat : n = Len(f) /\ \A i \in 1 .. n : f[i] \in S
  OBVIOUS
<1> DEFINE h == [i \in 0 .. n |-> SubSeq(f, 1, i)]
<1>1. Leaves(h, f, {}, n)
  <2>1. h[0] = <<>>
    BY <1>0
  <2>2. ASSUME NEW i \in 1 .. n PROVE h[i] = Append(h[i - 1], f[i])
    <3>1. i \in 0 .. n /\ i - 1 \in 0 .. n /\ i - 1 \in 0 .. Len(f) /\ i <= Len(f)
      BY <1>0
    <3>2. h[i] = SubSeq(f, 1, i) /\ h[i - 1] = SubSeq(f, 1, i - 1)
      BY <3>1
    <3>3. SubSeq(f, 1, i) = Append(SubSeq(f, 1, i - 1), f[i])
      BY <1>0, <3>1
    <3> QED BY <3>2, <3>3
  <2> HIDE DEF h
  <2> QED BY <2>1, <2>2 DEF Leaves
<1>2. DOMAIN h = 0 .. n /\ h = [i \in 0 .. n |-> h[i]] /\ h[n] = SubSeq(f, 1, n)
  OBVIOUS
<1> HIDE DEF h
<1>3. Without(f, {}) = h[n]
  BY <1>0, <1>1, <1>2, WithoutIsLast
<1>4. SubSeq(f, 1, n) = f
  BY <1>0, SubSeqFull
<1> QED BY <1>2, <1>3, <1>4

-----------------------------------------------------------------------------
(* A file is edited once. *)

\* An item has a kind and a map from some names to nets.
Items(Kind, Name, Net) == [kind : Kind, map : UNION {[D -> Net] : D \in SUBSET Name}]

\* The tool puts in one instance of its block, or the same one several times.
OneOriginal(f) == \A i, j \in Of(f, Originals) : f[i] = f[j]

\* The first item of some kinds is one of these kinds.
LEMMA FirstOf ==
    ASSUME NEW S, NEW f \in Seq(S), NEW kinds, Of(f, kinds) # {}
    PROVE  \E i \in Of(f, kinds) : First(f, kinds) = f[i]
<1> DEFINE T == Of(f, kinds)
<1>1. T \subseteq Nat
  BY DEF Of
<1>2. \E x \in T : \A y \in T : ~ (<<y, x>> \in OpToRel(<, Nat))
  BY <1>1, WFMin, NatLessThanWellFounded
<1>3. PICK x \in T : \A y \in T : ~ (y < x)
  BY <1>1, <1>2 DEF OpToRel
<1>4. \E i \in T : \A j \in T : i <= j
  <2>1. \A y \in T : x <= y
    BY <1>1, <1>3
  <2> QED BY <2>1
<1>5. First(f, kinds) = f[CHOOSE i \in T : \A j \in T : i <= j]
  BY DEF First
<1> HIDE DEF T
<1>6. (CHOOSE i \in T : \A j \in T : i <= j) \in T
  BY <1>4
<1> QED BY <1>5, <1>6 DEF T

\* The emulation's item after it was given the original's nets.
LEMMA RemappedType ==
    ASSUME NEW Kind, NEW Name, NEW Net, NEW f \in Seq(Items(Kind, Name, Net)),
           ~ VerilogRefuses(f), ~ VerilogRaises(f)
    PROVE  /\ Remapped(f) \in Items(Kind, Name, Net)
           /\ Remapped(f).kind \in Emulation
           /\ First(f, Originals) \in Items(Kind, Name, Net)
           /\ \A p \in Ports \cap DOMAIN Remapped(f).map :
                 Remapped(f).map[p] = First(f, Originals).map[p]
<1> DEFINE I == Items(Kind, Name, Net)
           e == First(f, Emulation)
           o == First(f, Originals)
           m == [p \in DOMAIN e.map |-> IF p \in Ports THEN o.map[p] ELSE e.map[p]]
<1>1. PICK i \in Of(f, Emulation) : e = f[i]
  BY FirstOf DEF VerilogRefuses
<1>2. PICK j \in Of(f, Originals) : o = f[j]
  BY FirstOf DEF VerilogRefuses
<1>3. e \in I /\ e.kind \in Emulation /\ o \in I
  BY <1>1, <1>2 DEF Of
<1>4. PICK D \in SUBSET Name : e.map \in [D -> Net]
  BY <1>3 DEF Items
<1>5. PICK C \in SUBSET Name : o.map \in [C -> Net]
  BY <1>3 DEF Items
<1>6. Ports \subseteq C
  BY <1>5 DEF VerilogRaises
<1>7. Remapped(f) = [e EXCEPT !.map = m]
  BY DEF Remapped
<1> HIDE DEF e, o
<1>8. m \in [D -> Net]
  BY <1>4, <1>5, <1>6
<1>9. DOMAIN m = D /\ \A p \in Ports \cap D : m[p] = o.map[p]
  BY <1>4
<1> HIDE DEF m
<1>10. [e EXCEPT !.map = m] = [kind |-> e.kind, map |-> m]
  BY <1>3 DEF Items
<1>11. Remapped(f) \in I /\ Remapped(f).kind = e.kind /\ Remapped(f).map = m
  BY <1>3, <1>7, <1>8, <1>10 DEF Items
<1> QED BY <1>3, <1>8, <1>9, <1>11 DEF o

\* What is left of a Verilog file: no soft instance, no TAP port; its emulation has the
\* original's nets.
LEMMA VerilogLeaves ==
    ASSUME NEW Kind, NEW Name, NEW Net, NEW f \in Seq(Items(Kind, Name, Net)),
           ~ VerilogRefuses(f), ~ VerilogRaises(f), NEW g, g = VerilogEdited(f)
    PROVE  /\ g \in Seq(Items(Kind, Name, Net))
           /\ \A i \in DOMAIN g :
                /\ g[i].kind \notin {"H19SOFT", "tap"}
                /\ g[i].kind \in Emulation => g[i] = Remapped(f)
                /\ g[i].kind \in Originals => \E j \in Of(f, Originals) : g[i] = f[j]
<1> DEFINE I == Items(Kind, Name, Net)
           r == [i \in DOMAIN f |-> IF i \in Of(f, Emulation) THEN Remapped(f) ELSE f[i]]
           gone == Of(f, {"H19SOFT", "tap"}) \cup EatenCommas(f)
           T == {x \in I : /\ x.kind \notin {"H19SOFT", "tap"}
                           /\ x.kind \in Emulation => x = Remapped(f)
                           /\ x.kind \in Originals => \E j \in Of(f, Originals) : x = f[j]}
<1>1. /\ Remapped(f) \in I /\ Remapped(f).kind = "H19EMUL"
      /\ DOMAIN f = 1 .. Len(f) /\ \A i \in 1 .. Len(f) : f[i] \in I
  BY RemappedType DEF Emulation
<1>2. r \in Seq(I) /\ Len(r) = Len(f)
  BY <1>1
<1>3. ASSUME NEW i \in (1 .. Len(r)) \ gone PROVE r[i] \in T
  <2>1. i \in DOMAIN f /\ f[i] \in I /\ i \notin Of(f, {"H19SOFT", "tap"})
    BY <1>1, <1>2
  <2>2. CASE i \in Of(f, Emulation)
    <3>1. r[i] = Remapped(f)
      BY <2>1, <2>2
    <3> QED BY <1>1, <3>1 DEF Originals
  <2>3. CASE i \notin Of(f, Emulation)
    <3>1. r[i] = f[i] /\ f[i].kind \notin Emulation /\ f[i].kind \notin {"H19SOFT", "tap"}
      BY <2>1, <2>3 DEF Of
    <3>2. f[i].kind \in Originals => i \in Of(f, Originals)
      BY <2>1 DEF Of
    <3> QED BY <2>1, <3>1, <3>2
  <2> QED BY <2>2, <2>3
<1>4. g = Without(r, gone)
  BY DEF VerilogEdited
<1> HIDE DEF T, r, gone
<1>5. g \in Seq(T)
  BY <1>2, <1>3, <1>4, WithoutType
<1>6. \A i \in DOMAIN g : g[i] \in T
  BY <1>5
<1>7. T \subseteq I
  BY DEF T
<1>8. g \in Seq(I)
  BY <1>5, <1>6, <1>7
<1> QED BY <1>6, <1>8 DEF T

\* The places next to a place.
LEMMA Neighbours ==
    ASSUME NEW l \in Nat, NEW c \in 1 .. l
    PROVE  (c > 2 => c - 1 \in 1 .. l) /\ (c < l => c + 1 \in 1 .. l)
OBVIOUS

\* Editing a file that was edited changes nothing: Verilog.
LEMMA VerilogTwice ==
    ASSUME NEW Kind, NEW Name, NEW Net, NEW f \in Seq(Items(Kind, Name, Net)),
           OneOriginal(f), ~ VerilogRefuses(f), ~ VerilogRaises(f),
           NEW g, g = VerilogEdited(f), ~ VerilogRefuses(g)
    PROVE  VerilogEdited(g) = g
<1> DEFINE I == Items(Kind, Name, Net)
           R == Remapped(f)
<1>1. /\ g \in Seq(I)
      /\ \A i \in DOMAIN g :
           /\ g[i].kind \notin {"H19SOFT", "tap"}
           /\ g[i].kind \in Emulation => g[i] = R
           /\ g[i].kind \in Originals => \E j \in Of(f, Originals) : g[i] = f[j]
  BY VerilogLeaves
<1>2. /\ R \in I /\ R.kind \in Emulation
      /\ \A p \in Ports \cap DOMAIN R.map : R.map[p] = First(f, Originals).map[p]
  BY RemappedType
<1>3. First(g, Emulation) = R
  <2>1. PICK i \in Of(g, Emulation) : First(g, Emulation) = g[i]
    BY <1>1, FirstOf DEF VerilogRefuses
  <2> QED BY <1>1, <2>1 DEF Of
<1>4. First(g, Originals) = First(f, Originals)
  <2>1. PICK i \in Of(g, Originals) : First(g, Originals) = g[i]
    BY <1>1, FirstOf DEF VerilogRefuses
  <2>2. PICK j \in Of(f, Originals) : g[i] = f[j]
    BY <1>1, <2>1 DEF Of
  <2>3. PICK k \in Of(f, Originals) : First(f, Originals) = f[k]
    BY FirstOf DEF VerilogRefuses
  <2> QED BY <2>1, <2>2, <2>3 DEF OneOriginal
<1>5. Remapped(g) = R
  <2> DEFINE m == [p \in DOMAIN R.map |-> IF p \in Ports THEN First(f, Originals).map[p]
                                          ELSE R.map[p]]
  <2>1. Remapped(g) = [R EXCEPT !.map = m]
    BY <1>3, <1>4 DEF Remapped
  <2>2. PICK D \in SUBSET Name : R.map \in [D -> Net]
    BY <1>2 DEF Items
  <2>3. m = R.map
    <3> HIDE DEF R
    <3>1. \A p \in D : m[p] = R.map[p]
      BY <1>2, <2>2
    <3> QED BY <2>2, <3>1
  <2> HIDE DEF R, m
  <2>4. [R EXCEPT !.map = R.map] = R
    BY <1>2 DEF Items
  <2> QED BY <2>1, <2>3, <2>4
<1>6. Of(g, {"H19SOFT", "tap"}) = {}
  BY <1>1 DEF Of
<1>7. EatenCommas(g) = {}
  <2>1. ASSUME NEW i \in Of(g, {","}) PROVE i \notin EatenCommas(g)
    <3>1. i \in 1 .. Len(g) /\ DOMAIN g = 1 .. Len(g) /\ Len(g) \in Nat
      <4>1. DOMAIN g = 1 .. Len(g) /\ Len(g) \in Nat
        BY <1>1, LenProperties
      <4>2. i \in DOMAIN g
        BY DEF Of
      <4> QED BY <4>1, <4>2
    <3>2. PICK l \in Nat : l = Len(g) /\ i \in 1 .. l
      BY <3>1, Zenon
    <3>6. PICK c \in 1 .. l : c = i
      BY <3>2
    <3>3. \A d \in 1 .. l : g[d].kind # "tap"
      BY <1>1, <3>1, <3>2
    <3>4. c > 2 => g[c - 1].kind # "tap"
      <4>1. c > 2 => c - 1 \in 1 .. l
        BY Neighbours, Zenon
      <4> QED BY <3>3, <4>1
    <3>5. c < l => g[c + 1].kind # "tap"
      <4>1. c < l => c + 1 \in 1 .. l
        BY Neighbours, Zenon
      <4> QED BY <3>3, <4>1
    <3> QED BY <3>2, <3>4, <3>5, <3>6 DEF EatenCommas
  <2> QED BY <2>1 DEF EatenCommas
<1>8. [i \in DOMAIN g |-> IF i \in Of(g, Emulation) THEN Remapped(g) ELSE g[i]] = g
  <2> DEFINE h == [i \in DOMAIN g |-> IF i \in Of(g, Emulation) THEN Remapped(g) ELSE g[i]]
  <2>1. ASSUME NEW i \in DOMAIN g PROVE h[i] = g[i]
    BY <1>1, <1>5, <2>1 DEF Of
  <2>2. g = [i \in DOMAIN g |-> g[i]]
    BY <1>1
  <2> QED BY <2>1, <2>2
<1>9. VerilogEdited(g) = Without(g, {})
  BY <1>6, <1>7, <1>8 DEF VerilogEdited
<1> QED BY <1>1, <1>9, WithoutNone

\* A VHDL file that was edited is refused.
LEMMA VhdlTwice ==
    ASSUME NEW Kind, NEW Name, NEW Net, NEW f \in Seq(Items(Kind, Name, Net))
    PROVE  VhdlRefuses(VhdlEdited(f))
<1> DEFINE g == Without(f, Of(f, Originals))
           T == {x \in Items(Kind, Name, Net) : x.kind \notin Originals}
<1>1. g \in Seq(T)
  <2>1. \A i \in (1 .. Len(f)) \ Of(f, Originals) : f[i] \in T
    BY DEF Of
  <2> QED BY <2>1, WithoutType
<1>2. \A n \in DOMAIN g : g[n] \in Items(Kind, Name, Net) /\ g[n].kind \notin Originals
  <2> HIDE DEF g
  <2> QED BY <1>1
<1>3. DOMAIN VhdlEdited(f) = DOMAIN g
  BY DEF VhdlEdited
<1>4. ASSUME NEW n \in DOMAIN g PROVE VhdlEdited(f)[n].kind \notin Originals
  <2> DEFINE m == [p \in DOMAIN g[n].map |-> Unsuffixed(g[n].map[p])]
  <2>1. VhdlEdited(f)[n] = [g[n] EXCEPT !.map = m]
    BY DEF VhdlEdited
  <2> HIDE DEF g, m
  <2>2. [g[n] EXCEPT !.map = m].kind = g[n].kind
    BY <1>2 DEF Items
  <2> QED BY <1>2, <2>1, <2>2
<1> QED BY <1>3, <1>4 DEF VhdlRefuses, Of

\* The same, whatever the file's suffix.
LEMMA EditedTwice ==
    ASSUME NEW Kind, NEW Name, NEW Net, NEW f \in Seq(Items(Kind, Name, Net)), NEW s,
           s = "v" => OneOriginal(f), ~ Refuses(s, f), ~ Raises(s, f),
           NEW g, g = Edited(s, f), ~ Refuses(s, g)
    PROVE  Edited(s, g) = g
<1>1. CASE s = "v"
  <2>1. OneOriginal(f) /\ ~ VerilogRefuses(f) /\ ~ VerilogRaises(f) /\ g = VerilogEdited(f)
        /\ ~ VerilogRefuses(g)
    BY <1>1 DEF Refuses, Raises, Edited
  <2>2. VerilogEdited(g) = g
    BY <2>1, VerilogTwice
  <2> QED BY <1>1, <2>2 DEF Edited
<1>2. CASE s # "v"
  <2>1. s = "vhd"
    BY <1>2 DEF Raises
  <2>2. VhdlRefuses(VhdlEdited(f))
    BY VhdlTwice
  <2> QED BY <1>2, <2>1, <2>2 DEF Refuses, Edited
<1> QED BY <1>1, <1>2

Fine(f) == ~ Refuses(suffix, f) /\ ~ Raises(suffix, f)

\* The file as the tool wrote it, or edited.
Fresh(f) == f = fresh \/ (Fine(fresh) /\ f = Edited(suffix, fresh))

\* While rvl_edit.py is at work the text is the file edited, and it is written to an empty
\* file; otherwise the file is as the tool wrote it last or edited once.
EditInv ==
    /\ suffix \in DOMAIN Outputs
    /\ fresh # Absent =>
         /\ fresh \in Outputs[suffix]
         /\ pc # "write" => Fresh(top)
         /\ pc = "write" => Fine(fresh) /\ text = Edited(suffix, fresh)
    /\ pc = "truncate" => Fine(top) /\ text = Edited(suffix, top)
    /\ pc = "write" => top = <<>>
    /\ EditedOnce

\* EditInv is kept by every step.
LEMMA EditInvKept ==
    ASSUME NEW Kind, NEW Name, NEW Net,
           \A s \in DOMAIN Outputs : \A f \in Outputs[s] :
              f \in Seq(Items(Kind, Name, Net)) /\ (s = "v" => OneOriginal(f)),
           EditInv, [Next]_vars
    PROVE  EditInv'
<1> USE DEF End, Goto, Ended
<1>1. CASE Start
  BY <1>1 DEF Start, EditInv, EditedOnce, Fresh, Fine
<1>2. CASE Istflow
  BY <1>2 DEF Istflow, EditInv, EditedOnce, Fresh, Fine
<1>3. CASE Leave
  BY <1>3 DEF Leave, EditInv, EditedOnce, Fresh, Fine
<1>4. CASE UseHck
  BY <1>4 DEF UseHck, EditInv, EditedOnce, Fresh, Fine
<1>5. CASE CopyOrig
  BY <1>5 DEF CopyOrig, Copying, EditInv, EditedOnce, Fresh, Fine
<1>6. CASE NoEditor
  BY <1>6 DEF NoEditor, EditInv, EditedOnce, Fresh, Fine
<1>7. CASE RvlCpy
  BY <1>7 DEF RvlCpy, EditInv, EditedOnce, Fresh, Fine
<1>8. CASE EditText
  BY <1>8 DEF EditText, EditBlob, EditInv, EditedOnce, Fresh, Fine
<1>9. CASE Truncate
  <2>1. fresh # Absent => Fine(fresh) /\ text = Edited(suffix, fresh)
    <3> SUFFICES ASSUME fresh # Absent PROVE Fine(fresh) /\ text = Edited(suffix, fresh)
      OBVIOUS
    <3>1. Fresh(top) /\ Fine(top) /\ text = Edited(suffix, top)
          /\ fresh \in Outputs[suffix] /\ suffix \in DOMAIN Outputs
      BY <1>9 DEF Truncate, EditInv
    <3>2. CASE top = fresh
      BY <3>1, <3>2
    <3>3. CASE Fine(fresh) /\ top = Edited(suffix, fresh)
      <4>1. Edited(suffix, top) = top
        BY <3>1, <3>3, EditedTwice DEF Fine
      <4> QED BY <3>1, <3>3, <4>1
    <3> QED BY <3>1, <3>2, <3>3 DEF Fresh
  <2> QED BY <1>9, <2>1 DEF Truncate, EditInv, EditedOnce, Fresh, Fine
<1>10. CASE Write
  <2>1. top' = text
    BY <1>10 DEF Write, Overwritten, EditInv
  <2> QED BY <1>10, <2>1 DEF Write, EditInv, EditedOnce, Fresh, Fine
<1>11. CASE RemoveTemp
  BY <1>11 DEF RemoveTemp, EditInv, EditedOnce, Fresh, Fine
<1>12. CASE Abort
  BY <1>12 DEF Abort, EditInv, EditedOnce, Fresh, Fine
<1>13. CASE UNCHANGED vars
  BY <1>13 DEF vars, EditInv, EditedOnce, Fresh, Fine
<1> QED
  BY <1>1, <1>2, <1>3, <1>4, <1>5, <1>6, <1>7, <1>8, <1>9, <1>10, <1>11, <1>12, <1>13
     DEF Next

\* For any files with one original instance: whatever runs were aborted, repeated or had
\* a tool that failed, a file that went through the editor was edited exactly once.
\* (A Verilog file with a JTAGH19 and a JTAGH19SOFT that are connected differently
\* is edited again when it is read again: the first edit leaves the JTAGH19.)
THEOREM FilesAreEditedOnce ==
    ASSUME NEW Kind, NEW Name, NEW Net,
           \A s \in DOMAIN Outputs : \A f \in Outputs[s] :
              f \in Seq(Items(Kind, Name, Net)) /\ (s = "v" => OneOriginal(f))
    PROVE  Spec => []EditedOnce
<1>1. Init => EditInv
  BY DEF Init, EditInv, EditedOnce, Ended
<1>2. EditInv /\ [Next]_vars => EditInv'
  BY EditInvKept
<1>3. EditInv => EditedOnce
  BY DEF EditInv
<1> QED
  BY <1>1, <1>2, <1>3, PTL DEF Spec

-----------------------------------------------------------------------------
(* What an edit does to a file. *)

Replaced == Originals \cup Emulation \cup {"tap", ","}

\* Another item behind the others.
LEMMA OthersAppend ==
    ASSUME NEW S, NEW f \in Seq(S), NEW x \in S
    PROVE  Others(Append(f, x)) = IF x.kind \in Replaced THEN Others(f) ELSE Append(Others(f), x)
<1> DEFINE g == Append(f, x)
<1>0. PICK n \in Nat : n = Len(f)
  OBVIOUS
<1>1. /\ g \in Seq(S) /\ Len(g) = n + 1 /\ g[n + 1] = x /\ DOMAIN g = 1 .. n + 1
      /\ DOMAIN f = 1 .. n /\ \A i \in 1 .. n : g[i] = f[i]
  BY <1>0, AppendProperties
<1> HIDE DEF g
<1>1a. \A u, v : Leaves(u, g, Of(g, Replaced), n) /\ Leaves(v, f, Of(f, Replaced), n)
                   => \A i \in 0 .. n : u[i] = v[i]
  <2>1. \A i \in 1 .. n : (i \in Of(g, Replaced) <=> i \in Of(f, Replaced))
                          /\ (i \notin Of(g, Replaced) => g[i] = f[i])
    BY <1>1 DEF Of
  <2> QED BY <2>1, LeavesUnique
<1>2. PICK h \in [0 .. n + 1 -> Seq(S)] : Leaves(h, g, Of(g, Replaced), n + 1)
  <2>1. \A i \in (1 .. Len(g)) \ Of(g, Replaced) : g[i] \in S
    BY <1>1
  <2> QED BY <1>1, <2>1, LeavesExists, ZenonT(60)
<1>3. Others(g) = h[n + 1]
  <2>1. DOMAIN h = 0 .. Len(g) /\ h = [i \in 0 .. Len(g) |-> h[i]]
    BY <1>1, <1>2
  <2>2. Without(g, Of(g, Replaced)) = h[Len(g)]
    BY <1>1, <1>2, <2>1, WithoutIsLast
  <2> QED BY <1>1, <2>2 DEF Others, Replaced
<1>4. PICK k \in [0 .. n -> Seq(S)] : Leaves(k, f, Of(f, Replaced), n)
  <2>1. \A i \in (1 .. Len(f)) \ Of(f, Replaced) : f[i] \in S
    OBVIOUS
  <2> QED BY <1>0, <2>1, LeavesExists
<1>5. Others(f) = k[n]
  <2>1. DOMAIN k = 0 .. Len(f) /\ k = [i \in 0 .. Len(f) |-> k[i]]
    BY <1>0, <1>4
  <2>2. Without(f, Of(f, Replaced)) = k[Len(f)]
    BY <1>0, <1>4, <2>1, WithoutIsLast
  <2> QED BY <1>0, <2>2 DEF Others, Replaced
<1>6. h[n] = k[n]
  <2>1. Leaves(h, g, Of(g, Replaced), n)
    <3>1. \A i \in 1 .. n : i \in 1 .. n + 1
      OBVIOUS
    <3> QED BY <1>2, <3>1 DEF Leaves
  <2>3. \A i \in 0 .. n : h[i] = k[i]
    BY <1>4, <1>1a, <2>1, Zenon
  <2> QED BY <1>0, <2>3
<1>7. h[n + 1] = IF n + 1 \in Of(g, Replaced) THEN h[n] ELSE Append(h[n], x)
  <2>1. n + 1 \in 1 .. n + 1 /\ (n + 1) - 1 = n
    OBVIOUS
  <2> QED BY <1>1, <1>2, <2>1 DEF Leaves
<1>8. n + 1 \in Of(g, Replaced) <=> x.kind \in Replaced
  <2>1. n + 1 \in 1 .. n + 1
    OBVIOUS
  <2> QED BY <1>1, <2>1 DEF Of
<1>9. Others(g) = IF x.kind \in Replaced THEN Others(f) ELSE Append(Others(f), x)
  BY <1>3, <1>5, <1>6, <1>7, <1>8
<1> QED BY <1>9 DEF g

\* If only instances of the block, TAP ports and commas are replaced or removed, the
\* rest is what it was.
LEMMA OthersKept ==
    ASSUME NEW S, NEW f \in Seq(S), NEW r \in Seq(S), Len(r) = Len(f), NEW gone,
           \A i \in 1 .. Len(f) : /\ r[i].kind \in Replaced <=> f[i].kind \in Replaced
                                  /\ f[i].kind \notin Replaced => r[i] = f[i] /\ i \notin gone
    PROVE  Others(Without(r, gone)) = Others(f)
<1>0. PICK n \in Nat : n = Len(f) /\ n = Len(r) /\ DOMAIN f = 1 .. n
  OBVIOUS
<1>1. PICK h \in [0 .. n -> Seq(S)] : Leaves(h, r, gone, n)
  <2>1. \A i \in (1 .. Len(r)) \ gone : r[i] \in S
    OBVIOUS
  <2>2. \E h \in [0 .. Len(r) -> Seq(S)] : Leaves(h, r, gone, Len(r))
    BY <2>1, LeavesExists, Zenon
  <2> QED BY <1>0, <2>2, Zenon
<1>2. Without(r, gone) = h[n]
  <2>1. DOMAIN h = 0 .. Len(r) /\ h = [i \in 0 .. Len(r) |-> h[i]]
    BY <1>0, <1>1
  <2> QED BY <1>0, <1>1, <2>1, WithoutIsLast, SMTT(60)
<1>3. PICK k \in [0 .. n -> Seq(S)] : Leaves(k, f, Of(f, Replaced), n)
  <2>1. \A i \in (1 .. Len(f)) \ Of(f, Replaced) : f[i] \in S
    OBVIOUS
  <2>2. \E u \in [0 .. Len(f) -> Seq(S)] : Leaves(u, f, Of(f, Replaced), Len(f))
    BY <2>1, LeavesExists, Zenon
  <2> QED BY <1>0, <2>2, Zenon
<1>4. Others(f) = k[n]
  <2>1. DOMAIN k = 0 .. Len(f) /\ k = [i \in 0 .. Len(f) |-> k[i]]
    BY <1>0, <1>3
  <2>2. Without(f, Of(f, Replaced)) = k[Len(f)]
    BY <1>0, <1>3, <2>1, WithoutIsLast, SMTT(60)
  <2> QED BY <1>0, <2>2 DEF Others, Replaced
<1> DEFINE G == {i \in 0 .. n : Others(h[i]) = k[i]}
<1>5. 0 \in G
  <2>1. h[0] = <<>> /\ k[0] = <<>>
    BY <1>1, <1>3 DEF Leaves
  <2>2. Others(<<>>) = <<>>
    <3>1. Of(<<>>, Replaced) = {}
      BY DEF Of
    <3>2. <<>> \in Seq(S)
      OBVIOUS
    <3>3. Without(<<>>, {}) = <<>>
      BY <3>2, WithoutNone
    <3> QED BY <3>1, <3>3 DEF Others, Replaced
  <2> QED BY <2>1, <2>2
<1>6. ASSUME NEW i \in 0 .. n - 1, i \in G PROVE i + 1 \in G
  <2>1. i + 1 \in 1 .. n /\ i + 1 \in 0 .. n /\ (i + 1) - 1 = i /\ i \in 0 .. n
    OBVIOUS
  <2>2. h[i] \in Seq(S) /\ r[i + 1] \in S /\ Others(h[i]) = k[i]
    BY <1>0, <1>1, <1>6, <2>1
  <2>3. h[i + 1] = IF i + 1 \in gone THEN h[i] ELSE Append(h[i], r[i + 1])
    BY <1>1, <2>1 DEF Leaves
  <2>4. k[i + 1] = IF i + 1 \in Of(f, Replaced) THEN k[i] ELSE Append(k[i], f[i + 1])
    BY <1>3, <2>1 DEF Leaves
  <2>5. i + 1 \in Of(f, Replaced) <=> f[i + 1].kind \in Replaced
    BY <1>0, <2>1 DEF Of
  <2>6. Others(Append(h[i], r[i + 1])) =
          IF r[i + 1].kind \in Replaced THEN Others(h[i]) ELSE Append(Others(h[i]), r[i + 1])
    <3>1. \A s \in Seq(S), x \in S :
            Others(Append(s, x)) = IF x.kind \in Replaced THEN Others(s) ELSE Append(Others(s), x)
      BY OthersAppend, Zenon
    <3> QED BY <2>2, <3>1
  <2>7. /\ r[i + 1].kind \in Replaced <=> f[i + 1].kind \in Replaced
        /\ f[i + 1].kind \notin Replaced => r[i + 1] = f[i + 1] /\ i + 1 \notin gone
    BY <1>0, <2>1
  <2>8. Others(h[i + 1]) = k[i + 1]
    BY <2>2, <2>3, <2>4, <2>5, <2>6, <2>7
  <2> QED BY <2>1, <2>8
<1>7. n \in G
  <2> HIDE DEF G
  <2> QED BY <1>5, <1>6, ClimbFrom0
<1> QED BY <1>2, <1>4, <1>7

Nets(N) == [name : N, emu : BOOLEAN]

\* An item with its nets unsuffixed.
PlainItem(x) == [x EXCEPT !.map = [p \in DOMAIN @ |-> Unsuffixed(@[p])]]

\* The type of that item.
LEMMA PlainItemType ==
    ASSUME NEW Kind, NEW Name, NEW N, NEW x \in Items(Kind, Name, Nets(N))
    PROVE  /\ PlainItem(x) \in Items(Kind, Name, Nets(N))
           /\ PlainItem(x).kind = x.kind
           /\ DOMAIN PlainItem(x).map = DOMAIN x.map
           /\ \A p \in DOMAIN x.map : PlainItem(x).map[p] = Unsuffixed(x.map[p])
           /\ ~ Suffixed(PlainItem(x))
           /\ ~ Suffixed(x) => PlainItem(x) = x
<1> DEFINE m == [p \in DOMAIN x.map |-> Unsuffixed(x.map[p])]
<1>1. PICK D \in SUBSET Name : x.map \in [D -> Nets(N)]
  BY DEF Items
<1>2. ASSUME NEW net \in Nets(N)
      PROVE  Unsuffixed(net) \in Nets(N) /\ Unsuffixed(Unsuffixed(net)) = Unsuffixed(net)
  <2> DEFINE e == net.emu /\ net.name \notin Ports
  <2>1. e \in BOOLEAN /\ net = [name |-> net.name, emu |-> net.emu] /\ net.name \in N
    BY DEF Nets
  <2>2. Unsuffixed(net) = [name |-> net.name, emu |-> e]
    BY <2>1 DEF Unsuffixed, Nets
  <2>3. (e /\ net.name \notin Ports) = e
    BY <2>1, Zenon
  <2>4. Unsuffixed([name |-> net.name, emu |-> e]) =
          [name |-> net.name, emu |-> e /\ net.name \notin Ports]
    <3> HIDE DEF e
    <3> QED BY DEF Unsuffixed
  <2> HIDE DEF e
  <2> QED BY <2>1, <2>2, <2>3, <2>4 DEF Nets
<1>3. m \in [D -> Nets(N)] /\ DOMAIN m = D /\ \A p \in D : m[p] = Unsuffixed(x.map[p])
  BY <1>1, <1>2
<1>4. PlainItem(x) = [kind |-> x.kind, map |-> m]
  BY DEF PlainItem, Items
<1> HIDE DEF m
<1>5. PlainItem(x) \in Items(Kind, Name, Nets(N)) /\ PlainItem(x).kind = x.kind
      /\ PlainItem(x).map = m
  BY <1>3, <1>4 DEF Items
<1>6. ~ Suffixed(PlainItem(x))
  <2>1. \A p \in D : Unsuffixed(m[p]) = m[p]
    BY <1>1, <1>2, <1>3
  <2> QED BY <1>3, <1>5, <2>1 DEF Suffixed
<1>7. ~ Suffixed(x) => PlainItem(x) = x
  <2> SUFFICES ASSUME ~ Suffixed(x) PROVE PlainItem(x) = x
    OBVIOUS
  <2>1. \A p \in D : m[p] = x.map[p]
    BY <1>1, <1>3 DEF Suffixed
  <2>2. m = x.map
    BY <1>1, <1>3, <2>1
  <2>3. x = [kind |-> x.kind, map |-> x.map]
    BY DEF Items
  <2> QED BY <1>4, <2>2, <2>3
<1> QED BY <1>1, <1>3, <1>5, <1>6, <1>7

\* Removing items and unsuffixing the nets of those that stay, in any order.
LEMMA PlainWithout ==
    ASSUME NEW Kind, NEW Name, NEW N, NEW f \in Seq(Items(Kind, Name, Nets(N))), NEW gone,
           NEW r, r = [i \in DOMAIN f |-> PlainItem(f[i])]
    PROVE  [i \in DOMAIN Without(f, gone) |-> PlainItem(Without(f, gone)[i])] = Without(r, gone)
<1> DEFINE I == Items(Kind, Name, Nets(N))
           M(s) == [i \in DOMAIN s |-> PlainItem(s[i])]
<1>0. PICK n \in Nat : n = Len(f) /\ DOMAIN f = 1 .. n /\ \A i \in 1 .. n : f[i] \in I
  OBVIOUS
<1>1. r \in Seq(I) /\ Len(r) = n /\ \A i \in 1 .. n : r[i] = PlainItem(f[i])
  BY <1>0, PlainItemType
<1>2. ASSUME NEW s \in Seq(I), NEW x \in I PROVE M(Append(s, x)) = Append(M(s), PlainItem(x))
  <2>1. PICK l \in Nat : l = Len(s) /\ DOMAIN s = 1 .. l /\ \A i \in 1 .. l : s[i] \in I
    OBVIOUS
  <2>2. M(s) \in Seq(I) /\ Len(M(s)) = l /\ \A i \in 1 .. l : M(s)[i] = PlainItem(s[i])
    BY <2>1, PlainItemType
  <2>3. /\ Append(s, x) \in Seq(I) /\ DOMAIN Append(s, x) = 1 .. l + 1
        /\ \A i \in 1 .. l : Append(s, x)[i] = s[i]
        /\ Append(s, x)[l + 1] = x
    BY <2>1, AppendProperties
  <2>4. PlainItem(x) \in I
    BY PlainItemType
  <2>5. /\ Append(M(s), PlainItem(x)) \in Seq(I) /\ Len(Append(M(s), PlainItem(x))) = l + 1
        /\ \A i \in 1 .. l : Append(M(s), PlainItem(x))[i] = M(s)[i]
        /\ Append(M(s), PlainItem(x))[l + 1] = PlainItem(x)
    <3> HIDE DEF M
    <3> QED BY <2>2, <2>4, AppendProperties
  <2>6. M(Append(s, x)) \in Seq(I) /\ Len(M(Append(s, x))) = l + 1
        /\ \A i \in 1 .. l + 1 : M(Append(s, x))[i] = PlainItem(Append(s, x)[i])
    <3>1. \A i \in 1 .. l + 1 : Append(s, x)[i] \in I
      BY <2>3
    <3> QED BY <2>3, <3>1, PlainItemType
  <2>7. \A i \in 1 .. l + 1 : M(Append(s, x))[i] = Append(M(s), PlainItem(x))[i]
    <3> SUFFICES ASSUME NEW i \in 1 .. l + 1
                 PROVE  M(Append(s, x))[i] = Append(M(s), PlainItem(x))[i]
      OBVIOUS
    <3> HIDE DEF M
    <3>1. i \in 1 .. l \/ i = l + 1
      OBVIOUS
    <3> QED BY <2>2, <2>3, <2>5, <2>6, <3>1
  <2> HIDE DEF M
  <2> QED BY <2>5, <2>6, <2>7, SeqEqual
<1>3. PICK h \in [0 .. n -> Seq(I)] : Leaves(h, f, gone, n)
  <2>1. \A i \in (1 .. Len(f)) \ gone : f[i] \in I
    BY <1>0
  <2>2. \E h \in [0 .. Len(f) -> Seq(I)] : Leaves(h, f, gone, Len(f))
    BY <2>1, LeavesExists, Zenon
  <2> QED BY <1>0, <2>2, Zenon
<1>4. Without(f, gone) = h[n]
  <2>1. DOMAIN h = 0 .. Len(f) /\ h = [i \in 0 .. Len(f) |-> h[i]]
    BY <1>0, <1>3
  <2> QED BY <1>0, <1>3, <2>1, WithoutIsLast
<1> DEFINE k == [i \in 0 .. n |-> M(h[i])]
<1>5. Leaves(k, r, gone, n)
  <2>1. k[0] = <<>>
    <3>1. k[0] = M(h[0]) /\ h[0] = <<>>
      BY <1>3 DEF Leaves
    <3>2. DOMAIN <<>> = {} /\ M(<<>>) = <<>>
      OBVIOUS
    <3> QED BY <3>1, <3>2
  <2>2. ASSUME NEW i \in 1 .. n
        PROVE  k[i] = IF i \in gone THEN k[i - 1] ELSE Append(k[i - 1], r[i])
    <3>1. i \in 0 .. n /\ i - 1 \in 0 .. n
      OBVIOUS
    <3>2. h[i] = IF i \in gone THEN h[i - 1] ELSE Append(h[i - 1], f[i])
      BY <1>3 DEF Leaves
    <3>3. k[i] = M(h[i]) /\ k[i - 1] = M(h[i - 1])
      BY <3>1
    <3>4. h[i - 1] \in Seq(I) /\ f[i] \in I /\ r[i] = PlainItem(f[i])
      BY <1>0, <1>1, <1>3, <3>1
    <3>5. M(Append(h[i - 1], f[i])) = Append(M(h[i - 1]), r[i])
      BY <1>2, <3>4, ZenonT(60)
    <3> HIDE DEF M, k
    <3> QED BY <3>2, <3>3, <3>5
  <2> HIDE DEF k
  <2> QED BY <2>1, <2>2 DEF Leaves
<1>6. DOMAIN k = 0 .. n /\ k = [i \in 0 .. n |-> k[i]] /\ k[n] = M(h[n])
  OBVIOUS
<1>7. Without(r, gone) = M(h[n])
  <2> HIDE DEF k, M
  <2>1. DOMAIN k = 0 .. Len(r) /\ k = [i \in 0 .. Len(r) |-> k[i]] /\ Leaves(k, r, gone, Len(r))
    BY <1>1, <1>5, <1>6
  <2>2. Without(r, gone) = k[Len(r)]
    BY <1>1, <2>1, WithoutIsLast
  <2> QED BY <1>1, <1>6, <2>2
<1> QED BY <1>4, <1>7

\* Only the emulation and what it emulates are connected to nets named after the
\* emulation, and these nets stand for those of the original.
Emulated(f) ==
    /\ \A i \in DOMAIN f : f[i].kind \notin Originals \cup Emulation => ~ Suffixed(f[i])
    /\ \A i \in Of(f, Emulation), j \in Of(f, Originals) :
          \A p \in Ports \cap DOMAIN f[i].map : Unsuffixed(f[i].map[p]) = f[j].map[p]

\* What an edit of a Verilog file does.
LEMMA VerilogRewires ==
    ASSUME NEW Kind, NEW Name, NEW Net, NEW f \in Seq(Items(Kind, Name, Net)),
           ~ VerilogRefuses(f), ~ VerilogRaises(f), NEW g, g = VerilogEdited(f)
    PROVE  /\ \A i \in Of(g, Emulation) :
                \A p \in Ports \cap DOMAIN g[i].map : g[i].map[p] = First(f, Originals).map[p]
           /\ Of(g, {"H19SOFT"}) = {}
           /\ Others(g) = Others(f)
<1> DEFINE I == Items(Kind, Name, Net)
           r == [i \in DOMAIN f |-> IF i \in Of(f, Emulation) THEN Remapped(f) ELSE f[i]]
           gone == Of(f, {"H19SOFT", "tap"}) \cup EatenCommas(f)
<1>1. /\ g \in Seq(I)
      /\ \A i \in DOMAIN g :
           /\ g[i].kind \notin {"H19SOFT", "tap"}
           /\ g[i].kind \in Emulation => g[i] = Remapped(f)
  BY VerilogLeaves
<1>2. /\ Remapped(f) \in I /\ Remapped(f).kind \in Emulation
      /\ \A p \in Ports \cap DOMAIN Remapped(f).map :
            Remapped(f).map[p] = First(f, Originals).map[p]
  BY RemappedType
<1>3. \A i \in Of(g, Emulation) :
        \A p \in Ports \cap DOMAIN g[i].map : g[i].map[p] = First(f, Originals).map[p]
  BY <1>1, <1>2 DEF Of
<1>4. Of(g, {"H19SOFT"}) = {}
  BY <1>1 DEF Of
<1>5. r \in Seq(I) /\ Len(r) = Len(f) /\ DOMAIN f = 1 .. Len(f)
  BY <1>2
<1>6. \A i \in 1 .. Len(f) : /\ r[i].kind \in Replaced <=> f[i].kind \in Replaced
                             /\ f[i].kind \notin Replaced => r[i] = f[i] /\ i \notin gone
  <2> SUFFICES ASSUME NEW i \in 1 .. Len(f)
               PROVE  /\ r[i].kind \in Replaced <=> f[i].kind \in Replaced
                      /\ f[i].kind \notin Replaced => r[i] = f[i] /\ i \notin gone
    OBVIOUS
  <2>1. i \in gone => f[i].kind \in Replaced
    BY DEF Of, EatenCommas, Replaced, Originals
  <2>2. i \in Of(f, Emulation) <=> f[i].kind \in Emulation
    BY <1>5 DEF Of
  <2>3. r[i] = IF i \in Of(f, Emulation) THEN Remapped(f) ELSE f[i]
    BY <1>5
  <2> HIDE DEF r, gone
  <2> QED BY <1>2, <2>1, <2>2, <2>3 DEF Replaced
<1>7. g = Without(r, gone)
  BY DEF VerilogEdited
<1>8. Others(g) = Others(f)
  <2> HIDE DEF r, gone
  <2> QED BY <1>5, <1>6, <1>7, OthersKept
<1> QED BY <1>3, <1>4, <1>8

\* What an edit of a VHDL file does.
LEMMA VhdlRewires ==
    ASSUME NEW Kind, NEW Name, NEW N, NEW f \in Seq(Items(Kind, Name, Nets(N))),
           Emulated(f), ~ VhdlRefuses(f), NEW g, g = VhdlEdited(f)
    PROVE  /\ g \in Seq(Items(Kind, Name, Nets(N))) /\ Emulated(g)
           /\ \A i \in Of(g, Emulation) :
                \A p \in Ports \cap DOMAIN g[i].map : g[i].map[p] = First(f, Originals).map[p]
           /\ Of(g, {"H19SOFT"}) = {}
           /\ Others(g) = Others(f)
<1> DEFINE I == Items(Kind, Name, Nets(N))
           r == [i \in DOMAIN f |-> PlainItem(f[i])]
           gone == Of(f, Originals)
           T == {x \in I : \E j \in DOMAIN f : /\ x = PlainItem(f[j])
                                               /\ f[j].kind \notin Originals}
<1>1. DOMAIN f = 1 .. Len(f) /\ \A i \in 1 .. Len(f) : f[i] \in I
  OBVIOUS
<1>2. r \in Seq(I) /\ Len(r) = Len(f) /\ \A i \in 1 .. Len(f) : r[i] = PlainItem(f[i])
  BY <1>1, PlainItemType
<1>3. g = Without(r, gone)
  <2>1. VhdlEdited(f) = [i \in DOMAIN Without(f, gone) |-> PlainItem(Without(f, gone)[i])]
    BY DEF VhdlEdited, PlainItem
  <2> HIDE DEF gone
  <2> QED BY <2>1, PlainWithout
<1>4. g \in Seq(T)
  <2>1. ASSUME NEW i \in (1 .. Len(r)) \ gone PROVE r[i] \in T
    <3>1. i \in 1 .. Len(f) /\ f[i].kind \notin Originals
      BY <1>1, <1>2 DEF Of
    <3>2. PlainItem(f[i]) \in I
      BY <1>1, <3>1, PlainItemType
    <3> QED BY <1>1, <1>2, <3>1, <3>2
  <2> HIDE DEF r, gone, T
  <2> QED BY <1>2, <1>3, <2>1, WithoutType
<1>5. ASSUME NEW i \in DOMAIN g
      PROVE  \E j \in DOMAIN f : /\ g[i] = PlainItem(f[j]) /\ f[j] \in I
                                 /\ g[i].kind = f[j].kind /\ f[j].kind \notin Originals
  <2>1. g[i] \in T
    BY <1>4
  <2>2. PICK j \in DOMAIN f : g[i] = PlainItem(f[j]) /\ f[j].kind \notin Originals
    BY <2>1
  <2>3. f[j] \in I
    BY <1>1, <2>2
  <2> QED BY <2>2, <2>3, PlainItemType
<1>6. g \in Seq(I)
  BY <1>4
<1>7. ASSUME NEW i \in DOMAIN g PROVE ~ Suffixed(g[i]) /\ g[i].kind \notin Originals
  <2>1. PICK j \in DOMAIN f : g[i] = PlainItem(f[j]) /\ f[j] \in I
                              /\ g[i].kind = f[j].kind /\ f[j].kind \notin Originals
    BY <1>5
  <2> QED BY <2>1, PlainItemType
<1>8. Emulated(g) /\ Of(g, {"H19SOFT"}) = {}
  BY <1>7 DEF Emulated, Of, Originals
<1>9. ASSUME NEW i \in Of(g, Emulation), NEW p \in Ports \cap DOMAIN g[i].map
      PROVE  g[i].map[p] = First(f, Originals).map[p]
  <2>1. PICK j \in DOMAIN f : g[i] = PlainItem(f[j]) /\ f[j] \in I
                              /\ g[i].kind = f[j].kind /\ f[j].kind \notin Originals
    BY <1>5 DEF Of
  <2>2. p \in Ports \cap DOMAIN f[j].map /\ g[i].map[p] = Unsuffixed(f[j].map[p])
    BY <2>1, PlainItemType
  <2>3. PICK o \in Of(f, Originals) : First(f, Originals) = f[o]
    BY FirstOf DEF VhdlRefuses
  <2>4. j \in Of(f, Emulation)
    BY <2>1 DEF Of
  <2> QED BY <2>2, <2>3, <2>4 DEF Emulated
<1>10. Others(g) = Others(f)
  <2>1. ASSUME NEW i \in 1 .. Len(f)
        PROVE  /\ r[i].kind \in Replaced <=> f[i].kind \in Replaced
               /\ f[i].kind \notin Replaced => r[i] = f[i] /\ i \notin gone
    <3>1. r[i] = PlainItem(f[i]) /\ f[i] \in I
      BY <1>1, <1>2
    <3>2. r[i].kind = f[i].kind /\ (~ Suffixed(f[i]) => r[i] = f[i])
      BY <3>1, PlainItemType
    <3>3. i \in gone => f[i].kind \in Replaced
      BY DEF Of, Replaced
    <3>4. f[i].kind \notin Replaced => ~ Suffixed(f[i])
      BY <1>1 DEF Emulated, Replaced
    <3> HIDE DEF gone, r
    <3> QED BY <3>2, <3>3, <3>4
  <2> HIDE DEF r, gone
  <2> QED BY <1>2, <1>3, <2>1, OthersKept
<1> QED BY <1>6, <1>8, <1>9, <1>10

\* The files an edit is made for.
FilesOf(Kind, Name, N, s) ==
    {f \in Seq(Items(Kind, Name, Nets(N))) : s = "vhd" => Emulated(f)}

\* The beginnings of such a file, and the file edited, are such files.
LEMMA FilesClosed ==
    ASSUME NEW Kind, NEW Name, NEW N, NEW s, NEW f \in FilesOf(Kind, Name, N, s)
    PROVE  /\ Beginnings(f) \subseteq FilesOf(Kind, Name, N, s)
           /\ <<>> \in FilesOf(Kind, Name, N, s)
           /\ ~ Refuses(s, f) /\ ~ Raises(s, f) => Edited(s, f) \in FilesOf(Kind, Name, N, s)
<1> DEFINE I == Items(Kind, Name, Nets(N))
<1>1. f \in Seq(I) /\ (s = "vhd" => Emulated(f))
  BY DEF FilesOf
<1>2. ASSUME NEW b \in Beginnings(f) PROVE b \in FilesOf(Kind, Name, N, s)
  <2>1. PICK l \in Nat : l = Len(f) /\ DOMAIN f = 1 .. l
    BY <1>1
  <2>2. PICK n \in 0 .. l : b = SubSeq(f, 1, n)
    <3>1. PICK n \in 0 .. Len(f) - 1 : b = SubSeq(f, 1, n)
      BY DEF Beginnings
    <3> QED BY <2>1, <3>1
  <2>3. b \in Seq(I) /\ DOMAIN b = 1 .. n /\ \A i \in 1 .. n : b[i] = f[i] /\ i \in DOMAIN f
    BY <1>1, <2>1, <2>2
  <2>4. Emulated(f) => Emulated(b)
    <3> SUFFICES ASSUME Emulated(f) PROVE Emulated(b)
      OBVIOUS
    <3>1. \A i \in DOMAIN b : b[i].kind \notin Originals \cup Emulation => ~ Suffixed(b[i])
      BY <2>3 DEF Emulated
    <3>2. \A kinds : \A i \in Of(b, kinds) : i \in Of(f, kinds) /\ b[i] = f[i]
      BY <2>3 DEF Of
    <3>3. ASSUME NEW i \in Of(b, Emulation), NEW j \in Of(b, Originals),
                 NEW p \in Ports \cap DOMAIN b[i].map
          PROVE  Unsuffixed(b[i].map[p]) = b[j].map[p]
      <4>1. i \in Of(f, Emulation) /\ b[i] = f[i] /\ j \in Of(f, Originals) /\ b[j] = f[j]
        BY <3>2
      <4> QED BY <4>1 DEF Emulated
    <3> QED BY <3>1, <3>3 DEF Emulated
  <2> QED BY <1>1, <2>3, <2>4 DEF FilesOf
<1>3. <<>> \in FilesOf(Kind, Name, N, s)
  <2>1. Emulated(<<>>)
    BY DEF Emulated, Of
  <2> QED BY <2>1 DEF FilesOf
<1>4. ASSUME ~ Refuses(s, f), ~ Raises(s, f) PROVE Edited(s, f) \in FilesOf(Kind, Name, N, s)
  <2>1. CASE s = "v"
    <3>1. ~ VerilogRefuses(f) /\ ~ VerilogRaises(f) /\ Edited(s, f) = VerilogEdited(f)
      BY <1>4, <2>1 DEF Refuses, Raises, Edited
    <3>2. VerilogEdited(f) \in Seq(I)
      BY <1>1, <3>1, VerilogLeaves
    <3> QED BY <2>1, <3>1, <3>2 DEF FilesOf
  <2>2. CASE s # "v"
    <3>1. s = "vhd" /\ ~ VhdlRefuses(f) /\ Edited(s, f) = VhdlEdited(f) /\ Emulated(f)
      BY <1>1, <1>4, <2>2 DEF Refuses, Raises, Edited
    <3>2. VhdlEdited(f) \in Seq(I) /\ Emulated(VhdlEdited(f))
      BY <1>1, <3>1, VhdlRewires
    <3> QED BY <3>1, <3>2 DEF FilesOf
  <2> QED BY <2>1, <2>2
<1> QED BY <1>2, <1>3, <1>4

\* F[s] holds every file that a suffix s may come to: the tool's and the user's, what
\* is left when one is cut short, and the file edited.
Closed(F) ==
    \A s \in DOMAIN Outputs :
      /\ Outputs[s] \subseteq F[s]
      /\ \A c \in Settings : {c.hck, c.hack} \subseteq F[s] \cup {Absent}
      /\ \A f \in F[s] : /\ Beginnings(f) \subseteq F[s] /\ <<>> \in F[s]
                         /\ ~ Refuses(s, f) /\ ~ Raises(s, f) => Edited(s, f) \in F[s]

\* The text is the tool's file edited, and so is the file after that.
WireInv(F) ==
    /\ suffix \in DOMAIN Outputs /\ setting \in Settings
    /\ top \in F[suffix] \cup {Absent}
    /\ pc = "editor" => top # Absent
    /\ pc \in {"truncate", "write"} =>
         tool \in F[suffix] /\ Fine(tool) /\ text = Edited(suffix, tool)
    /\ pc = "write" => top = <<>>
    /\ Ended({"edited"}) => tool \in F[suffix] /\ Fine(tool) /\ top = Edited(suffix, tool)

\* WireInv is kept by every step.
LEMMA WireInvKept ==
    ASSUME NEW Files, Closed(Files), FlowInv, WireInv(Files), [Next]_vars
    PROVE  WireInv(Files)'
<1> DEFINE F == Files[suffix]
<1>a. /\ Outputs[suffix] \subseteq F
      /\ {setting.hck, setting.hack} \subseteq F \cup {Absent}
      /\ suffix \in DOMAIN Outputs /\ setting \in Settings
      /\ top \in F \cup {Absent}
      /\ pc = "editor" => top # Absent
      /\ pc \in {"truncate", "write"} => tool \in F /\ Fine(tool) /\ text = Edited(suffix, tool)
      /\ pc = "write" => top = <<>>
      /\ Ended({"edited"}) => tool \in F /\ Fine(tool) /\ top = Edited(suffix, tool)
  BY DEF WireInv, Closed
<1>b. suffix' = suffix => (WireInv(Files)' <=>
        (/\ setting' \in Settings
         /\ top' \in F \cup {Absent}
         /\ pc' = "editor" => top' # Absent
         /\ pc' \in {"truncate", "write"} =>
              tool' \in F /\ Fine(tool)' /\ text' = Edited(suffix, tool')
         /\ pc' = "write" => top' = <<>>
         /\ Ended({"edited"})' => tool' \in F /\ Fine(tool)' /\ top' = Edited(suffix, tool')))
  BY <1>a DEF WireInv
<1>c. suffix' = suffix
  BY DEF Next, Start, Istflow, Leave, UseHck, CopyOrig, Copying, NoEditor, RvlCpy, EditText, EditBlob,
         Truncate, Write, RemoveTemp, Abort, vars
<1>d. \A f \in F : Beginnings(f) \subseteq F /\ <<>> \in F /\ (Fine(f) => Edited(suffix, f) \in F)
  BY <1>a DEF Closed, Fine
<1>e. tool' = tool => Fine(tool)' = Fine(tool)
  BY <1>c DEF Fine
<1> HIDE DEF F
<1> USE DEF End, Goto, Ended
<1>1. CASE Start
  BY <1>1, <1>a, <1>b, <1>c, <1>e DEF Start
<1>2. CASE Istflow
  BY <1>2, <1>a, <1>b, <1>c, <1>d DEF Istflow
<1>3. CASE Leave
  BY <1>3, <1>a, <1>b, <1>c, <1>e DEF Leave
<1>4. CASE UseHck
  BY <1>4, <1>a, <1>b, <1>c, <1>e DEF UseHck
<1>5. CASE CopyOrig
  BY <1>5, <1>a, <1>b, <1>c, <1>e DEF CopyOrig, Copying
<1>6. CASE NoEditor
  BY <1>6, <1>a, <1>b, <1>c, <1>e DEF NoEditor
<1>7. CASE RvlCpy
  BY <1>7, <1>a, <1>b, <1>c, <1>e DEF RvlCpy
<1>8. CASE EditText
  <2>1. top = tool
    BY <1>8 DEF EditText, EditBlob, FlowInv, InScript
  <2> QED BY <1>8, <2>1, <1>a, <1>b, <1>c, <1>e DEF EditText, EditBlob, Fine
<1>9. CASE Truncate
  BY <1>9, <1>a, <1>b, <1>c, <1>d, <1>e DEF Truncate
<1>10. CASE Write
  <2>1. top' = text
    BY <1>10, <1>a DEF Write, Overwritten
  <2> QED BY <1>10, <2>1, <1>a, <1>b, <1>c, <1>d, <1>e DEF Write
<1>11. CASE RemoveTemp
  BY <1>11, <1>a, <1>b, <1>c, <1>e DEF RemoveTemp
<1>12. CASE Abort
  <2>1. pc' = "idle" /\ result' \in {"aborted", "cut"}
    BY <1>12 DEF Abort, End
  <2>2. top' \in F \cup {Absent}
    <3>1. pc = "write" => \A t : Overwritten(top, t) = t
      BY <1>a DEF Overwritten
    <3> QED BY <1>12, <3>1, <1>a, <1>d DEF Abort
  <2> QED BY <1>12, <2>1, <2>2, <1>a, <1>b, <1>c DEF Abort
<1>13. CASE UNCHANGED vars
  BY <1>13, <1>a, <1>b, <1>c, <1>e DEF vars
<1> QED
  BY <1>1, <1>2, <1>3, <1>4, <1>5, <1>6, <1>7, <1>8, <1>9, <1>10, <1>11, <1>12, <1>13
     DEF Next

\* For any files of items: after an edit the emulation is connected to what the tool's
\* instance was connected to, the soft instance is gone, and the rest is as it was - in
\* a VHDL file, if only the emulation is connected to nets named after it.
THEOREM EditRewires ==
    ASSUME NEW Kind, NEW Name, NEW N,
           \A s \in DOMAIN Outputs : Outputs[s] \subseteq FilesOf(Kind, Name, N, s),
           \A s \in DOMAIN Outputs, c \in Settings :
              {c.hck, c.hack} \subseteq FilesOf(Kind, Name, N, s) \cup {Absent}
    PROVE  Spec => []Rewired
<1> DEFINE F == [s \in DOMAIN Outputs |-> FilesOf(Kind, Name, N, s)]
<1>a. \A s \in DOMAIN Outputs : F[s] = FilesOf(Kind, Name, N, s)
  OBVIOUS
<1> HIDE DEF F
<1>b. Closed(F)
  <2>1. ASSUME NEW s \in DOMAIN Outputs, NEW f \in FilesOf(Kind, Name, N, s)
        PROVE  /\ Beginnings(f) \subseteq FilesOf(Kind, Name, N, s)
               /\ <<>> \in FilesOf(Kind, Name, N, s)
               /\ ~ Refuses(s, f) /\ ~ Raises(s, f) => Edited(s, f) \in FilesOf(Kind, Name, N, s)
    BY FilesClosed
  <2> QED BY <1>a, <2>1 DEF Closed
<1>1. Init => WireInv(F)
  BY DEF Init, WireInv, Ended
<1>2. FlowInv /\ WireInv(F) /\ [Next]_vars => WireInv(F)'
  BY <1>b, WireInvKept
<1>3. WireInv(F) => Rewired
  <2> SUFFICES ASSUME WireInv(F), Ended({"edited"})
               PROVE  /\ \A i \in Of(top, Emulation) :
                           \A p \in Ports \cap DOMAIN top[i].map :
                              top[i].map[p] = First(tool, Originals).map[p]
                      /\ Of(top, {"H19SOFT"}) = {}
                      /\ Others(top) = Others(tool)
    BY DEF Rewired
  <2>1. /\ tool \in Seq(Items(Kind, Name, Nets(N))) /\ (suffix = "vhd" => Emulated(tool))
        /\ ~ Refuses(suffix, tool) /\ ~ Raises(suffix, tool) /\ top = Edited(suffix, tool)
    BY <1>a DEF WireInv, FilesOf, Fine
  <2>2. CASE suffix = "v"
    <3>1. ~ VerilogRefuses(tool) /\ ~ VerilogRaises(tool) /\ top = VerilogEdited(tool)
      BY <2>1, <2>2 DEF Refuses, Raises, Edited
    <3> QED BY <2>1, <3>1, VerilogRewires
  <2>3. CASE suffix # "v"
    <3>1. Emulated(tool) /\ ~ VhdlRefuses(tool) /\ top = VhdlEdited(tool)
      BY <2>1, <2>3 DEF Refuses, Raises, Edited
    <3> QED BY <2>1, <3>1, VhdlRewires
  <2> QED BY <2>2, <2>3
<1> QED
  BY <1>1, <1>2, <1>3, FlowInvariance, PTL DEF Spec

-----------------------------------------------------------------------------
(* What an edit does to the port list. *)

\* Another item behind the others.
LEMMA OnlyAppend ==
    ASSUME NEW S, NEW f \in Seq(S), NEW x \in S, NEW K
    PROVE  Only(Append(f, x), K) = IF x.kind \in K THEN Append(Only(f, K), x) ELSE Only(f, K)
<1> DEFINE g == Append(f, x)
           u == DOMAIN g \ Of(g, K)
           v == DOMAIN f \ Of(f, K)
<1>0. PICK n \in Nat : n = Len(f)
  OBVIOUS
<1>1. /\ g \in Seq(S) /\ Len(g) = n + 1 /\ g[n + 1] = x /\ DOMAIN g = 1 .. n + 1
      /\ DOMAIN f = 1 .. n /\ \A i \in 1 .. n : g[i] = f[i]
  BY <1>0, AppendProperties
<1> HIDE DEF g
<1>2. /\ \A i \in 1 .. n + 1 : i \in u <=> g[i].kind \notin K
      /\ \A i \in 1 .. n : i \in v <=> f[i].kind \notin K
  BY <1>1 DEF Of
<1>3. Only(g, K) = Without(g, u) /\ Only(f, K) = Without(f, v)
  BY DEF Only
<1> HIDE DEF u, v
<1>3a. \A p, q : Leaves(p, g, u, n) /\ Leaves(q, f, v, n) => \A i \in 0 .. n : p[i] = q[i]
  <2>1. \A i \in 1 .. n : (i \in u <=> i \in v) /\ (i \notin u => g[i] = f[i])
    <3>1. \A i \in 1 .. n : i \in 1 .. n + 1
      OBVIOUS
    <3> QED BY <1>1, <1>2, <3>1, Zenon
  <2> QED BY <2>1, LeavesUnique
<1>4. PICK h \in [0 .. n + 1 -> Seq(S)] : Leaves(h, g, u, n + 1)
  <2>1. \A i \in (1 .. Len(g)) \ u : g[i] \in S
    BY <1>1
  <2> QED BY <1>1, <2>1, LeavesExists, ZenonT(60)
<1>5. Without(g, u) = h[n + 1]
  <2>1. DOMAIN h = 0 .. Len(g) /\ h = [i \in 0 .. Len(g) |-> h[i]]
    BY <1>1, <1>4
  <2> QED BY <1>1, <1>4, <2>1, WithoutIsLast
<1>6. PICK k \in [0 .. n -> Seq(S)] : Leaves(k, f, v, n)
  <2>1. \A i \in (1 .. Len(f)) \ v : f[i] \in S
    OBVIOUS
  <2> QED BY <1>0, <2>1, LeavesExists
<1>7. Without(f, v) = k[n]
  <2>1. DOMAIN k = 0 .. Len(f) /\ k = [i \in 0 .. Len(f) |-> k[i]]
    BY <1>0, <1>6
  <2> QED BY <1>0, <1>6, <2>1, WithoutIsLast
<1>8. h[n] = k[n]
  <2>1. Leaves(h, g, u, n)
    <3>1. \A i \in 1 .. n : i \in 1 .. n + 1
      OBVIOUS
    <3> QED BY <1>4, <3>1 DEF Leaves
  <2>4. \A i \in 0 .. n : h[i] = k[i]
    BY <1>6, <1>3a, <2>1, ZenonT(60)
  <2> QED BY <1>0, <2>4
<1>9. h[n + 1] = IF n + 1 \in u THEN h[n] ELSE Append(h[n], x)
  <2>1. n + 1 \in 1 .. n + 1 /\ (n + 1) - 1 = n
    OBVIOUS
  <2> QED BY <1>1, <1>4, <2>1 DEF Leaves
<1>10. n + 1 \in u <=> x.kind \notin K
  <2>1. n + 1 \in 1 .. n + 1
    OBVIOUS
  <2> QED BY <1>1, <1>2, <2>1
<1>11. Only(g, K) = IF x.kind \in K THEN Append(Only(f, K), x) ELSE Only(f, K)
  BY <1>3, <1>5, <1>7, <1>8, <1>9, <1>10
<1> QED BY <1>11 DEF g

\* Removing items and then all but those of some kinds.
LEMMA OnlyWithout ==
    ASSUME NEW S, NEW r \in Seq(S), NEW gone, NEW K
    PROVE  Only(Without(r, gone), K) = Without(r, gone \cup (DOMAIN r \ Of(r, K)))
<1> DEFINE lost == gone \cup (DOMAIN r \ Of(r, K))
<1>0. PICK n \in Nat : n = Len(r) /\ DOMAIN r = 1 .. n
  OBVIOUS
<1>1. \A i \in 1 .. n : i \in lost <=> i \in gone \/ r[i].kind \notin K
  BY <1>0 DEF Of
<1> HIDE DEF lost
<1>2. PICK h \in [0 .. n -> Seq(S)] : Leaves(h, r, gone, n)
  <2>1. \A i \in (1 .. Len(r)) \ gone : r[i] \in S
    OBVIOUS
  <2>2. \E h \in [0 .. Len(r) -> Seq(S)] : Leaves(h, r, gone, Len(r))
    BY <2>1, LeavesExists, Zenon
  <2> QED BY <1>0, <2>2, Zenon
<1>3. Without(r, gone) = h[n]
  <2>1. DOMAIN h = 0 .. Len(r) /\ h = [i \in 0 .. Len(r) |-> h[i]]
    BY <1>0, <1>2
  <2> QED BY <1>0, <1>2, <2>1, WithoutIsLast, SMTT(60)
<1>4. PICK k \in [0 .. n -> Seq(S)] : Leaves(k, r, lost, n)
  <2>1. \A i \in (1 .. Len(r)) \ lost : r[i] \in S
    OBVIOUS
  <2>2. \E u \in [0 .. Len(r) -> Seq(S)] : Leaves(u, r, lost, Len(r))
    BY <2>1, LeavesExists, Zenon
  <2> QED BY <1>0, <2>2, Zenon
<1>5. Without(r, lost) = k[n]
  <2>1. DOMAIN k = 0 .. Len(r) /\ k = [i \in 0 .. Len(r) |-> k[i]]
    BY <1>0, <1>4
  <2> QED BY <1>0, <1>4, <2>1, WithoutIsLast, SMTT(60)
<1> DEFINE G == {i \in 0 .. n : Only(h[i], K) = k[i]}
<1>6. 0 \in G
  <2>1. h[0] = <<>> /\ k[0] = <<>>
    BY <1>2, <1>4 DEF Leaves
  <2>2. Only(<<>>, K) = <<>>
    <3>1. DOMAIN <<>> \ Of(<<>>, K) = {}
      OBVIOUS
    <3>2. <<>> \in Seq(S)
      OBVIOUS
    <3>3. Without(<<>>, {}) = <<>>
      BY <3>2, WithoutNone
    <3> QED BY <3>1, <3>3 DEF Only
  <2> QED BY <2>1, <2>2
<1>7. ASSUME NEW i \in 0 .. n - 1, i \in G PROVE i + 1 \in G
  <2>1. i + 1 \in 1 .. n /\ i + 1 \in 0 .. n /\ (i + 1) - 1 = i /\ i \in 0 .. n
    OBVIOUS
  <2>2. h[i] \in Seq(S) /\ r[i + 1] \in S /\ Only(h[i], K) = k[i]
    BY <1>0, <1>2, <1>7, <2>1
  <2>3. h[i + 1] = IF i + 1 \in gone THEN h[i] ELSE Append(h[i], r[i + 1])
    BY <1>2, <2>1 DEF Leaves
  <2>4. k[i + 1] = IF i + 1 \in lost THEN k[i] ELSE Append(k[i], r[i + 1])
    BY <1>4, <2>1 DEF Leaves
  <2>5. i + 1 \in lost <=> i + 1 \in gone \/ r[i + 1].kind \notin K
    BY <1>1, <2>1
  <2>6. Only(Append(h[i], r[i + 1]), K) =
          IF r[i + 1].kind \in K THEN Append(Only(h[i], K), r[i + 1]) ELSE Only(h[i], K)
    <3>1. PICK s \in Seq(S) : s = h[i]
      BY <2>2
    <3>2. PICK x \in S : x = r[i + 1]
      BY <2>2
    <3>3. Only(Append(s, x), K) = IF x.kind \in K THEN Append(Only(s, K), x) ELSE Only(s, K)
      BY OnlyAppend
    <3> QED BY <3>1, <3>2, <3>3
  <2>7. Only(h[i + 1], K) = k[i + 1]
    BY <2>2, <2>3, <2>4, <2>5, <2>6
  <2> QED BY <2>1, <2>7
<1>8. n \in G
  <2> HIDE DEF G
  <2> QED BY <1>6, <1>7, ClimbFrom0
<1> QED BY <1>3, <1>5, <1>8 DEF lost

\* e[c] is what is left of the first c items of the n behind the first a of r.
Grows(e, r, gone, a, n) ==
    /\ e[0] = <<>>
    /\ \A c \in 0 .. n - 1 :
         e[c + 1] = IF a + c + 1 \in gone THEN e[c] ELSE Append(e[c], r[a + c + 1])

\* All but these n items go.
AllBut(r, gone, a, n) ==
    /\ a \in Nat /\ n \in Nat /\ a + n <= Len(r)
    /\ \A i \in 1 .. Len(r) : i <= a \/ i > a + n => i \in gone

\* If all but a stretch of the items goes, what is left grows along that stretch.
LEMMA WithoutWindow ==
    ASSUME NEW S, NEW r \in Seq(S), NEW gone, NEW a, NEW n, AllBut(r, gone, a, n)
    PROVE  \E e \in [0 .. n -> Seq(S)] : Grows(e, r, gone, a, n) /\ Without(r, gone) = e[n]
<1>0. PICK m \in Nat : m = Len(r)
  OBVIOUS
<1>a. /\ a \in Nat /\ n \in Nat /\ a + n <= m
      /\ \A i \in 1 .. m : i <= a \/ i > a + n => i \in gone
  BY <1>0 DEF AllBut
<1>1. PICK h \in [0 .. m -> Seq(S)] : Leaves(h, r, gone, m)
  <2>1. \A i \in (1 .. Len(r)) \ gone : r[i] \in S
    OBVIOUS
  <2>2. \E h \in [0 .. Len(r) -> Seq(S)] : Leaves(h, r, gone, Len(r))
    BY <2>1, LeavesExists, Zenon
  <2> QED BY <1>0, <2>2, Zenon
<1>2. Without(r, gone) = h[m]
  <2>1. DOMAIN h = 0 .. Len(r) /\ h = [i \in 0 .. Len(r) |-> h[i]]
    BY <1>0, <1>1
  <2>2. Leaves(h, r, gone, Len(r))
    BY <1>0, <1>1
  <2>3. Without(r, gone) = h[Len(r)]
    BY <2>1, <2>2, WithoutIsLast
  <2> QED BY <1>0, <2>3
<1>3. h[0] = <<>> /\ \A i \in 0 .. m - 1 :
        h[i + 1] = IF i + 1 \in gone THEN h[i] ELSE Append(h[i], r[i + 1])
  <2>1. ASSUME NEW i \in 0 .. m - 1
        PROVE  h[i + 1] = IF i + 1 \in gone THEN h[i] ELSE Append(h[i], r[i + 1])
    <3>1. i + 1 \in 1 .. m /\ (i + 1) - 1 = i
      OBVIOUS
    <3> QED BY <1>1, <3>1 DEF Leaves
  <2> QED BY <1>1, <2>1 DEF Leaves
<1>4. h[a] = <<>>
  <2> DEFINE G == {i \in 0 .. a : h[i] = <<>>}
  <2>1. 0 \in G
    BY <1>a, <1>3
  <2>2. ASSUME NEW i \in 0 .. a - 1, i \in G PROVE i + 1 \in G
    <3>1. i \in 0 .. m - 1 /\ i + 1 \in gone /\ i + 1 \in 0 .. a
      BY <1>a, <1>0
    <3> QED BY <1>3, <2>2, <3>1
  <2> HIDE DEF G
  <2>3. a \in G
    BY <2>1, <2>2, <1>a, ClimbFrom0
  <2> QED BY <2>3 DEF G
<1>5. h[m] = h[a + n]
  <2> DEFINE G == {i \in 0 .. m - (a + n) : h[a + n + i] = h[a + n]}
  <2>1. 0 \in G
    BY <1>a, <1>0
  <2>2. ASSUME NEW i \in 0 .. (m - (a + n)) - 1, i \in G PROVE i + 1 \in G
    <3>1. a + n + i \in 0 .. m - 1 /\ a + n + i + 1 \in gone /\ i + 1 \in 0 .. m - (a + n)
          /\ a + n + (i + 1) = (a + n + i) + 1
      BY <1>a, <1>0
    <3> QED BY <1>3, <2>2, <3>1
  <2>3. m - (a + n) \in Nat /\ a + n + (m - (a + n)) = m
    BY <1>a, <1>0
  <2> HIDE DEF G
  <2>4. m - (a + n) \in G
    BY <2>1, <2>2, <2>3, ClimbFrom0
  <2> QED BY <2>3, <2>4 DEF G
<1> DEFINE e == [c \in 0 .. n |-> h[a + c]]
<1>6. e \in [0 .. n -> Seq(S)] /\ e[0] = h[a] /\ e[n] = h[a + n]
  <2>1. \A c \in 0 .. n : a + c \in 0 .. m
    BY <1>a, <1>0
  <2>2. \A c \in 0 .. n : h[a + c] \in Seq(S)
    BY <1>1, <2>1
  <2>3. a + 0 = a /\ 0 \in 0 .. n /\ n \in 0 .. n
    BY <1>a
  <2> QED BY <2>2, <2>3
<1>7. ASSUME NEW c \in 0 .. n - 1
      PROVE  e[c + 1] = IF a + c + 1 \in gone THEN e[c] ELSE Append(e[c], r[a + c + 1])
  <2>1. c \in 0 .. n /\ c + 1 \in 0 .. n /\ a + c \in 0 .. m - 1 /\ (a + c) + 1 = a + c + 1
        /\ a + (c + 1) = a + c + 1
    BY <1>a, <1>0
  <2>2. e[c] = h[a + c] /\ e[c + 1] = h[a + c + 1]
    BY <2>1
  <2> QED BY <1>3, <2>1, <2>2
<1> HIDE DEF e
<1>8. Grows(e, r, gone, a, n)
  BY <1>4, <1>6, <1>7 DEF Grows
<1> QED BY <1>2, <1>5, <1>6, <1>8

\* Just the others go.
Exactly(r, gone, a, n) ==
    /\ a \in Nat /\ n \in Nat /\ a + n <= Len(r)
    /\ \A i \in 1 .. Len(r) : i \in gone <=> i <= a \/ i > a + n

\* If nothing goes from the stretch, the stretch is left.
LEMMA WithoutOutside ==
    ASSUME NEW S, NEW r \in Seq(S), NEW gone, NEW a, NEW n, Exactly(r, gone, a, n)
    PROVE  /\ Without(r, gone) \in Seq(S) /\ Len(Without(r, gone)) = n
           /\ \A c \in 1 .. n : Without(r, gone)[c] = r[a + c]
<1>0. /\ a \in Nat /\ n \in Nat /\ a + n <= Len(r)
      /\ \A i \in 1 .. Len(r) : i \in gone <=> i <= a \/ i > a + n
  BY DEF Exactly
<1>1. PICK e \in [0 .. n -> Seq(S)] : Grows(e, r, gone, a, n) /\ Without(r, gone) = e[n]
  <2>1. AllBut(r, gone, a, n)
    BY <1>0 DEF AllBut
  <2> QED BY <2>1, WithoutWindow
<1> DEFINE G == {c \in 0 .. n : Len(e[c]) = c /\ \A d \in 1 .. c : e[c][d] = r[a + d]}
<1>2. 0 \in G
  BY <1>0, <1>1 DEF Grows
<1>3. ASSUME NEW c \in 0 .. n - 1, c \in G PROVE c + 1 \in G
  <2>1. /\ a + c + 1 \in 1 .. Len(r) /\ a + c + 1 \notin gone
        /\ c \in 0 .. n /\ c + 1 \in 0 .. n /\ a + (c + 1) = a + c + 1
    BY <1>0
  <2>2. e[c + 1] = Append(e[c], r[a + c + 1])
    BY <1>0, <1>1, <2>1 DEF Grows
  <2>3. e[c] \in Seq(S) /\ Len(e[c]) = c /\ (\A d \in 1 .. c : e[c][d] = r[a + d])
        /\ r[a + c + 1] \in S
    BY <1>0, <1>1, <1>3, <2>1
  <2>4. PICK s \in Seq(S), x \in S : s = e[c] /\ x = r[a + c + 1]
    BY <2>3
  <2>5. Len(Append(s, x)) = c + 1 /\ Append(s, x)[c + 1] = x
        /\ \A d \in 1 .. c : Append(s, x)[d] = s[d]
    BY <2>3, <2>4, AppendProperties
  <2>6. ASSUME NEW d \in 1 .. c + 1 PROVE e[c + 1][d] = r[a + d]
    <3>1. d \in 1 .. c \/ d = c + 1
      BY <2>1
    <3> QED BY <2>1, <2>2, <2>3, <2>4, <2>5, <3>1
  <2>7. Len(e[c + 1]) = c + 1
    BY <2>2, <2>4, <2>5
  <2> QED BY <2>1, <2>6, <2>7
<1>4. n \in G
  <2> HIDE DEF G
  <2> QED BY <1>0, <1>2, <1>3, ClimbFrom0
<1> QED BY <1>0, <1>1, <1>4

Opening == "("
Comma == ","
Closing == ")"

\* The kinds of a port list's items differ.
LEMMA KindsDiffer ==
    /\ Opening # Comma /\ Opening # Closing /\ Comma # Closing
    /\ {Opening, Comma, Closing} \cap {"tap", "port"} = {} /\ "tap" # "port"
    /\ PortKinds = {Opening, Comma, Closing, "tap", "port"}
<1>1. Opening # Comma /\ Opening # Closing /\ Comma # Closing
  BY Zenon DEF Opening, Comma, Closing
<1>2. {Opening, Comma, Closing} \cap {"tap", "port"} = {} /\ "tap" # "port"
  BY Zenon DEF Opening, Comma, Closing
<1>3. PortKinds = {Opening, Comma, Closing, "tap", "port"}
  BY Zenon DEF Opening, Comma, Closing, PortKinds, Declarations
<1> QED BY <1>1, <1>2, <1>3

\* What makes a list of them well-formed.
LEMMA WellFormedKinds ==
    ASSUME NEW l
    PROVE  WellFormed(l) <=>
             /\ Len(l) >= 2 /\ l[1].kind = Opening /\ l[Len(l)].kind = Closing
             /\ \A i \in 2 .. (Len(l) - 1) :
                  \/ l[i].kind \in Declarations /\ l[i + 1].kind \notin Declarations
                  \/ /\ l[i].kind = Comma
                     /\ {l[i - 1].kind, l[i + 1].kind} \subseteq Declarations
BY Zenon DEF WellFormed, Opening, Comma, Closing

\* A list of ports that is not closed yet: an opening, and declarations and commas in turn.
Begun(s) ==
    /\ Len(s) >= 1 /\ s[1].kind = Opening
    /\ \A j \in 2 .. Len(s) : s[j].kind = IF s[j - 1].kind = "port" THEN Comma ELSE "port"

LastKind(s) == s[Len(s)].kind

\* The last item of such a list.
LEMMA BegunLast ==
    ASSUME NEW T, NEW s \in Seq(T), Begun(s)
    PROVE  LastKind(s) \in {Opening, Comma, "port"} /\ (LastKind(s) = Opening <=> Len(s) = 1)
<1>1. Len(s) \in Nat /\ Len(s) >= 1
  BY DEF Begun
<1>2. CASE Len(s) = 1
  BY <1>2, KindsDiffer DEF Begun, LastKind
<1>3. CASE Len(s) # 1
  <2>1. Len(s) \in 2 .. Len(s)
    <3>1. PICK m \in Nat : m = Len(s)
      BY <1>1
    <3> QED BY <1>1, <1>3, <3>1
  <2>2. s[Len(s)].kind = IF s[Len(s) - 1].kind = "port" THEN Comma ELSE "port"
    BY <2>1 DEF Begun
  <2> QED BY <1>3, <2>2, KindsDiffer DEF LastKind
<1> QED BY <1>2, <1>3

\* The next item of such a list.
LEMMA BegunAppend ==
    ASSUME NEW T, NEW s \in Seq(T), NEW x \in T, Begun(s),
           x.kind = IF LastKind(s) = "port" THEN Comma ELSE "port"
    PROVE  /\ Begun(Append(s, x)) /\ LastKind(Append(s, x)) = x.kind
           /\ Len(Append(s, x)) = Len(s) + 1
<1> DEFINE g == Append(s, x)
<1>1. PICK m \in Nat : m = Len(s) /\ m >= 1
  BY DEF Begun
<1>2. Len(g) = m + 1 /\ g[m + 1] = x /\ \A j \in 1 .. m : g[j] = s[j]
  BY <1>1, AppendProperties
<1> HIDE DEF g
<1>3. ASSUME NEW j \in 2 .. m + 1
      PROVE  g[j].kind = IF g[j - 1].kind = "port" THEN Comma ELSE "port"
  <2>1. CASE j = m + 1
    <3>1. j - 1 = m /\ m \in 1 .. m
      BY <1>1, <2>1
    <3>2. g[j] = x /\ g[j - 1] = s[m]
      BY <1>2, <2>1, <3>1
    <3> QED BY <1>1, <3>2 DEF LastKind
  <2>2. CASE j # m + 1
    <3>1. j \in 1 .. m /\ j - 1 \in 1 .. m /\ j \in 2 .. m
      BY <1>1, <2>2
    <3>2. g[j] = s[j] /\ g[j - 1] = s[j - 1]
      BY <1>2, <3>1
    <3> QED BY <1>1, <3>1, <3>2 DEF Begun
  <2> QED BY <2>1, <2>2
<1>4. 1 \in 1 .. m /\ m + 1 >= 1
  BY <1>1
<1>5. Begun(g)
  BY <1>2, <1>3, <1>4 DEF Begun
<1> QED BY <1>1, <1>2, <1>5 DEF g, LastKind

\* The end of such a list.
LEMMA BegunEnds ==
    ASSUME NEW T, NEW s \in Seq(T), NEW x \in T, Begun(s), LastKind(s) # Comma, x.kind = Closing
    PROVE  WellFormed(Append(s, x))
<1> DEFINE g == Append(s, x)
<1>1. PICK m \in Nat : m = Len(s) /\ m >= 1
  BY DEF Begun
<1>2. Len(g) = m + 1 /\ g[m + 1] = x /\ \A j \in 1 .. m : g[j] = s[j]
  BY <1>1, AppendProperties
<1> HIDE DEF g
<1>3. ASSUME NEW j \in 2 .. m
      PROVE  \/ g[j].kind \in Declarations /\ g[j + 1].kind \notin Declarations
             \/ g[j].kind = Comma /\ {g[j - 1].kind, g[j + 1].kind} \subseteq Declarations
  <2>1. j \in 1 .. m /\ j - 1 \in 1 .. m
    BY <1>1
  <2>2. g[j].kind = (IF g[j - 1].kind = "port" THEN Comma ELSE "port")
    BY <1>1, <1>2, <2>1 DEF Begun
  <2>3. CASE j = m
    <3>1. g[j].kind # Comma /\ g[j + 1].kind = Closing
      BY <1>1, <1>2, <2>1, <2>3, KindsDiffer DEF LastKind
    <3> QED BY <2>2, <3>1, KindsDiffer DEF Declarations
  <2>4. CASE j # m
    <3>1. j + 1 \in 1 .. m /\ j + 1 \in 2 .. m /\ (j + 1) - 1 = j
      BY <2>4
    <3>2. g[j + 1].kind = (IF g[j].kind = "port" THEN Comma ELSE "port")
      BY <1>1, <1>2, <2>1, <3>1 DEF Begun
    <3> QED BY <2>2, <3>2, KindsDiffer DEF Declarations
  <2> QED BY <2>3, <2>4
<1>4. 1 \in 1 .. m /\ m + 1 >= 2 /\ (m + 1) - 1 = m
  BY <1>1
<1>5. g[1].kind = Opening
  BY <1>2, <1>4 DEF Begun
<1>6. WellFormed(g)
  BY <1>2, <1>3, <1>4, <1>5, WellFormedKinds
<1> QED BY <1>6 DEF g

\* The items of a port list that an edit removes.
Goes(l, c) ==
    \/ l[c].kind = "tap"
    \/ l[c].kind = Comma /\ (l[c + 1].kind = "tap" \/ (c = 3 /\ l[2].kind = "tap"))

\* What is left of a port list's first c items, when there are more: it ends with a comma
\* only where one of the user's declarations follows.
LeftOf(l, s, c) ==
    /\ Begun(s)
    /\ Len(s) = 1 <=> \A d \in 2 .. c : l[d].kind # "port"
    /\ \/ /\ LastKind(s) # Comma
          /\ l[c].kind = Comma => l[c + 1].kind = "tap" \/ Len(s) = 1
       \/ LastKind(s) = Comma /\ l[c].kind = Comma /\ l[c + 1].kind = "port"

\* What each place of a well-formed list of n items holds.
Places(l, n) ==
    /\ n >= 2 /\ l[1].kind = Opening /\ l[n].kind = Closing
    /\ \A i \in 2 .. n - 1 : l[i].kind \in {"tap", "port"} \/ l[i].kind = Comma
    /\ \A i \in 2 .. n - 1 :
         l[i].kind \in {"tap", "port"} => l[i + 1].kind \notin {"tap", "port"}
    /\ \A i \in 2 .. n - 1 :
         l[i].kind = Comma => /\ l[i - 1].kind \in {"tap", "port"}
                              /\ l[i + 1].kind \in {"tap", "port"}

\* A well-formed list has such places.
LEMMA ListPlaces ==
    ASSUME NEW S, NEW l \in Seq(S), NEW n \in Nat, n = Len(l), WellFormed(l)
    PROVE  Places(l, n)
<1>1. WellFormed(l) <=>
             /\ Len(l) >= 2 /\ l[1].kind = Opening /\ l[Len(l)].kind = Closing
             /\ \A i \in 2 .. (Len(l) - 1) :
                  \/ l[i].kind \in Declarations /\ l[i + 1].kind \notin Declarations
                  \/ /\ l[i].kind = Comma
                     /\ {l[i - 1].kind, l[i + 1].kind} \subseteq Declarations
  BY WellFormedKinds, Zenon
<1>2. Declarations = {"tap", "port"}
  BY DEF Declarations
<1> QED BY <1>1, <1>2, KindsDiffer DEF Places

\* A list that does not begin with two TAP ports has kept one of the user's when a comma
\* stays in it.
LEMMA CommaStays ==
    ASSUME NEW S, NEW l \in Seq(S), NEW n \in Nat, n = Len(l), WellFormed(l),
           ~ BeginsWithTaps(l), NEW c \in 2 .. n - 2, l[c + 1].kind = Comma,
           ~ Goes(l, c + 1)
    PROVE  l[c + 2].kind = "port" /\ ~ \A d \in 2 .. c : l[d].kind # "port"
<1>0. n \in Int /\ c \in Int /\ c + 1 \in 2 .. n - 1 /\ (c + 1) + 1 = c + 2 /\ (c + 1) - 1 = c
  OBVIOUS
<1>1. /\ l[1].kind = Opening
      /\ \A i \in 2 .. n - 1 : l[i].kind \in {"tap", "port"} \/ l[i].kind = Comma
      /\ \A i \in 2 .. n - 1 :
           l[i].kind \in {"tap", "port"} => l[i + 1].kind \notin {"tap", "port"}
      /\ \A i \in 2 .. n - 1 :
           l[i].kind = Comma => /\ l[i - 1].kind \in {"tap", "port"}
                                /\ l[i + 1].kind \in {"tap", "port"}
  BY ListPlaces DEF Places
<1>2. /\ l[c].kind \in {"tap", "port"} /\ l[c + 2].kind = "port"
      /\ ~ (c = 2 /\ l[2].kind = "tap")
  <2>1. l[c].kind \in {"tap", "port"} /\ l[c + 2].kind \in {"tap", "port"}
    BY <1>0, <1>1
  <2>2. l[c + 2].kind # "tap" /\ ~ (c + 1 = 3 /\ l[2].kind = "tap")
    BY <1>0 DEF Goes
  <2> QED BY <1>0, <2>1, <2>2
<1>3. ASSUME \A d \in 2 .. c : l[d].kind # "port" PROVE FALSE
  <2>1. 2 \in 2 .. c /\ c \in 2 .. c /\ 2 \in 2 .. n - 1 /\ 2 - 1 = 1 /\ 2 + 1 = 3
    BY <1>0
  <2>2. l[2].kind = "tap"
    <3>1. l[2].kind # Comma
      BY <1>1, <2>1, KindsDiffer
    <3> QED BY <1>1, <1>3, <2>1, <3>1
  <2>3. c # 2
    BY <1>2, <2>2
  <2>4. 3 \in 2 .. n - 1 /\ 3 + 1 = 4 /\ 3 \in 2 .. c
    BY <1>0, <2>3
  <2>5. l[3].kind = Comma /\ l[4].kind \in {"tap", "port"}
    <3>1. l[3].kind \notin {"tap", "port"}
      BY <1>1, <2>1, <2>2
    <3> QED BY <1>1, <2>4, <3>1
  <2>6. c # 3
    BY <1>2, <2>5, KindsDiffer
  <2>7. 4 \in 2 .. c
    BY <1>0, <2>3, <2>6
  <2>8. l[4].kind = "tap"
    BY <1>3, <2>5, <2>7
  <2>9. Of(l, {"port"}) # {}
    <3>1. c + 2 \in DOMAIN l
      BY <1>0
    <3> QED BY <1>2, <3>1 DEF Of
  <2>10. n > 4
    BY <1>0, <2>7
  <2> QED BY <2>2, <2>8, <2>9, <2>10 DEF BeginsWithTaps
<1> QED BY <1>2, <1>3

\* One item more.
LEMMA LeftOfNext ==
    ASSUME NEW S, NEW l \in Seq(S), NEW n \in Nat, n = Len(l), WellFormed(l),
           ~ BeginsWithTaps(l), NEW c \in 1 .. n - 2, NEW T, NEW s \in Seq(T), LeftOf(l, s, c),
           NEW x \in T, x.kind = l[c + 1].kind,
           NEW t, t = IF Goes(l, c + 1) THEN s ELSE Append(s, x)
    PROVE  LeftOf(l, t, c + 1)
<1>0. n \in Int /\ c \in Int /\ c + 1 \in 2 .. n - 1 /\ (c + 1) + 1 = c + 2 /\ (c + 1) - 1 = c
  OBVIOUS
<1>1. /\ l[1].kind = Opening
      /\ \A i \in 2 .. n - 1 : l[i].kind \in {"tap", "port"} \/ l[i].kind = Comma
      /\ \A i \in 2 .. n - 1 :
           l[i].kind \in {"tap", "port"} => l[i + 1].kind \notin {"tap", "port"}
      /\ \A i \in 2 .. n - 1 :
           l[i].kind = Comma => /\ l[i - 1].kind \in {"tap", "port"}
                                /\ l[i + 1].kind \in {"tap", "port"}
  <2>1. Places(l, n)
    BY ListPlaces
  <2> QED BY <2>1 DEF Places
<1>2. /\ Begun(s) /\ LastKind(s) \in {Opening, Comma, "port"}
      /\ LastKind(s) = Opening <=> Len(s) = 1
      /\ Len(s) \in Nat /\ Len(s) >= 1
  BY BegunLast DEF LeftOf, Begun
<1>3. (\A d \in 2 .. c + 1 : l[d].kind # "port") <=>
        (\A d \in 2 .. c : l[d].kind # "port") /\ l[c + 1].kind # "port"
  <2>1. \A d \in 2 .. c + 1 : d \in 2 .. c \/ d = c + 1
    BY <1>0
  <2>2. \A d \in 2 .. c : d \in 2 .. c + 1
    BY <1>0
  <2>3. c + 1 \in 2 .. c + 1
    BY <1>0
  <2> QED BY <2>1, <2>2, <2>3
<1>4. CASE l[c + 1].kind = "tap"
  <2>1. t = s
    BY <1>4 DEF Goes
  <2>2. LastKind(s) # Comma
    BY <1>4, KindsDiffer DEF LeftOf
  <2> QED BY <1>2, <1>3, <1>4, <2>1, <2>2, KindsDiffer DEF LeftOf
<1>5. CASE l[c + 1].kind = "port"
  <2>1. t = Append(s, x)
    BY <1>5, KindsDiffer DEF Goes
  <2>2. LastKind(s) # "port"
    <3>1. CASE c = 1
      <4>1. \A d \in 2 .. c : l[d].kind # "port"
        BY <3>1
      <4> QED BY <1>2, <4>1, KindsDiffer DEF LeftOf
    <3>2. CASE c # 1
      <4>1. c \in 2 .. n - 1
        BY <1>0, <3>2
      <4>2. l[c].kind = Comma
        BY <1>1, <1>5, <4>1
      <4> QED BY <1>2, <1>5, <4>2, KindsDiffer DEF LeftOf
    <3> QED BY <3>1, <3>2
  <2>3. Begun(t) /\ LastKind(t) = "port" /\ Len(t) = Len(s) + 1
    BY <1>2, <1>5, <2>1, <2>2, BegunAppend
  <2>4. Len(t) # 1
    BY <1>2, <2>3
  <2> QED BY <1>3, <1>5, <2>3, <2>4, KindsDiffer DEF LeftOf
<1>6. CASE l[c + 1].kind = Comma
  <2>1. l[c].kind \in {"tap", "port"} /\ l[c + 2].kind \in {"tap", "port"}
    BY <1>0, <1>1, <1>6
  <2>2. c \in 2 .. n - 2
    <3>1. c # 1
      BY <1>1, <2>1, KindsDiffer
    <3> QED BY <1>0, <3>1
  <2>3. LastKind(s) # Comma
    BY <2>1, KindsDiffer DEF LeftOf
  <2>4. CASE Goes(l, c + 1)
    <3>1. t = s
      BY <2>4
    <3>2. l[c + 2].kind = "tap" \/ Len(s) = 1
      <4>1. l[c + 2].kind = "tap" \/ (c + 1 = 3 /\ l[2].kind = "tap")
        BY <1>0, <1>6, <2>4, KindsDiffer DEF Goes
      <4>2. CASE c + 1 = 3 /\ l[2].kind = "tap"
        <5>1. c = 2 /\ \A d \in 2 .. c : d = 2
          BY <1>0, <4>2
        <5>2. \A d \in 2 .. c : l[d].kind # "port"
          BY <4>2, <5>1
        <5> QED BY <5>2 DEF LeftOf
      <4> QED BY <4>1, <4>2
    <3> QED BY <1>0, <1>2, <1>3, <1>6, <2>3, <3>1, <3>2, KindsDiffer DEF LeftOf
  <2>5. CASE ~ Goes(l, c + 1)
    <3>1. l[c + 2].kind = "port" /\ ~ \A d \in 2 .. c : l[d].kind # "port"
      BY <1>6, <2>2, <2>5, CommaStays
    <3>2. LastKind(s) = "port"
      BY <1>2, <2>3, <3>1 DEF LeftOf
    <3>3. Begun(t) /\ LastKind(t) = Comma /\ Len(t) = Len(s) + 1
      BY <1>2, <1>6, <2>5, <3>2, BegunAppend
    <3>4. Len(t) # 1
      BY <1>2, <3>3
    <3> QED BY <1>0, <1>3, <1>6, <3>1, <3>3, <3>4, KindsDiffer DEF LeftOf
  <2> QED BY <2>4, <2>5
<1> QED BY <1>0, <1>1, <1>4, <1>5, <1>6

\* The port list is the n items behind the first a of a file.
ListAt(f, a, n) ==
    /\ a \in Nat /\ n \in Nat /\ a + n <= Len(f)
    /\ \A i \in 1 .. Len(f) : f[i].kind \in PortKinds <=> a < i /\ i <= a + n

\* These items are the port list.
LEMMA ListFound ==
    ASSUME NEW S, NEW f \in Seq(S), NEW a, NEW n, ListAt(f, a, n)
    PROVE  /\ PortList(f) \in Seq(S) /\ Len(PortList(f)) = n
           /\ \A c \in 1 .. n : PortList(f)[c] = f[a + c]
<1>1. a \in Nat /\ n \in Nat /\ a + n <= Len(f) /\ DOMAIN f = 1 .. Len(f)
  BY DEF ListAt
<1> DEFINE gone == DOMAIN f \ Of(f, PortKinds)
<1>2. \A i \in 1 .. Len(f) : i \in gone <=> f[i].kind \notin PortKinds
  BY <1>1 DEF Of
<1>3. PortList(f) = Without(f, gone)
  BY DEF PortList, Only
<1> HIDE DEF gone
<1>4. \A i \in 1 .. Len(f) : i \in gone <=> i <= a \/ i > a + n
  <2> SUFFICES ASSUME NEW i \in 1 .. Len(f) PROVE i \in gone <=> i <= a \/ i > a + n
    OBVIOUS
  <2>1. f[i].kind \in PortKinds <=> a < i /\ i <= a + n
    BY DEF ListAt
  <2> QED BY <1>1, <1>2, <2>1
<1>5. Exactly(f, gone, a, n)
  BY <1>1, <1>4 DEF Exactly
<1> QED BY <1>3, <1>5, WithoutOutside

\* What an edit of a Verilog file removes from its port list.
LEMMA ListGoes ==
    ASSUME NEW S, NEW f \in Seq(S), NEW a, NEW n, ListAt(f, a, n),
           NEW l, l = PortList(f), WellFormed(l),
           NEW gone, gone = Of(f, {"H19SOFT", "tap"}) \cup EatenCommas(f), NEW c \in 1 .. n
    PROVE  a + c \in gone <=> Goes(l, c)
<1>1. /\ a \in Nat /\ n \in Nat /\ a + n <= Len(f) /\ DOMAIN f = 1 .. Len(f)
      /\ a + c \in 1 .. Len(f) /\ Len(f) \in Nat
  BY DEF ListAt
<1>2. l \in Seq(S) /\ Len(l) = n /\ \A d \in 1 .. n : l[d] = f[a + d]
  BY ListFound
<1>3. Places(l, n)
  BY <1>1, <1>2, ListPlaces
<1>4. a + c \in Of(f, {"H19SOFT", "tap"}) <=> l[c].kind = "tap"
  <2>1. f[a + c].kind \in PortKinds
    BY <1>1 DEF ListAt
  <2>2. "H19SOFT" \notin PortKinds
    BY Zenon DEF PortKinds, Declarations
  <2> QED BY <1>1, <1>2, <2>1, <2>2 DEF Of
<1>5. a + c \in EatenCommas(f) <=>
        /\ l[c].kind = Comma
        /\ \/ a + c > 2 /\ f[a + c - 2].kind = Opening /\ f[a + c - 1].kind = "tap"
           \/ a + c < Len(f) /\ f[a + c + 1].kind = "tap"
  <2>1. a + c \in DOMAIN f /\ l[c] = f[a + c]
    BY <1>1, <1>2
  <2>2. \A i \in 1 .. Len(f) : i \in EatenCommas(f) <=>
          /\ i \in DOMAIN f /\ f[i].kind = Comma
          /\ \/ i > 2 /\ f[i - 2].kind = Opening /\ f[i - 1].kind = "tap"
             \/ i < Len(f) /\ f[i + 1].kind = "tap"
    BY DEF EatenCommas, Of, Comma, Opening
  <2>3. PICK i \in 1 .. Len(f) : i = a + c
    BY <1>1
  <2>4. i \in EatenCommas(f) <=>
          /\ f[i].kind = Comma
          /\ \/ i > 2 /\ f[i - 2].kind = Opening /\ f[i - 1].kind = "tap"
             \/ i < Len(f) /\ f[i + 1].kind = "tap"
    BY <2>1, <2>2, <2>3
  <2> QED BY <1>1, <2>1, <2>3, <2>4
<1>6. ASSUME l[c].kind = Comma
      PROVE  c \in 2 .. n - 1 /\ c + 1 \in 1 .. n /\ a + c < Len(f) /\ l[c + 1] = f[a + c + 1]
  <2>1. c # 1 /\ c # n
    BY <1>3, <1>6, KindsDiffer DEF Places
  <2>2. c \in 2 .. n - 1 /\ c + 1 \in 1 .. n /\ a + c < Len(f) /\ a + (c + 1) = a + c + 1
    BY <1>1, <2>1
  <2> QED BY <1>2, <2>2
<1>7. ASSUME l[c].kind = Comma
      PROVE  (a + c > 2 /\ f[a + c - 2].kind = Opening /\ f[a + c - 1].kind = "tap")
               <=> (c = 3 /\ l[2].kind = "tap")
  <2>1. ASSUME a + c > 2, f[a + c - 2].kind = Opening, f[a + c - 1].kind = "tap"
        PROVE  c = 3 /\ l[2].kind = "tap"
    <3>1. a + c - 2 \in 1 .. Len(f)
      BY <1>1, <2>1
    <3>2. a < a + c - 2
      BY <2>1, <3>1, KindsDiffer DEF ListAt
    <3>3. c - 2 \in 1 .. n /\ a + (c - 2) = a + c - 2 /\ c - 1 \in 1 .. n /\ a + (c - 1) = a + c - 1
          /\ c \in Int /\ n \in Int
      BY <1>1, <3>2
    <3>4. l[c - 2].kind = Opening /\ l[c - 1].kind = "tap"
      BY <1>2, <2>1, <3>3
    <3>5. c - 2 = 1
      <4>1. c - 2 \in 1 .. n - 1
        BY <1>1, <3>3
      <4>2. \A d \in 2 .. n - 1 : l[d].kind # Opening
        BY <1>3, KindsDiffer DEF Places
      <4>3. c - 2 = 1 \/ c - 2 \in 2 .. n - 1
        BY <3>3, <4>1
      <4> QED BY <3>4, <4>2, <4>3
    <3>6. c = 3 /\ c - 1 = 2
      BY <3>3, <3>5
    <3> QED BY <3>4, <3>6
  <2>2. ASSUME c = 3, l[2].kind = "tap"
        PROVE  a + c > 2 /\ f[a + c - 2].kind = Opening /\ f[a + c - 1].kind = "tap"
    <3>1. a + c > 2 /\ a + c - 2 = a + 1 /\ a + c - 1 = a + 2 /\ 1 \in 1 .. n /\ 2 \in 1 .. n
      BY <1>1, <2>2
    <3>2. l[1] = f[a + 1] /\ l[2] = f[a + 2] /\ l[1].kind = Opening
      BY <1>2, <1>3, <3>1 DEF Places
    <3> QED BY <2>2, <3>1, <3>2
  <2> QED BY <2>1, <2>2
<1> QED BY <1>4, <1>5, <1>6, <1>7 DEF Goes

\* The port list of a Verilog file, after the edit.
LEMMA ListEdited ==
    ASSUME NEW S, NEW f \in Seq(S), NEW a, NEW n, ListAt(f, a, n),
           NEW r \in Seq(S), Len(r) = Len(f), \A i \in 1 .. Len(f) : r[i].kind = f[i].kind,
           WellFormed(PortList(f)), ~ BeginsWithTaps(PortList(f)),
           NEW gone, gone = Of(f, {"H19SOFT", "tap"}) \cup EatenCommas(f)
    PROVE  WellFormed(PortList(Without(r, gone)))
<1>1. /\ a \in Nat /\ n \in Nat /\ a + n <= Len(r) /\ DOMAIN r = 1 .. Len(r)
      /\ \A i \in 1 .. Len(r) : r[i].kind \in PortKinds <=> a < i /\ i <= a + n
  BY DEF ListAt
<1>2. PICK l : l = PortList(f)
  OBVIOUS
<1>3. l \in Seq(S) /\ Len(l) = n /\ WellFormed(l) /\ ~ BeginsWithTaps(l)
      /\ \A c \in 1 .. n : l[c] = f[a + c]
  BY <1>2, ListFound
<1>4. Places(l, n)
  BY <1>1, <1>3, ListPlaces
<1>5. \A c \in 1 .. n : a + c \in gone <=> Goes(l, c)
  BY <1>2, <1>3, ListGoes
<1> DEFINE lost == gone \cup (DOMAIN r \ Of(r, PortKinds))
<1>6. PortList(Without(r, gone)) = Without(r, lost)
  BY OnlyWithout DEF PortList
<1>7. \A i \in 1 .. Len(r) : i \in lost <=> i \in gone \/ r[i].kind \notin PortKinds
  BY <1>1 DEF Of
<1> HIDE DEF lost
<1>8. AllBut(r, lost, a, n)
  BY <1>1, <1>7 DEF AllBut
<1>9. PICK e \in [0 .. n -> Seq(S)] : Grows(e, r, lost, a, n) /\ Without(r, lost) = e[n]
  BY <1>8, WithoutWindow
<1>10. ASSUME NEW c \in 0 .. n - 1
       PROVE  /\ e[c + 1] = IF Goes(l, c + 1) THEN e[c] ELSE Append(e[c], r[a + c + 1])
              /\ e[c] \in Seq(S) /\ r[a + c + 1] \in S /\ r[a + c + 1].kind = l[c + 1].kind
  <2>1. /\ c + 1 \in 1 .. n /\ a + (c + 1) = a + c + 1 /\ a + c + 1 \in 1 .. Len(r)
        /\ a < a + c + 1 /\ a + c + 1 <= a + n /\ c \in 0 .. n
    BY <1>1
  <2>2. r[a + c + 1].kind \in PortKinds /\ r[a + c + 1].kind = f[a + c + 1].kind
    BY <1>1, <2>1
  <2>3. a + c + 1 \in lost <=> Goes(l, c + 1)
    BY <1>5, <1>7, <2>1, <2>2
  <2>4. e[c + 1] = IF a + c + 1 \in lost THEN e[c] ELSE Append(e[c], r[a + c + 1])
    BY <1>9 DEF Grows
  <2>5. l[c + 1] = f[a + c + 1]
    BY <1>3, <2>1
  <2> QED BY <1>9, <2>1, <2>2, <2>3, <2>4, <2>5
<1> DEFINE G == {c \in 1 .. n - 1 : LeftOf(l, e[c], c)}
<1>11. n >= 2 /\ n \in Int /\ l[1].kind = Opening /\ l[n].kind = Closing
  BY <1>1, <1>4 DEF Places
<1>12. 1 \in G
  <2>1. 0 \in 0 .. n - 1 /\ 0 + 1 = 1 /\ a + 0 + 1 = a + 1 /\ 1 \in 1 .. n - 1
    BY <1>1, <1>11
  <2>2. ~ Goes(l, 1)
    BY <1>11, KindsDiffer DEF Goes
  <2>3. e[0] = <<>>
    BY <1>9 DEF Grows
  <2>4. r[a + 1] \in S /\ r[a + 1].kind = Opening /\ e[1] = Append(<<>>, r[a + 1])
    BY <1>10, <1>11, <2>1, <2>2, <2>3
  <2>5. PICK x \in S : x = r[a + 1]
    BY <2>4
  <2>6. Len(e[1]) = 1 /\ e[1][1] = x
    BY <2>4, <2>5
  <2>7. Begun(e[1]) /\ LastKind(e[1]) = Opening
    BY <2>4, <2>5, <2>6 DEF Begun, LastKind
  <2> QED BY <1>11, <2>1, <2>6, <2>7, KindsDiffer DEF LeftOf
<1>13. ASSUME NEW c \in 1 .. (n - 1) - 1, c \in G PROVE c + 1 \in G
  <2>1. c \in 1 .. n - 2 /\ c \in 0 .. n - 1 /\ c + 1 \in 1 .. n - 1
    BY <1>11
  <2>2. PICK s \in Seq(S), x \in S : s = e[c] /\ x = r[a + c + 1]
    BY <1>10, <2>1
  <2>3. LeftOf(l, s, c) /\ x.kind = l[c + 1].kind
        /\ e[c + 1] = IF Goes(l, c + 1) THEN s ELSE Append(s, x)
    BY <1>10, <1>13, <2>1, <2>2
  <2>4. LeftOf(l, e[c + 1], c + 1)
    BY <1>1, <1>3, <2>1, <2>3, LeftOfNext
  <2> QED BY <2>1, <2>4
<1>14. LeftOf(l, e[n - 1], n - 1)
  <2>1. n - 1 \in Nat /\ n - 1 >= 1 /\ n - 1 \in 1 .. n - 1
    BY <1>11
  <2>2. n - 1 >= 1 => 1 \in G
    BY <1>12
  <2>3. \A c \in 1 .. (n - 1) - 1 : c \in G => c + 1 \in G
    BY <1>13
  <2> HIDE DEF G
  <2>4. 1 .. n - 1 \subseteq G
    BY <2>1, <2>2, <2>3, Climb
  <2> QED BY <2>1, <2>4 DEF G
<1>15. WellFormed(e[n])
  <2>1. n - 1 \in 0 .. n - 1 /\ (n - 1) + 1 = n /\ a + (n - 1) + 1 = a + n
    BY <1>1, <1>11
  <2>2. ~ Goes(l, n)
    BY <1>11, KindsDiffer DEF Goes
  <2>3. /\ e[n] = Append(e[n - 1], r[a + n])
        /\ e[n - 1] \in Seq(S) /\ r[a + n] \in S /\ r[a + n].kind = Closing
    BY <1>10, <1>11, <2>1, <2>2
  <2>4. LastKind(e[n - 1]) # Comma
    <3>1. l[n - 1].kind # Comma
      <4>1. CASE n - 1 = 1
        BY <1>11, <4>1, KindsDiffer
      <4>2. CASE n - 1 # 1
        <5>1. n - 1 \in 2 .. n - 1
          BY <1>11, <4>2
        <5> QED BY <1>4, <1>11, <2>1, <5>1, KindsDiffer DEF Places
      <4> QED BY <4>1, <4>2
    <3> QED BY <1>14, <3>1 DEF LeftOf
  <2> QED BY <1>14, <2>3, <2>4, BegunEnds DEF LeftOf
<1> QED BY <1>6, <1>9, <1>15

\* A list of the same kinds is as well-formed.
LEMMA WellFormedSame ==
    ASSUME NEW S, NEW l \in Seq(S), NEW T, NEW m \in Seq(T), Len(l) = Len(m),
           \A i \in 1 .. Len(l) : m[i].kind = l[i].kind, WellFormed(l)
    PROVE  WellFormed(m)
<1>1. PICK n \in Nat : n = Len(l) /\ n = Len(m) /\ n >= 2
  BY WellFormedKinds
<1>2. \A i \in 2 .. n - 1 : i \in 1 .. n /\ i - 1 \in 1 .. n /\ i + 1 \in 1 .. n
  BY <1>1
<1>3. 1 \in 1 .. n /\ n \in 1 .. n
  BY <1>1
<1>4. WellFormed(l) <=>
             /\ Len(l) >= 2 /\ l[1].kind = Opening /\ l[Len(l)].kind = Closing
             /\ \A i \in 2 .. (Len(l) - 1) :
                  \/ l[i].kind \in Declarations /\ l[i + 1].kind \notin Declarations
                  \/ /\ l[i].kind = Comma
                     /\ {l[i - 1].kind, l[i + 1].kind} \subseteq Declarations
  BY WellFormedKinds, Zenon
<1>5. WellFormed(m) <=>
             /\ Len(m) >= 2 /\ m[1].kind = Opening /\ m[Len(m)].kind = Closing
             /\ \A i \in 2 .. (Len(m) - 1) :
                  \/ m[i].kind \in Declarations /\ m[i + 1].kind \notin Declarations
                  \/ /\ m[i].kind = Comma
                     /\ {m[i - 1].kind, m[i + 1].kind} \subseteq Declarations
  BY WellFormedKinds, Zenon
<1>6. \A i \in 1 .. n : m[i].kind = l[i].kind
  BY <1>1
<1>7. m[1].kind = Opening /\ m[n].kind = Closing
  BY <1>1, <1>3, <1>4, <1>6
<1>8. ASSUME NEW i \in 2 .. n - 1
      PROVE  \/ m[i].kind \in Declarations /\ m[i + 1].kind \notin Declarations
             \/ /\ m[i].kind = Comma
                /\ {m[i - 1].kind, m[i + 1].kind} \subseteq Declarations
  <2>1. /\ m[i].kind = l[i].kind /\ m[i - 1].kind = l[i - 1].kind
        /\ m[i + 1].kind = l[i + 1].kind
    BY <1>2, <1>6
  <2>2. \/ l[i].kind \in Declarations /\ l[i + 1].kind \notin Declarations
        \/ /\ l[i].kind = Comma
           /\ {l[i - 1].kind, l[i + 1].kind} \subseteq Declarations
    BY <1>1, <1>4
  <2> QED BY <2>1, <2>2
<1> QED BY <1>1, <1>5, <1>7, <1>8

\* The port list of a file that lost nothing of it.
LEMMA ListKept ==
    ASSUME NEW S, NEW f \in Seq(S), NEW a, NEW n, ListAt(f, a, n),
           NEW r \in Seq(S), Len(r) = Len(f), \A i \in 1 .. Len(f) : r[i].kind = f[i].kind,
           NEW gone, \A i \in 1 .. Len(f) : i \in gone => f[i].kind \notin PortKinds,
           WellFormed(PortList(f))
    PROVE  WellFormed(PortList(Without(r, gone)))
<1>1. /\ a \in Nat /\ n \in Nat /\ a + n <= Len(r) /\ DOMAIN r = 1 .. Len(r)
      /\ \A i \in 1 .. Len(r) : r[i].kind \in PortKinds <=> a < i /\ i <= a + n
  BY DEF ListAt
<1> DEFINE lost == gone \cup (DOMAIN r \ Of(r, PortKinds))
<1>2. PortList(Without(r, gone)) = Without(r, lost)
  BY OnlyWithout DEF PortList
<1>3. \A i \in 1 .. Len(r) : i \in lost <=> r[i].kind \notin PortKinds
  BY <1>1 DEF Of
<1> HIDE DEF lost
<1>4. Exactly(r, lost, a, n)
  <2>1. ASSUME NEW i \in 1 .. Len(r) PROVE i \in lost <=> i <= a \/ i > a + n
    BY <1>1, <1>3
  <2> QED BY <1>1, <2>1 DEF Exactly
<1>5. PICK m : m = Without(r, lost)
  OBVIOUS
<1>6. m \in Seq(S) /\ Len(m) = n /\ \A c \in 1 .. n : m[c] = r[a + c]
  BY <1>4, <1>5, WithoutOutside
<1>7. PICK l : l = PortList(f)
  OBVIOUS
<1>8. l \in Seq(S) /\ Len(l) = n /\ \A c \in 1 .. n : l[c] = f[a + c]
  BY <1>7, ListFound
<1>9. \A c \in 1 .. n : m[c].kind = l[c].kind
  <2> SUFFICES ASSUME NEW c \in 1 .. n PROVE m[c].kind = l[c].kind
    OBVIOUS
  <2>1. a + c \in 1 .. Len(f)
    BY <1>1
  <2> QED BY <1>6, <1>8, <2>1
<1>10. WellFormed(m)
  BY <1>6, <1>7, <1>8, <1>9, WellFormedSame
<1> QED BY <1>2, <1>5, <1>10

\* The port list of a file, in one piece.
OneList(f) == \E a, n \in Nat : ListAt(f, a, n)

\* It is still in one piece when items go.
LEMMA OneListLeft ==
    ASSUME NEW S, NEW r \in Seq(S), OneList(r), NEW gone
    PROVE  OneList(Without(r, gone))
<1>1. PICK m \in Nat : m = Len(r)
  OBVIOUS
<1>2. PICK a \in Nat, n \in Nat : a + n <= m /\
         \A i \in 1 .. m : r[i].kind \in PortKinds <=> a < i /\ i <= a + n
  BY <1>1 DEF OneList, ListAt
<1>3. PICK h \in [0 .. m -> Seq(S)] : Leaves(h, r, gone, m)
  <2>1. \A i \in (1 .. Len(r)) \ gone : r[i] \in S
    OBVIOUS
  <2>2. \E h \in [0 .. Len(r) -> Seq(S)] : Leaves(h, r, gone, Len(r))
    BY <2>1, LeavesExists, Zenon
  <2> QED BY <1>1, <2>2, Zenon
<1>4. Without(r, gone) = h[m]
  <2>1. DOMAIN h = 0 .. Len(r) /\ h = [i \in 0 .. Len(r) |-> h[i]]
    BY <1>1, <1>3
  <2>2. Leaves(h, r, gone, Len(r))
    BY <1>1, <1>3
  <2>3. Without(r, gone) = h[Len(r)]
    BY <2>1, <2>2, WithoutIsLast
  <2> QED BY <1>1, <2>3
<1> DEFINE Piece(s, i, b, k) ==
             /\ ListAt(s, b, k)
             /\ i <= a + n => b + k = Len(s)
             /\ i <= a => k = 0
           G == {i \in 0 .. m : \E b, k \in Nat : Piece(h[i], i, b, k)}
<1>5. 0 \in G
  <2>1. h[0] = <<>> /\ 0 \in 0 .. m
    BY <1>3 DEF Leaves
  <2>2. Piece(<<>>, 0, 0, 0)
    BY DEF ListAt
  <2> HIDE DEF Piece
  <2> QED BY <2>1, <2>2
<1>6. ASSUME NEW i \in 0 .. m - 1, i \in G PROVE i + 1 \in G
  <2>1. i + 1 \in 1 .. m /\ i + 1 \in 0 .. m /\ (i + 1) - 1 = i /\ i \in 0 .. m /\ i \in Int
    OBVIOUS
  <2>2. PICK b \in Nat, k \in Nat : Piece(h[i], i, b, k)
    BY <1>6
  <2>3. PICK s \in Seq(S), x \in S : s = h[i] /\ x = r[i + 1]
    BY <1>1, <1>3, <2>1
  <2>4. h[i + 1] = IF i + 1 \in gone THEN s ELSE Append(s, x)
    BY <1>3, <2>1, <2>3 DEF Leaves
  <2>5. x.kind \in PortKinds <=> a < i + 1 /\ i + 1 <= a + n
    BY <1>2, <2>1, <2>3
  <2>6. PICK p \in Nat : p = Len(s)
    OBVIOUS
  <2>7. \A j \in 1 .. p : s[j].kind \in PortKinds <=> b < j /\ j <= b + k
    BY <2>2, <2>3, <2>6 DEF ListAt
  <2>10. b + k <= p /\ (i <= a + n => b + k = p) /\ (i <= a => k = 0)
    BY <2>2, <2>3, <2>6 DEF ListAt
  <2>8. CASE i + 1 \in gone
    <3>1. IF i + 1 <= a THEN Piece(h[i + 1], i + 1, b, k) ELSE Piece(h[i + 1], i + 1, b, k)
      BY <2>1, <2>2, <2>3, <2>4, <2>8
    <3> HIDE DEF Piece
    <3> QED BY <2>1, <3>1
  <2>9. CASE i + 1 \notin gone
    <3>1. PICK g \in Seq(S) : g = h[i + 1]
      BY <1>3, <2>1
    <3>2. /\ Len(g) = p + 1 /\ g[p + 1] = x /\ \A j \in 1 .. p : g[j] = s[j]
      BY <2>4, <2>6, <2>9, <3>1, AppendProperties
    <3>3. \A j \in 1 .. p + 1 : j \in 1 .. p \/ j = p + 1
      OBVIOUS
    <3>4. CASE i + 1 <= a
      <4>1. Piece(g, i + 1, p + 1, 0)
        <5>1. k = 0 /\ b = p
          <6>1. i <= a /\ i <= a + n
            BY <2>1, <3>4
          <6>2. k = 0 /\ b + k = p
            BY <2>10, <6>1
          <6> QED BY <6>2
        <5>2. x.kind \notin PortKinds
          BY <2>1, <2>5, <3>4
        <5>3. \A j \in 1 .. p + 1 : g[j].kind \notin PortKinds
          <6> SUFFICES ASSUME NEW j \in 1 .. p + 1 PROVE g[j].kind \notin PortKinds
            OBVIOUS
          <6>1. CASE j \in 1 .. p
            <7>1. g[j] = s[j] /\ ~ (b < j)
              BY <3>2, <5>1, <6>1
            <7> QED BY <2>7, <6>1, <7>1
          <6>2. CASE j = p + 1
            BY <3>2, <5>2, <6>2
          <6> QED BY <3>3, <6>1, <6>2
        <5>4. ListAt(g, p + 1, 0)
          BY <3>2, <5>3 DEF ListAt
        <5> QED BY <3>2, <5>4
      <4>2. p + 1 \in Nat /\ 0 \in Nat
        OBVIOUS
      <4> HIDE DEF Piece
      <4> QED BY <2>1, <3>1, <4>1, <4>2
    <3>5. CASE a < i + 1 /\ i + 1 <= a + n
      <4>1. Piece(g, i + 1, b, k + 1)
        <5>1. b + k = p
          BY <2>1, <2>10, <3>5
        <5>2. x.kind \in PortKinds
          BY <2>5, <3>5
        <5>3. \A j \in 1 .. p + 1 : g[j].kind \in PortKinds <=> b < j /\ j <= b + (k + 1)
          <6> SUFFICES ASSUME NEW j \in 1 .. p + 1
                       PROVE  g[j].kind \in PortKinds <=> b < j /\ j <= b + (k + 1)
            OBVIOUS
          <6>1. CASE j \in 1 .. p
            <7>1. g[j] = s[j] /\ j <= b + k /\ j <= b + (k + 1)
              <8>1. j <= p /\ p = b + k /\ j \in Int
                BY <5>1, <6>1
              <8>2. j <= b + k /\ j <= b + (k + 1)
                BY <8>1
              <8> QED BY <3>2, <6>1, <8>2
            <7> QED BY <2>7, <6>1, <7>1
          <6>2. CASE j = p + 1
            BY <3>2, <5>1, <5>2, <6>2
          <6> QED BY <3>3, <6>1, <6>2
        <5>4. ListAt(g, b, k + 1)
          BY <3>2, <5>1, <5>3 DEF ListAt
        <5> QED BY <2>1, <3>2, <3>5, <5>1, <5>4
      <4>2. k + 1 \in Nat
        OBVIOUS
      <4> HIDE DEF Piece
      <4> QED BY <2>1, <3>1, <4>1, <4>2
    <3>6. CASE i + 1 > a + n
      <4>1. Piece(g, i + 1, b, k)
        <5>1. x.kind \notin PortKinds
          BY <1>2, <2>1, <2>5, <3>6
        <5>2. \A j \in 1 .. p + 1 : g[j].kind \in PortKinds <=> b < j /\ j <= b + k
          <6> SUFFICES ASSUME NEW j \in 1 .. p + 1
                       PROVE  g[j].kind \in PortKinds <=> b < j /\ j <= b + k
            OBVIOUS
          <6>1. CASE j \in 1 .. p
            BY <2>7, <3>2, <6>1
          <6>2. CASE j = p + 1
            <7>1. ~ (j <= b + k)
              BY <2>10, <6>2
            <7> QED BY <3>2, <5>1, <6>2, <7>1
          <6> QED BY <3>3, <6>1, <6>2
        <5>3. ListAt(g, b, k)
          BY <2>10, <3>2, <5>2 DEF ListAt
        <5> QED BY <1>2, <2>1, <3>6, <5>3
      <4> HIDE DEF Piece
      <4> QED BY <2>1, <3>1, <4>1
    <3> QED BY <1>2, <2>1, <3>4, <3>5, <3>6
  <2> QED BY <2>8, <2>9
<1>7. m \in G
  <2> HIDE DEF G
  <2> QED BY <1>5, <1>6, ClimbFrom0
<1> QED BY <1>4, <1>7 DEF OneList

\* Removing items and plain ones: the type of an edited VHDL file.
LEMMA VhdlLeaves ==
    ASSUME NEW Kind, NEW Name, NEW N, NEW f \in Seq(Items(Kind, Name, Nets(N)))
    PROVE  \E r \in Seq(Items(Kind, Name, Nets(N))) :
             /\ Len(r) = Len(f) /\ \A i \in 1 .. Len(f) : r[i].kind = f[i].kind
             /\ VhdlEdited(f) = Without(r, Of(f, Originals))
<1> DEFINE I == Items(Kind, Name, Nets(N))
           r == [i \in DOMAIN f |-> PlainItem(f[i])]
           gone == Of(f, Originals)
<1>1. DOMAIN f = 1 .. Len(f) /\ \A i \in 1 .. Len(f) : f[i] \in I
  OBVIOUS
<1>2. r \in Seq(I) /\ Len(r) = Len(f) /\ \A i \in 1 .. Len(f) : r[i].kind = f[i].kind
  BY <1>1, PlainItemType
<1>3. VhdlEdited(f) = Without(r, gone)
  <2>1. VhdlEdited(f) = [i \in DOMAIN Without(f, gone) |-> PlainItem(Without(f, gone)[i])]
    BY DEF VhdlEdited, PlainItem
  <2> HIDE DEF gone
  <2> QED BY <2>1, PlainWithout
<1> HIDE DEF r
<1> QED BY <1>2, <1>3

\* The same of an edited Verilog file.
LEMMA VerilogKinds ==
    ASSUME NEW Kind, NEW Name, NEW Net, NEW f \in Seq(Items(Kind, Name, Net)),
           ~ VerilogRefuses(f), ~ VerilogRaises(f)
    PROVE  \E r \in Seq(Items(Kind, Name, Net)) :
             /\ Len(r) = Len(f) /\ \A i \in 1 .. Len(f) : r[i].kind = f[i].kind
             /\ VerilogEdited(f) = Without(r, Of(f, {"H19SOFT", "tap"}) \cup EatenCommas(f))
<1> DEFINE I == Items(Kind, Name, Net)
           r == [i \in DOMAIN f |-> IF i \in Of(f, Emulation) THEN Remapped(f) ELSE f[i]]
<1>1. Remapped(f) \in I /\ Remapped(f).kind = "H19EMUL" /\ DOMAIN f = 1 .. Len(f)
  BY RemappedType DEF Emulation
<1>2. r \in Seq(I) /\ Len(r) = Len(f)
  BY <1>1
<1>3. ASSUME NEW i \in 1 .. Len(f) PROVE r[i].kind = f[i].kind
  <2>1. i \in Of(f, Emulation) <=> f[i].kind = "H19EMUL"
    BY <1>1 DEF Of, Emulation
  <2> QED BY <1>1, <2>1
<1>4. VerilogEdited(f) = Without(r, Of(f, {"H19SOFT", "tap"}) \cup EatenCommas(f))
  BY DEF VerilogEdited
<1> HIDE DEF r
<1> QED BY <1>2, <1>3, <1>4

\* A list in one piece does not depend on more than the kinds.
LEMMA OneListSame ==
    ASSUME NEW f, NEW r, Len(r) = Len(f), \A i \in 1 .. Len(f) : r[i].kind = f[i].kind, OneList(f)
    PROVE  OneList(r)
<1>1. PICK a \in Nat, n \in Nat : ListAt(f, a, n)
  BY DEF OneList
<1>2. ListAt(r, a, n)
  BY <1>1 DEF ListAt
<1> QED BY <1>2 DEF OneList

\* The port list of a file that was edited.
LEMMA PortsStay ==
    ASSUME NEW Kind, NEW Name, NEW N, NEW f \in Seq(Items(Kind, Name, Nets(N))), OneList(f),
           NEW s, ~ Refuses(s, f), ~ Raises(s, f), NEW g, g = Edited(s, f)
    PROVE  /\ g \in Seq(Items(Kind, Name, Nets(N))) /\ OneList(g)
           /\ WellFormed(PortList(f)) /\ ~ BeginsWithTaps(PortList(f)) => WellFormed(PortList(g))
           /\ s = "v" => Of(g, {"tap"}) = {}
<1> DEFINE I == Items(Kind, Name, Nets(N))
<1>1. PICK a, n : ListAt(f, a, n)
  BY DEF OneList
<1>2. \A i \in (1 .. Len(f)) : f[i] \in I
  OBVIOUS
<1>3. CASE s = "v"
  <2> DEFINE gone == Of(f, {"H19SOFT", "tap"}) \cup EatenCommas(f)
  <2>1. ~ VerilogRefuses(f) /\ ~ VerilogRaises(f) /\ g = VerilogEdited(f)
    BY <1>3 DEF Refuses, Raises, Edited
  <2>2. PICK r \in Seq(I) :
          /\ Len(r) = Len(f) /\ \A i \in 1 .. Len(f) : r[i].kind = f[i].kind
          /\ g = Without(r, gone)
    BY <2>1, VerilogKinds, ZenonT(60)
  <2> HIDE DEF gone
  <2>3. g \in Seq(I) /\ OneList(g)
    <3>1. OneList(r)
      BY <2>2, OneListSame
    <3>2. \A i \in (1 .. Len(r)) \ gone : r[i] \in I
      OBVIOUS
    <3> QED BY <2>2, <3>1, <3>2, WithoutType, OneListLeft
  <2>4. Of(g, {"tap"}) = {}
    <3>1. \A i \in DOMAIN g : g[i].kind # "tap"
      BY <2>1, VerilogLeaves
    <3> QED BY <3>1 DEF Of
  <2>5. WellFormed(PortList(f)) /\ ~ BeginsWithTaps(PortList(f)) => WellFormed(PortList(g))
    BY <1>1, <2>2, ListEdited DEF gone
  <2> QED BY <2>3, <2>4, <2>5
<1>4. CASE s # "v"
  <2> DEFINE gone == Of(f, Originals)
  <2>1. g = VhdlEdited(f)
    BY <1>4 DEF Edited
  <2>2. PICK r \in Seq(I) :
          /\ Len(r) = Len(f) /\ \A i \in 1 .. Len(f) : r[i].kind = f[i].kind
          /\ g = Without(r, gone)
    BY <2>1, VhdlLeaves
  <2>3. ASSUME NEW i \in 1 .. Len(f), i \in gone PROVE f[i].kind \notin PortKinds
    <3>1. Originals \cap PortKinds = {}
      BY Zenon DEF Originals, PortKinds, Declarations
    <3> QED BY <2>3, <3>1 DEF Of
  <2> HIDE DEF gone
  <2>4. g \in Seq(I) /\ OneList(g)
    <3>1. OneList(r)
      BY <2>2, OneListSame
    <3>2. \A i \in (1 .. Len(r)) \ gone : r[i] \in I
      OBVIOUS
    <3> QED BY <2>2, <3>1, <3>2, WithoutType, OneListLeft
  <2>5. WellFormed(PortList(f)) => WellFormed(PortList(g))
    BY <1>1, <2>2, <2>3, ListKept
  <2> QED BY <1>4, <2>4, <2>5
<1> QED BY <1>3, <1>4

\* The files whose port list is in one piece.
ListFiles(Kind, Name, N) == {f \in Seq(Items(Kind, Name, Nets(N))) : OneList(f)}

\* The beginnings of such a file, and the file edited, are such files.
LEMMA ListFilesClosed ==
    ASSUME NEW Kind, NEW Name, NEW N, NEW s, NEW f \in ListFiles(Kind, Name, N)
    PROVE  /\ Beginnings(f) \subseteq ListFiles(Kind, Name, N)
           /\ <<>> \in ListFiles(Kind, Name, N)
           /\ ~ Refuses(s, f) /\ ~ Raises(s, f) => Edited(s, f) \in ListFiles(Kind, Name, N)
<1> DEFINE I == Items(Kind, Name, Nets(N))
<1>1. f \in Seq(I) /\ OneList(f)
  BY DEF ListFiles
<1>2. ASSUME NEW b \in Beginnings(f) PROVE b \in ListFiles(Kind, Name, N)
  <2>1. PICK l \in Nat : l = Len(f)
    BY <1>1
  <2>2. PICK m \in 0 .. l : b = SubSeq(f, 1, m)
    <3>1. PICK m \in 0 .. Len(f) - 1 : b = SubSeq(f, 1, m)
      BY DEF Beginnings
    <3> QED BY <2>1, <3>1
  <2>3. b \in Seq(I) /\ Len(b) = m /\ \A i \in 1 .. m : b[i] = f[i]
    BY <1>1, <2>1, <2>2
  <2>4. PICK a \in Nat, n \in Nat : a + n <= l /\
           \A i \in 1 .. l : f[i].kind \in PortKinds <=> a < i /\ i <= a + n
    BY <1>1, <2>1 DEF OneList, ListAt
  <2>5. \A i \in 1 .. m : b[i].kind \in PortKinds <=> a < i /\ i <= a + n
    BY <2>3, <2>4
  <2>6. OneList(b)
    <3>1. CASE m <= a
      <4>1. \A i \in 1 .. m : b[i].kind \in PortKinds <=> m < i /\ i <= m + 0
        BY <2>5, <3>1
      <4>2. ListAt(b, m, 0)
        BY <2>3, <4>1 DEF ListAt
      <4> QED BY <4>2 DEF OneList
    <3>2. CASE a < m /\ m <= a + n
      <4>1. \A i \in 1 .. m : b[i].kind \in PortKinds <=> a < i /\ i <= a + (m - a)
        BY <2>5, <3>2
      <4>2. ListAt(b, a, m - a) /\ m - a \in Nat
        BY <2>3, <3>2, <4>1 DEF ListAt
      <4> QED BY <4>2 DEF OneList
    <3>3. CASE m > a + n
      <4>1. ListAt(b, a, n)
        BY <2>3, <2>5, <3>3 DEF ListAt
      <4> QED BY <4>1 DEF OneList
    <3> QED BY <3>1, <3>2, <3>3
  <2> QED BY <2>3, <2>6 DEF ListFiles
<1>3. <<>> \in ListFiles(Kind, Name, N)
  <2>1. ListAt(<<>>, 0, 0)
    BY DEF ListAt
  <2> QED BY <2>1 DEF ListFiles, OneList
<1>4. ~ Refuses(s, f) /\ ~ Raises(s, f) => Edited(s, f) \in ListFiles(Kind, Name, N)
  BY <1>1, PortsStay DEF ListFiles
<1> QED BY <1>2, <1>3, <1>4

\* For any files of items whose port list is in one piece: a well-formed list is still
\* well-formed when its TAP ports are gone, unless it begins with two of them.
THEOREM PortsStayWellFormed ==
    ASSUME NEW Kind, NEW Name, NEW N,
           \A s \in DOMAIN Outputs : Outputs[s] \subseteq ListFiles(Kind, Name, N),
           \A c \in Settings : {c.hck, c.hack} \subseteq ListFiles(Kind, Name, N) \cup {Absent}
    PROVE  Spec => []PortsWellFormed
<1> DEFINE F == [s \in DOMAIN Outputs |-> ListFiles(Kind, Name, N)]
<1>a. \A s \in DOMAIN Outputs : F[s] = ListFiles(Kind, Name, N)
  OBVIOUS
<1> HIDE DEF F
<1>b. Closed(F)
  <2>1. ASSUME NEW s \in DOMAIN Outputs, NEW f \in ListFiles(Kind, Name, N)
        PROVE  /\ Beginnings(f) \subseteq ListFiles(Kind, Name, N)
               /\ <<>> \in ListFiles(Kind, Name, N)
               /\ ~ Refuses(s, f) /\ ~ Raises(s, f) => Edited(s, f) \in ListFiles(Kind, Name, N)
    BY ListFilesClosed
  <2> QED BY <1>a, <2>1 DEF Closed
<1>1. Init => WireInv(F)
  BY DEF Init, WireInv, Ended
<1>2. FlowInv /\ WireInv(F) /\ [Next]_vars => WireInv(F)'
  BY <1>b, WireInvKept
<1>3. WireInv(F) => PortsWellFormed
  <2> SUFFICES ASSUME WireInv(F), Ended({"edited"}), WellFormed(PortList(tool)),
                      ~ BeginsWithTaps(PortList(tool))
               PROVE  WellFormed(PortList(top)) /\ (suffix = "v" => Of(top, {"tap"}) = {})
    BY DEF PortsWellFormed
  <2>1. /\ tool \in Seq(Items(Kind, Name, Nets(N))) /\ OneList(tool)
        /\ ~ Refuses(suffix, tool) /\ ~ Raises(suffix, tool) /\ top = Edited(suffix, tool)
    BY <1>a DEF WireInv, ListFiles, Fine
  <2> QED BY <2>1, PortsStay
<1> QED
  BY <1>1, <1>2, <1>3, FlowInvariance, PTL DEF Spec
=============================================================================
