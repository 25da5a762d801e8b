---------------------------- MODULE FlattenProofs ----------------------------
(***************************************************************************)
(* FlattenSeq, the bytes of a sequence of buffers in order: what it does   *)
(* when a buffer is added at the end and when the first one is taken.      *)
(*                                                                         *)
(* FlattenSeq is a recursive function, so these facts need an induction.   *)
(* It is carried by a set: the numbers that have the property asked for.   *)
(***************************************************************************)
EXTENDS SequencesExt, SequenceTheorems, WellFoundedInduction, TLAPS

\* A set of numbers that holds 1 and with each number below n the next one holds all
\* the numbers up to n.
LEMMA Climb ==
    ASSUME NEW n \in Nat, NEW G,
           n >= 1 => 1 \in G,
           \A i \in 1 .. n - 1 : i \in G => i + 1 \in G
    PROVE  1 .. n \subseteq G
<1> DEFINE T == {i \in 1 .. n : i \notin G}
<1>1. SUFFICES ASSUME T # {} PROVE FALSE
  OBVIOUS
<1>2. T \subseteq Nat
  OBVIOUS
<1>3. \E x \in T : \A y \in T : ~ (<<y, x>> \in OpToRel(<, Nat))
  BY <1>1, <1>2, WFMin, NatLessThanWellFounded
<1>4. PICK x \in T : \A y \in T : ~ (y < x)
  BY <1>2, <1>3 DEF OpToRel
<1>5. x # 1
  OBVIOUS
<1>6. x - 1 \in 1 .. n - 1 /\ x - 1 < x /\ (x - 1) + 1 = x
  BY <1>5
<1>7. x - 1 \in G
  BY <1>4, <1>6
<1> QED BY <1>6, <1>7

\* The same from 0 on.
LEMMA ClimbFrom0 ==
    ASSUME NEW n \in Nat, NEW G, 0 \in G,
           \A i \in 0 .. n - 1 : i \in G => i + 1 \in G
    PROVE  n \in G
<1>1. n >= 1 => 1 \in G
  <2> SUFFICES ASSUME n >= 1 PROVE 1 \in G
    OBVIOUS
  <2>1. 0 \in 0 .. n - 1 /\ 0 + 1 = 1
    OBVIOUS
  <2> QED BY <2>1
<1>2. \A i \in 1 .. n - 1 : i \in G => i + 1 \in G
  OBVIOUS
<1>3. 1 .. n \subseteq G
  BY <1>1, <1>2, Climb
<1>4. n = 0 \/ n \in 1 .. n
  OBVIOUS
<1> QED BY <1>3, <1>4

\* f[i] holds the first i buffers of q in one sequence.
Gathers(f, q, n) ==
    /\ n >= 1 => f[1] = q[1]
    /\ \A i \in 1 .. n - 1 : f[i + 1] = f[i] \o q[i + 1]

\* There is such a function, of byte sequences if q is made of these.
LEMMA GathersExists ==
    ASSUME NEW S, NEW q \in Seq(Seq(S))
    PROVE  \E f \in [1 .. Len(q) -> Seq(S)] : Gathers(f, q, Len(q))
<1> DEFINE G == {n \in Nat : n <= Len(q) => \E f \in [1 .. n -> Seq(S)] : Gathers(f, q, n)}
<1>0. Len(q) \in Nat /\ \A i \in 1 .. Len(q) : q[i] \in Seq(S)
  OBVIOUS
<1>1. 0 \in G
  <2> DEFINE f == [i \in 1 .. 0 |-> <<>>]
  <2>1. f \in [1 .. 0 -> Seq(S)] /\ Gathers(f, q, 0)
    BY DEF Gathers
  <2> QED BY <2>1
<1>2. 1 \in G
  <2>1. SUFFICES ASSUME 1 <= Len(q)
                 PROVE  \E f \in [1 .. 1 -> Seq(S)] : Gathers(f, q, 1)
    OBVIOUS
  <2> DEFINE f == [i \in 1 .. 1 |-> q[1]]
  <2>2. f \in [1 .. 1 -> Seq(S)] /\ Gathers(f, q, 1)
    BY <1>0, <2>1 DEF Gathers
  <2> QED BY <2>2
<1>3. ASSUME NEW n \in 1 .. Len(q) - 1, n \in G PROVE n + 1 \in G
  <2>0. n \in Nat /\ n >= 1 /\ n + 1 <= Len(q) /\ n <= Len(q) /\ n + 1 \in 1 .. Len(q)
    BY <1>0
  <2>1. PICK f \in [1 .. n -> Seq(S)] : Gathers(f, q, n)
    BY <1>3, <2>0
  <2> DEFINE g == [i \in 1 .. n + 1 |-> IF i = n + 1 THEN f[n] \o q[n + 1] ELSE f[i]]
  <2>2. f[n] \o q[n + 1] \in Seq(S)
    <3>1. f[n] \in Seq(S) /\ q[n + 1] \in Seq(S)
      BY <1>0, <2>0, <2>1
    <3> QED BY <3>1, ConcatProperties
  <2>3. g \in [1 .. n + 1 -> Seq(S)]
    BY <2>0, <2>2
  <2>4. g[1] = q[1]
    BY <2>0, <2>1, SMTT(30) DEF Gathers
  <2>5. ASSUME NEW i \in 1 .. n PROVE g[i + 1] = g[i] \o q[i + 1]
    <3>1. CASE i = n
      <4>1. g[n + 1] = f[n] \o q[n + 1] /\ g[n] = f[n]
        BY <2>0, SMTT(60)
      <4> QED BY <3>1, <4>1
    <3>2. CASE i # n
      <4>1. i \in 1 .. n - 1 /\ i + 1 # n + 1 /\ i # n + 1 /\ i \in 1 .. n + 1 /\ i + 1 \in 1 .. n + 1
        BY <2>0, <3>2
      <4>2. g[i + 1] = f[i + 1] /\ g[i] = f[i]
        BY <4>1
      <4> QED BY <2>1, <4>1, <4>2 DEF Gathers
    <3> QED BY <3>1, <3>2
  <2>6. (n + 1) - 1 = n
    BY <2>0
  <2>7. Gathers(g, q, n + 1)
    <3> HIDE DEF g
    <3>1. ASSUME NEW i \in 1 .. (n + 1) - 1 PROVE g[i + 1] = g[i] \o q[i + 1]
      BY <2>5, <2>6
    <3> QED BY <2>4, <3>1 DEF Gathers
  <2> HIDE DEF g
  <2>8. \E h \in [1 .. n + 1 -> Seq(S)] : Gathers(h, q, n + 1)
    BY <2>3, <2>7
  <2> QED BY <2>0, <2>8
<1>4. Len(q) \in 1 .. Len(q) => Len(q) \in G
  <2> HIDE DEF G
  <2>1. 1 .. Len(q) \subseteq G
    BY <1>0, <1>2, <1>3, Climb
  <2> QED BY <2>1
<1>5. Len(q) = 0 \/ Len(q) \in 1 .. Len(q)
  BY <1>0
<1> QED BY <1>0, <1>1, <1>4, <1>5

\* Two such functions agree as far as both go.
LEMMA GathersUnique ==
    ASSUME NEW n \in Nat, NEW f, NEW g, NEW q, NEW r, Gathers(f, q, n), Gathers(g, r, n),
           \A i \in 1 .. n : q[i] = r[i]
    PROVE  \A i \in 1 .. n : f[i] = g[i]
<1> DEFINE G == {i \in 1 .. n : f[i] = g[i]}
<1>1. n >= 1 => 1 \in G
  BY DEF Gathers
<1>2. ASSUME NEW i \in 1 .. n - 1, i \in G PROVE i + 1 \in G
  <2>1. i + 1 \in 1 .. n
    OBVIOUS
  <2> QED BY <1>2, <2>1 DEF Gathers
<1>3. 1 .. n \subseteq G
  <2> HIDE DEF G
  <2> QED BY <1>1, <1>2, Climb
<1> QED BY <1>3

\* FlattenSeq is the last value of that function.
LEMMA FlattenIsLast ==
    ASSUME NEW S, NEW q \in Seq(Seq(S)), q # <<>>,
           NEW f \in [1 .. Len(q) -> Seq(S)], Gathers(f, q, Len(q))
    PROVE  FlattenSeq(q) = f[Len(q)]
<1>0. PICK n \in Nat : n = Len(q) /\ n >= 1
  OBVIOUS
<1> DEFINE E(h) == h = [i \in 1 .. n |-> IF i = 1 THEN q[i] ELSE h[i - 1] \o q[i]]
<1>1. E(f)
  <2>1. f = [i \in 1 .. n |-> f[i]]
    BY <1>0
  <2>2. ASSUME NEW i \in 1 .. n, i # 1 PROVE f[i] = f[i - 1] \o q[i]
    <3>1. i - 1 \in 1 .. n - 1 /\ (i - 1) + 1 = i
      BY <2>2
    <3> QED BY <1>0, <3>1 DEF Gathers
  <2>3. f[1] = q[1]
    BY <1>0 DEF Gathers
  <2> QED BY <1>0, <2>1, <2>2, <2>3
<1>2. ASSUME NEW h, E(h) PROVE h = f
  <2>1. Gathers(h, q, n)
    <3>1. h[1] = q[1]
      BY <1>0, <1>2
    <3>2. ASSUME NEW i \in 1 .. n - 1 PROVE h[i + 1] = h[i] \o q[i + 1]
      <4>1. i + 1 \in 1 .. n /\ i + 1 # 1 /\ (i + 1) - 1 = i
        OBVIOUS
      <4> QED BY <1>2, <4>1
    <3> QED BY <3>1, <3>2 DEF Gathers
  <2>2. \A i \in 1 .. n : h[i] = f[i]
    BY <1>0, <2>1, GathersUnique
  <2>3. h = [i \in 1 .. n |-> h[i]] /\ f = [i \in 1 .. n |-> f[i]]
    <3>1. DOMAIN h = 1 .. n
      BY <1>2
    <3> QED BY <1>0, <1>2
  <2> QED BY <2>2, <2>3
<1>3. (CHOOSE h : E(h)) = f
  <2> HIDE DEF E
  <2> QED BY <1>1, <1>2
<1>4. FlattenSeq(q) = (CHOOSE h : E(h))[n]
  BY <1>0 DEF FlattenSeq
<1> QED BY <1>0, <1>3, <1>4

\* The bytes of a sequence of buffers are a sequence of bytes.
LEMMA FlattenType ==
    ASSUME NEW S, NEW q \in Seq(Seq(S))
    PROVE  FlattenSeq(q) \in Seq(S) /\ FlattenSeq(<<>>) = <<>>
<1>1. FlattenSeq(<<>>) = <<>>
  <2>1. Len(<<>>) = 0
    OBVIOUS
  <2> QED BY <2>1, Zenon DEF FlattenSeq
<1>2. CASE q = <<>>
  <2>1. <<>> \in Seq(S)
    OBVIOUS
  <2> QED BY <1>1, <1>2, <2>1, Zenon
<1>3. CASE q # <<>>
  <2>1. PICK f \in [1 .. Len(q) -> Seq(S)] : Gathers(f, q, Len(q))
    BY GathersExists
  <2>2. Len(q) \in 1 .. Len(q)
    BY <1>3
  <2> QED BY <1>1, <1>3, <2>1, <2>2, FlattenIsLast
<1> QED BY <1>2, <1>3

\* A buffer added at the end adds its bytes at the end.
LEMMA FlattenAppend ==
    ASSUME NEW S, NEW q \in Seq(Seq(S)), NEW s \in Seq(S)
    PROVE  FlattenSeq(Append(q, s)) = FlattenSeq(q) \o s
<1> DEFINE r == Append(q, s)
<1>0. PICK n \in Nat : n = Len(q)
  OBVIOUS
<1>1. r \in Seq(Seq(S)) /\ r # <<>> /\ Len(r) = n + 1 /\ r[n + 1] = s /\ \A i \in 1 .. n : r[i] = q[i]
  BY <1>0, AppendProperties
<1>6. \A h, k : Gathers(h, q, n) /\ Gathers(k, r, n) => \A i \in 1 .. n : h[i] = k[i]
  <2> HIDE DEF r
  <2>1. \A i \in 1 .. n : q[i] = r[i]
    BY <1>1
  <2> QED BY <2>1, GathersUnique
<1>2. PICK g \in [1 .. Len(r) -> Seq(S)] : Gathers(g, r, Len(r))
  BY <1>1, GathersExists
<1>3. FlattenSeq(r) = g[n + 1]
  BY <1>1, <1>2, FlattenIsLast
<1>4. CASE q = <<>>
  <2>1. n + 1 = 1
    BY <1>0, <1>4
  <2>2. g[1] = s
    BY <1>1, <1>2, <2>1 DEF Gathers
  <2>3. FlattenSeq(q) = <<>> /\ <<>> \o s = s
    BY <1>4, FlattenType, ConcatEmptySeq
  <2> QED BY <1>3, <2>1, <2>2, <2>3
<1>5. CASE q # <<>>
  <2>0. n \in 1 .. n /\ n \in 1 .. (n + 1) - 1
    BY <1>0, <1>5
  <2>1. PICK f \in [1 .. n -> Seq(S)] : Gathers(f, q, n)
    BY <1>0, GathersExists
  <2>2. FlattenSeq(q) = f[n]
    BY <1>0, <1>5, <2>1, FlattenIsLast
  <2>3. Gathers(g, r, n)
    <3>1. n + 1 >= 1 /\ n >= 1 /\ \A i \in 1 .. n - 1 : i \in 1 .. (n + 1) - 1
      BY <2>0
    <3> QED BY <1>1, <1>2, <3>1 DEF Gathers
  <2>4. f[n] = g[n]
    <3>1. \A i \in 1 .. n : f[i] = g[i]
      <4> HIDE DEF r
      <4> QED BY <1>6, <2>1, <2>3
    <3> QED BY <2>0, <3>1
  <2>5. g[n + 1] = g[n] \o s
    BY <1>1, <1>2, <2>0 DEF Gathers
  <2> QED BY <1>3, <2>2, <2>4, <2>5
<1> QED BY <1>4, <1>5

\* Concatenation is associative, in the form that is cited below.
LEMMA ConcatTriple ==
    ASSUME NEW S
    PROVE  \A a, b, c \in Seq(S) : (a \o b) \o c = a \o (b \o c)
BY ConcatAssociative, SMTT(60)

\* Concatenation of sequences of numbers.
LEMMA NatConcat ==
    /\ \A a, b \in Seq(Nat) : a \o b \in Seq(Nat)
    /\ \A a, b, c \in Seq(Nat) : (a \o b) \o c = a \o (b \o c)
    /\ \A a \in Seq(Nat) : a \o <<>> = a /\ <<>> \o a = a
<1>1. \A a, b \in Seq(Nat) : a \o b \in Seq(Nat)
  OBVIOUS
<1>2. \A a, b, c \in Seq(Nat) : (a \o b) \o c = a \o (b \o c)
  BY ConcatTriple, SMTT(60)
<1>3. \A a \in Seq(Nat) : a \o <<>> = a /\ <<>> \o a = a
  OBVIOUS
<1> QED BY <1>1, <1>2, <1>3, Zenon

\* The first buffer's bytes come first.
LEMMA FlattenTail ==
    ASSUME NEW S, NEW q \in Seq(Seq(S)), q # <<>>
    PROVE  FlattenSeq(q) = Head(q) \o FlattenSeq(Tail(q))
<1>7. \A a, b, c \in Seq(S) : (a \o b) \o c = a \o (b \o c)
  BY ConcatTriple, SMTT(60)
<1> DEFINE r == Tail(q)
<1>0. PICK n \in Nat : Len(q) = n + 1
  <2>1. Len(q) \in Nat \ {0}
    OBVIOUS
  <2>2. Len(q) = (Len(q) - 1) + 1 /\ Len(q) - 1 \in Nat
    BY <2>1
  <2> QED BY <2>2, Zenon
<1>1. r \in Seq(Seq(S)) /\ Len(r) = n /\ \A i \in 1 .. n : r[i] = q[i + 1]
  BY <1>0, HeadTailProperties
<1>2. Head(q) = q[1] /\ q[1] \in Seq(S)
  BY <1>0
<1>3. PICK f \in [1 .. Len(q) -> Seq(S)] : Gathers(f, q, Len(q))
  BY GathersExists
<1>4. FlattenSeq(q) = f[n + 1] /\ f[1] = q[1]
  <2>1. n + 1 >= 1
    OBVIOUS
  <2>2. FlattenSeq(q) = f[n + 1]
    BY <1>0, <1>3, FlattenIsLast
  <2> QED BY <1>0, <1>3, <2>1, <2>2 DEF Gathers
<1>5. CASE n = 0
  <2>1. r = <<>> /\ n + 1 = 1
    <3> HIDE DEF r
    <3> QED BY <1>1, <1>5
  <2>2. FlattenSeq(r) = <<>>
    BY <2>1, FlattenType
  <2> QED BY <1>2, <1>4, <2>1, <2>2, ConcatEmptySeq
<1>6. CASE n # 0
  <2> HIDE DEF r
  <2>0. /\ r # <<>> /\ n \in 1 .. n /\ n >= 1 /\ (n + 1) - 1 = n
        /\ 1 \in 1 .. n /\ 1 \in 1 .. (n + 1) - 1
    BY <1>1, <1>6
  <2>1. PICK g \in [1 .. n -> Seq(S)] : Gathers(g, r, n)
    BY <1>1, GathersExists
  <2>2. FlattenSeq(r) = g[n]
    BY <1>1, <2>0, <2>1, FlattenIsLast
  <2> DEFINE G == {i \in 1 .. n : f[i + 1] = q[1] \o g[i]}
  <2>3. 1 \in G
    <3>1. f[1 + 1] = f[1] \o q[1 + 1]
      <4>1. \A i \in 1 .. (n + 1) - 1 : f[i + 1] = f[i] \o q[i + 1]
        BY <1>0, <1>3 DEF Gathers
      <4> QED BY <2>0, <4>1
    <3>2. g[1] = r[1] /\ r[1] = q[1 + 1]
      <4>1. g[1] = r[1]
        BY <2>0, <2>1 DEF Gathers
      <4>2. r[1] = q[1 + 1]
        BY <1>1, <2>0
      <4> QED BY <4>1, <4>2
    <3> QED BY <1>4, <2>0, <3>1, <3>2
  <2>4. ASSUME NEW i \in 1 .. n - 1, i \in G PROVE i + 1 \in G
    <3>0. i \in 1 .. n /\ i + 1 \in 1 .. n /\ i + 1 \in 1 .. (n + 1) - 1
      OBVIOUS
    <3>1. f[(i + 1) + 1] = f[i + 1] \o q[(i + 1) + 1]
      BY <1>0, <1>3, <3>0 DEF Gathers
    <3>2. g[i + 1] = g[i] \o r[i + 1] /\ r[i + 1] = q[(i + 1) + 1]
      BY <1>1, <2>1, <3>0 DEF Gathers
    <3>3. g[i] \in Seq(S) /\ r[i + 1] \in Seq(S)
      <4>1. Len(r) = n /\ \A j \in 1 .. Len(r) : r[j] \in Seq(S)
        BY <1>1
      <4> QED BY <2>1, <3>0, <4>1
    <3>4. (q[1] \o g[i]) \o r[i + 1] = q[1] \o (g[i] \o r[i + 1])
      BY <1>2, <1>7, <3>3
    <3> QED BY <2>4, <3>0, <3>1, <3>2, <3>4
  <2>5. 1 .. n \subseteq G
    <3> HIDE DEF G
    <3> QED BY <2>3, <2>4, Climb
  <2>6. f[n + 1] = q[1] \o g[n]
    BY <2>0, <2>5
  <2>7. FlattenSeq(q) = Head(q) \o FlattenSeq(r)
    BY <1>2, <1>4, <2>2, <2>6, Zenon
  <2> QED BY <2>7 DEF r
<1> QED BY <1>5, <1>6

-----------------------------------------------------------------------------
(* Step by step: f[i] is what step i makes of f[i - 1]. *)

Builds(f, a, steps, n) == f[0] = a /\ \A i \in 1 .. n : f[i] = steps[i][f[i - 1]]

\* A function defined step by step exists.
LEMMA Recursion ==
    ASSUME NEW A, NEW a \in A, NEW n \in Nat, NEW steps \in [1 .. n -> [A -> A]]
    PROVE  \E f \in [0 .. n -> A] : Builds(f, a, steps, n)
<1> DEFINE G == {k \in 0 .. n : \E f \in [0 .. k -> A] : Builds(f, a, steps, k)}
<1>1. 0 \in G
  <2> DEFINE f == [i \in 0 .. 0 |-> a]
  <2>1. f \in [0 .. 0 -> A] /\ f[0] = a /\ 1 .. 0 = {}
    OBVIOUS
  <2>2. Builds(f, a, steps, 0)
    BY <2>1, Zenon DEF Builds
  <2> QED BY <2>1, <2>2
<1>2. ASSUME NEW k \in 0 .. n - 1, k \in G PROVE k + 1 \in G
  <2>1. PICK f \in [0 .. k -> A] : Builds(f, a, steps, k)
    BY <1>2
  <2> DEFINE x == steps[k + 1][f[k]]
  <2>2. k + 1 \in 1 .. n /\ k + 1 \in 0 .. n /\ k \in 0 .. k /\ k \in Nat
    OBVIOUS
  <2>3. x \in A
    BY <2>2
  <2> HIDE DEF x
  <2> DEFINE g == [i \in 0 .. k + 1 |-> IF i = k + 1 THEN x ELSE f[i]]
  <2>4. g \in [0 .. k + 1 -> A]
    BY <2>2, <2>3
  <2>5. g[0] = a
    BY <2>1, <2>2 DEF Builds
  <2>6. ASSUME NEW i \in 1 .. k + 1 PROVE g[i] = steps[i][g[i - 1]]
    <3>1. CASE i = k + 1
      <4>1. i - 1 = k /\ i \in 0 .. k + 1 /\ k \in 0 .. k + 1 /\ k # k + 1
        BY <2>2, <3>1
      <4>2. g[i] = x /\ g[i - 1] = f[k]
        BY <3>1, <4>1
      <4> QED BY <3>1, <4>2 DEF x
    <3>2. CASE i # k + 1
      <4>1. i \in 1 .. k /\ i \in 0 .. k + 1 /\ i - 1 \in 0 .. k + 1 /\ i - 1 # k + 1
        BY <2>2, <3>2
      <4>2. g[i] = f[i] /\ g[i - 1] = f[i - 1]
        BY <3>2, <4>1
      <4> QED BY <2>1, <4>1, <4>2 DEF Builds
    <3> QED BY <3>1, <3>2
  <2> HIDE DEF g
  <2>7. Builds(g, a, steps, k + 1)
    BY <2>5, <2>6 DEF Builds
  <2> QED BY <2>2, <2>4, <2>7
<1> HIDE DEF G
<1>3. n \in G
  BY <1>1, <1>2, ClimbFrom0
<1> QED
  BY <1>3 DEF G

\* What each step keeps holds at the end: the places that are in order reach the last.
LEMMA Reaches ==
    ASSUME NEW n \in Nat, NEW G, 0 \in G,
           \A i \in 1 .. n : i - 1 \in G => i \in G
    PROVE  0 .. n \subseteq G
<1>1. ASSUME NEW k \in 0 .. n PROVE k \in G
  <2>1. ASSUME NEW i \in 0 .. k - 1, i \in G PROVE i + 1 \in G
    <3>1. i + 1 \in 1 .. n /\ (i + 1) - 1 = i
      OBVIOUS
    <3> QED BY <2>1, <3>1
  <2>2. k \in Nat
    OBVIOUS
  <2> QED BY <2>1, <2>2, ClimbFrom0
<1> QED BY <1>1

\* The elements of a concatenation.
LEMMA ConcatParts ==
    ASSUME NEW S, NEW a \in Seq(S), NEW b \in Seq(S), NEW k, NEW m, k = Len(a), m = Len(b)
    PROVE  /\ a \o b \in Seq(S) /\ Len(a \o b) = k + m /\ k \in Nat /\ m \in Nat
           /\ \A i \in 1 .. k : (a \o b)[i] = a[i]
           /\ \A i \in 1 .. m : (a \o b)[k + i] = b[i]
<1>1. k \in Nat /\ m \in Nat
  OBVIOUS
<1>2. a \o b \in Seq(S) /\ Len(a \o b) = k + m
  BY ConcatProperties
<1>3. \A i \in 1 .. k + m : (a \o b)[i] = IF i <= k THEN a[i] ELSE b[i - k]
  BY <1>1, ConcatProperties
<1>4. ASSUME NEW i \in 1 .. k PROVE (a \o b)[i] = a[i]
  BY <1>1, <1>3
<1>5. ASSUME NEW i \in 1 .. m PROVE (a \o b)[k + i] = b[i]
  <2>1. k + i \in 1 .. k + m /\ ~ (k + i <= k) /\ (k + i) - k = i
    BY <1>1
  <2> QED BY <1>3, <2>1
<1> QED BY <1>1, <1>2, <1>4, <1>5

\* A sequence made of two is their concatenation.
Glue(r, a, b, k, m) ==
    /\ k = Len(a) /\ m = Len(b) /\ Len(r) = k + m
    /\ \A i \in 1 .. k : r[i] = a[i]
    /\ \A i \in 1 .. m : r[k + i] = b[i]

\* Two sequences that make up a third are it when put together.
LEMMA Glued ==
    ASSUME NEW S, NEW r \in Seq(S), NEW a \in Seq(S), NEW b \in Seq(S), NEW k, NEW m,
           Glue(r, a, b, k, m)
    PROVE  a \o b = r
<1>0. /\ k = Len(a) /\ m = Len(b) /\ Len(r) = k + m
      /\ \A i \in 1 .. k : r[i] = a[i]
      /\ \A i \in 1 .. m : r[k + i] = b[i]
  BY DEF Glue
<1>1. a \o b \in Seq(S) /\ Len(a \o b) = k + m /\ k \in Nat /\ m \in Nat
      /\ (\A i \in 1 .. k : (a \o b)[i] = a[i])
      /\ \A i \in 1 .. m : (a \o b)[k + i] = b[i]
  BY <1>0, ConcatParts
<1> DEFINE s == a \o b
<1>2. ASSUME NEW i \in 1 .. k + m PROVE (a \o b)[i] = r[i]
  <2>1. CASE i <= k
    <3>1. i \in 1 .. k
      BY <1>1, <2>1
    <3> QED BY <1>0, <1>1, <3>1, Zenon
  <2>2. CASE ~ (i <= k)
    <3>1. i - k \in 1 .. m /\ i = k + (i - k)
      BY <1>1, <2>2
    <3>2. PICK j \in 1 .. m : i = k + j
      BY <3>1, Zenon
    <3> QED BY <1>0, <1>1, <3>2, Zenon
  <2> QED BY <2>1, <2>2
<1>3. Len(s) = Len(r) /\ \A i \in 1 .. Len(s) : s[i] = r[i]
  BY <1>0, <1>1, <1>2, Zenon
<1>4. s \in Seq(S)
  BY <1>1
<1> HIDE DEF s
<1>5. s = r
  BY <1>3, <1>4, SeqEqual
<1> QED BY <1>5 DEF s

\* Two elements more.
LEMMA TwoMore ==
    ASSUME NEW S
    PROVE  \A a, b \in Seq(S) : \A k \in Nat :
             k = Len(a) /\ Len(b) = 2 =>
               /\ Len(a \o b) = k + 2
               /\ \A j \in 1 .. k : (a \o b)[j] = a[j]
               /\ (a \o b)[k + 1] = b[1] /\ (a \o b)[k + 2] = b[2]
<1>1. ASSUME NEW a \in Seq(S), NEW b \in Seq(S), NEW k \in Nat, k = Len(a), Len(b) = 2
      PROVE  /\ Len(a \o b) = k + 2
             /\ \A j \in 1 .. k : (a \o b)[j] = a[j]
             /\ (a \o b)[k + 1] = b[1] /\ (a \o b)[k + 2] = b[2]
  <2>1. PICK m \in Nat : m = Len(b) /\ m = 2
    BY <1>1
  <2>2. k = Len(a) /\ m = Len(b)
    BY <1>1, <2>1
  <2>3. /\ Len(a \o b) = k + m
        /\ \A j \in 1 .. k : (a \o b)[j] = a[j]
        /\ \A j \in 1 .. m : (a \o b)[k + j] = b[j]
    BY <2>2, ConcatParts
  <2>4. 1 \in 1 .. m /\ 2 \in 1 .. m
    BY <2>1
  <2> QED BY <2>1, <2>3, <2>4, Zenon
<1> QED BY <1>1, Zenon

\* Buffers of two bytes each end up two by two.
LEMMA FlattenPairs ==
    ASSUME NEW S, NEW q \in Seq(Seq(S)), NEW n \in Nat, n = Len(q),
           \A i \in 1 .. n : Len(q[i]) = 2
    PROVE  /\ FlattenSeq(q) \in Seq(S) /\ Len(FlattenSeq(q)) = 2 * n
           /\ \A i \in 1 .. n : /\ FlattenSeq(q)[2 * i - 1] = q[i][1]
                                /\ FlattenSeq(q)[2 * i] = q[i][2]
<1>1. CASE n = 0
  <2>1. FlattenSeq(q) = <<>>
    <3>1. q = <<>>
      <4>1. Len(q) = 0
        BY <1>1
      <4> QED BY <4>1, EmptySeq, Zenon
    <3> QED BY <3>1, FlattenType, Zenon
  <2> QED BY <1>1, <2>1
<1>2. CASE n # 0
  <2>1. PICK f \in [1 .. n -> Seq(S)] : Gathers(f, q, n)
    BY GathersExists, Zenon
  <2>2. FlattenSeq(q) = f[n]
    <3>1. q # <<>>
      BY <1>2
    <3> QED BY <2>1, <3>1, FlattenIsLast, Zenon
  <2> DEFINE Paired(i) ==
        /\ Len(f[i]) = 2 * i
        /\ \A k \in 1 .. i : f[i][2 * k - 1] = q[k][1] /\ f[i][2 * k] = q[k][2]
  <2> DEFINE G == {i \in 1 .. n : Paired(i)}
  <2>3. 1 \in G
    <3>1. f[1] = q[1] /\ 1 \in 1 .. n
      BY <1>2, <2>1 DEF Gathers
    <3>2. Len(f[1]) = 2 * 1
      BY <3>1
    <3>3. ASSUME NEW k \in 1 .. 1 PROVE f[1][2 * k - 1] = q[k][1] /\ f[1][2 * k] = q[k][2]
      <4>1. k = 1 /\ 2 * k - 1 = 1 /\ 2 * k = 2
        OBVIOUS
      <4> QED BY <3>1, <4>1, Zenon
    <3> QED BY <3>1, <3>2, <3>3
  <2>4. ASSUME NEW i \in 1 .. n - 1, i \in G PROVE i + 1 \in G
    <3>1. i \in 1 .. n /\ i + 1 \in 1 .. n /\ i \in Nat
      OBVIOUS
    <3>2. PICK a \in Seq(S) : a = f[i]
      BY <2>1, <3>1
    <3>3. PICK b \in Seq(S) : b = q[i + 1] /\ Len(b) = 2
      <4>1. q[i + 1] \in Seq(S)
        BY <3>1, ElementOfSeq
      <4> QED BY <3>1, <4>1
    <3>4. Len(a) = 2 * i /\ \A k \in 1 .. i : a[2 * k - 1] = q[k][1] /\ a[2 * k] = q[k][2]
      BY <2>4, <3>2, Zenon
    <3>5. f[i + 1] = a \o b
      BY <2>1, <3>2, <3>3, Zenon DEF Gathers
    <3>6. /\ Len(a \o b) = 2 * i + 2
          /\ \A j \in 1 .. 2 * i : (a \o b)[j] = a[j]
          /\ (a \o b)[2 * i + 1] = b[1] /\ (a \o b)[2 * i + 2] = b[2]
      <4>1. PICK k \in Nat : k = 2 * i /\ k = Len(a)
        BY <3>1, <3>4
      <4>2. /\ Len(a \o b) = k + 2
            /\ \A j \in 1 .. k : (a \o b)[j] = a[j]
            /\ (a \o b)[k + 1] = b[1] /\ (a \o b)[k + 2] = b[2]
        <5>1. k = Len(a) /\ Len(b) = 2
          BY <3>3, <4>1
        <5> QED BY <5>1, TwoMore, SMTT(60)
      <4> QED BY <4>1, <4>2, Zenon
    <3>7. Len(f[i + 1]) = 2 * (i + 1)
      BY <3>5, <3>6
    <3>8. ASSUME NEW k \in 1 .. i + 1
          PROVE  f[i + 1][2 * k - 1] = q[k][1] /\ f[i + 1][2 * k] = q[k][2]
      <4>1. CASE k = i + 1
        <5>1. 2 * k - 1 = 2 * i + 1 /\ 2 * k = 2 * i + 2
          BY <3>1, <4>1
        <5> QED BY <3>3, <3>5, <3>6, <4>1, <5>1, Zenon
      <4>2. CASE k # i + 1
        <5>1. k \in 1 .. i /\ 2 * k - 1 \in 1 .. 2 * i /\ 2 * k \in 1 .. 2 * i
          BY <3>1, <4>2
        <5> QED BY <3>4, <3>5, <3>6, <5>1, Zenon
      <4> QED BY <4>1, <4>2
    <3> QED BY <3>1, <3>7, <3>8, Zenon
  <2>5. n \in G
    <3> HIDE DEF G
    <3>1. n >= 1 => 1 \in G
      BY <2>3
    <3>2. 1 .. n \subseteq G
      BY <2>4, <3>1, Climb
    <3>3. n \in 1 .. n
      BY <1>2
    <3> QED BY <3>2, <3>3
  <2>6. f[n] \in Seq(S)
    BY <2>1, <2>5
  <2> QED BY <2>2, <2>5, <2>6, Zenon
<1> QED BY <1>1, <1>2

-----------------------------------------------------------------------------
(* How two sequences of bytes come out of one. *)

\* Any concatenation is made of its parts.
LEMMA ConcatGlue ==
    ASSUME NEW S
    PROVE  \A a, b \in Seq(S) : \A k, m \in Nat :
             k = Len(a) /\ m = Len(b) => Glue(a \o b, a, b, k, m)
<1>1. ASSUME NEW a \in Seq(S), NEW b \in Seq(S), NEW k \in Nat, NEW m \in Nat,
             k = Len(a), m = Len(b)
      PROVE  Glue(a \o b, a, b, k, m)
  BY <1>1, ConcatParts DEF Glue
<1> QED BY <1>1, Zenon

\* The elements of q, w bits each, side by side in r.
Even(r, q, w, n) ==
    /\ Len(r) = w * n
    /\ \A d \in 1 .. n : \A i \in 1 .. w : r[w * (d - 1) + i] = q[d][i]

\* Registers of one width in a row, one bit or 32 each, keep their bits side by side.
LEMMA FlattenEven ==
    ASSUME NEW S, NEW q \in Seq(Seq(S)), NEW n \in Nat, n = Len(q), NEW w \in {1, 32},
           \A d \in 1 .. n : Len(q[d]) = w
    PROVE  FlattenSeq(q) \in Seq(S) /\ Even(FlattenSeq(q), q, w, n)
<1>1. CASE n = 0
  <2>1. FlattenSeq(q) = <<>>
    <3>1. q = <<>>
      <4>1. Len(q) = 0
        BY <1>1
      <4> QED BY <4>1, EmptySeq, Zenon
    <3> QED BY <3>1, FlattenType, Zenon
  <2> QED BY <1>1, <2>1 DEF Even
<1>2. CASE n # 0
  <2>1. PICK f \in [1 .. n -> Seq(S)] : Gathers(f, q, n)
    BY GathersExists, Zenon
  <2>2. FlattenSeq(q) = f[n]
    <3>1. q # <<>>
      BY <1>2
    <3> QED BY <2>1, <3>1, FlattenIsLast, Zenon
  <2> DEFINE G == {k \in 1 .. n : Even(f[k], q, w, k)}
  <2>3. 1 \in G
    <3>1. f[1] = q[1] /\ 1 \in 1 .. n
      BY <1>2, <2>1 DEF Gathers
    <3>2. Len(f[1]) = w * 1
      BY <3>1
    <3>3. ASSUME NEW d \in 1 .. 1, NEW i \in 1 .. w PROVE f[1][w * (d - 1) + i] = q[d][i]
      <4>1. d = 1 /\ w * (d - 1) + i = i
        OBVIOUS
      <4> QED BY <3>1, <4>1, Zenon
    <3> QED BY <3>1, <3>2, <3>3 DEF Even
  <2>4. ASSUME NEW k \in 1 .. n - 1, k \in G PROVE k + 1 \in G
    <3>1. k \in 1 .. n /\ k + 1 \in 1 .. n /\ k \in Nat
      OBVIOUS
    <3>2. PICK a \in Seq(S) : a = f[k]
      BY <2>1, <3>1
    <3>3. PICK b \in Seq(S) : b = q[k + 1] /\ Len(b) = w
      <4>1. q[k + 1] \in Seq(S)
        BY <3>1, ElementOfSeq
      <4> QED BY <3>1, <4>1
    <3>4. Len(a) = w * k /\ \A d \in 1 .. k : \A i \in 1 .. w : a[w * (d - 1) + i] = q[d][i]
      BY <2>4, <3>2, Zenon DEF Even
    <3>5. f[k + 1] = a \o b
      BY <2>1, <3>2, <3>3, Zenon DEF Gathers
    <3>6. PICK l \in Nat : l = w * k /\ l = Len(a)
      BY <3>1, <3>4
    <3>7. PICK m \in Nat : m = w /\ m = Len(b)
      BY <3>3
    <3>8. /\ Len(f[k + 1]) = l + m
          /\ \A j \in 1 .. l : f[k + 1][j] = a[j]
          /\ \A j \in 1 .. m : f[k + 1][l + j] = b[j]
      <4>1. Glue(f[k + 1], a, b, l, m)
        BY <3>5, <3>6, <3>7, ConcatGlue, Zenon
      <4> QED BY <4>1, Zenon DEF Glue
    <3>9. Len(f[k + 1]) = w * (k + 1)
      <4>1. l + m = w * (k + 1)
        BY <3>1, <3>6, <3>7
      <4> QED BY <3>8, <4>1, Zenon
    <3>10. ASSUME NEW d \in 1 .. k + 1, NEW i \in 1 .. w
           PROVE  f[k + 1][w * (d - 1) + i] = q[d][i]
      <4>1. CASE d = k + 1
        <5>1. w * (d - 1) + i = l + i /\ i \in 1 .. m
          BY <3>1, <3>6, <3>7, <4>1
        <5> QED BY <3>3, <3>8, <4>1, <5>1, Zenon
      <4>2. CASE d # k + 1
        <5>1. d \in 1 .. k
          BY <3>1, <4>2
        <5>2. w * (d - 1) + i \in 1 .. l
          BY <3>1, <3>6, <5>1
        <5> QED BY <3>4, <3>8, <5>1, <5>2, ZenonT(60)
      <4> QED BY <4>1, <4>2
    <3> QED BY <3>1, <3>9, <3>10, Zenon DEF Even
  <2>5. n \in G
    <3> HIDE DEF G
    <3>1. n >= 1 => 1 \in G
      BY <2>3
    <3>2. 1 .. n \subseteq G
      BY <2>4, <3>1, Climb
    <3>3. n \in 1 .. n
      BY <1>2
    <3> QED BY <3>2, <3>3
  <2>6. f[n] \in Seq(S)
    BY <2>1, <2>5
  <2> QED BY <2>2, <2>5, <2>6, Zenon
<1> QED BY <1>1, <1>2

\* Where each part of what is put together ends, not behind the end of it all.
LEMMA GathersEnds ==
    ASSUME NEW S, NEW q \in Seq(Seq(S)), NEW n \in Nat \ {0}, n = Len(q),
           NEW before \in [1 .. n -> Nat], before[1] = 0,
           \A d \in 1 .. n - 1 : before[d + 1] = before[d] + Len(q[d])
    PROVE  \A d \in 1 .. n : before[d] + Len(q[d]) <= Len(FlattenSeq(q))
<1>1. PICK f \in [1 .. n -> Seq(S)] : Gathers(f, q, n)
  BY GathersExists, Zenon
<1>2. FlattenSeq(q) = f[n]
  <2>1. q # <<>>
    OBVIOUS
  <2> QED BY <1>1, <2>1, FlattenIsLast, Zenon
<1>3. ASSUME NEW d \in 1 .. n PROVE q[d] \in Seq(S) /\ Len(q[d]) \in Nat
  BY ElementOfSeq
<1> DEFINE G == {k \in 1 .. n : /\ Len(f[k]) = before[k] + Len(q[k])
                                /\ \A d \in 1 .. k : before[d] + Len(q[d]) <= Len(f[k])}
<1>4. 1 \in G
  <2>1. f[1] = q[1] /\ 1 \in 1 .. n
    BY <1>1 DEF Gathers
  <2>2. Len(f[1]) = before[1] + Len(q[1])
    BY <1>3, <2>1
  <2>3. \A d \in 1 .. 1 : d = 1
    OBVIOUS
  <2>4. Len(f[1]) <= Len(f[1])
    BY <1>3, <2>1
  <2> QED BY <2>1, <2>2, <2>3, <2>4, Zenon
<1>5. ASSUME NEW k \in 1 .. n - 1, k \in G PROVE k + 1 \in G
  <2>1. k \in 1 .. n /\ k + 1 \in 1 .. n
    OBVIOUS
  <2>2. f[k] \in Seq(S) /\ q[k + 1] \in Seq(S)
    BY <1>3, <2>1
  <2>3. f[k + 1] = f[k] \o q[k + 1]
    BY <1>1 DEF Gathers
  <2>4. PICK l \in Nat, m \in Nat : l = Len(f[k]) /\ m = Len(q[k + 1])
    BY <2>2
  <2>5. Len(f[k + 1]) = l + m
    <3>1. PICK a \in Seq(S), b \in Seq(S) : a = f[k] /\ b = q[k + 1]
      BY <2>2
    <3>2. f[k + 1] = a \o b /\ l = Len(a) /\ m = Len(b)
      BY <2>3, <2>4, <3>1
    <3>3. Glue(a \o b, a, b, l, m)
      BY <3>2, ConcatGlue
    <3> QED BY <3>2, <3>3 DEF Glue
  <2>6. /\ l = before[k] + Len(q[k])
        /\ \A d \in 1 .. k : before[d] + Len(q[d]) <= l
    BY <1>5, <2>4, Zenon
  <2>7. before[k + 1] = l
    BY <2>6, Zenon
  <2>8. l + m <= l + m /\ l <= l + m
    OBVIOUS
  <2>9. ASSUME NEW d \in 1 .. k + 1 PROVE before[d] + Len(q[d]) <= l + m
    <3>1. CASE d = k + 1
      BY <2>4, <2>7, <2>8, <3>1, Zenon
    <3>2. CASE d # k + 1
      <4>1. d \in 1 .. k /\ d \in 1 .. n
        BY <3>2
      <4>2. PICK x \in Nat : x = before[d] + Len(q[d])
        <5>1. before[d] \in Nat /\ Len(q[d]) \in Nat
          BY <1>3, <4>1, Zenon
        <5> QED BY <5>1
      <4>3. x <= l
        BY <2>6, <4>1, <4>2, Zenon
      <4>4. x <= l + m
        BY <4>3
      <4> QED BY <4>2, <4>4, Zenon
    <3> QED BY <3>1, <3>2
  <2>10. /\ Len(f[k + 1]) = before[k + 1] + Len(q[k + 1])
         /\ \A d \in 1 .. k + 1 : before[d] + Len(q[d]) <= Len(f[k + 1])
    BY <2>4, <2>5, <2>7, <2>9, Zenon
  <2> QED BY <2>1, <2>10, Zenon
<1> HIDE DEF G
<1>6. 1 .. n \subseteq G
  BY <1>4, <1>5, Climb
<1>7. n \in G
  BY <1>6
<1> QED BY <1>2, <1>7, Zenon DEF G

=============================================================================
