-------------------------- MODULE NodeStreams_proofs --------------------------
(***************************************************************************)
(* What the streams of NodeStreams keep, with the readline interface of    *)
(* Readline on top: no byte is lost, repeated or overtaken, an end means   *)
(* that everything came before it, and an interface gives each line of the *)
(* text once and in order.                                                 *)
(*                                                                         *)
(* The invariant is Typed /\ Inv.  Inv says where the bytes are that a     *)
(* transform has taken, who hears what flows, and which jobs and events    *)
(* are still to come.  Most steps leave most of it alone: the lemmas of    *)
(* Calm and of what stays put carry it over for them.                      *)
(*                                                                         *)
(* For the lines, LinesHold joins it: what an iterator has heard           *)
(* (IteratorHolds), and where the text is between the chunks, the lines    *)
(* under way and the rest (TextHolds).                                     *)
(***************************************************************************)
EXTENDS Readline, SequenceTheorems, FiniteSetTheorems, TLAPS

-----------------------------------------------------------------------------
(* Sequences that are put together: FlattenSeq, without a recursion.       *)

(* The pieces put together one by one. *)
Joins(f, q) == f = [i \in 1..Len(q) |-> IF i = 1 THEN q[i] ELSE f[i - 1] \o q[i]]

LEMMA FlattenIs ==
    \A q : Len(q) # 0 => FlattenSeq(q) = (CHOOSE f : Joins(f, q))[Len(q)]
BY Zenon DEF FlattenSeq, Joins

LEMMA LeastOf ==
    ASSUME NEW T, T \subseteq Nat, T # {}
    PROVE  \E x \in T : \A y \in T : x <= y
<1> DEFINE I == {1..n : n \in T}
<1>1. I \subseteq FiniteSubsetsOf(Nat) /\ I # {}
  <2>1. ASSUME NEW n \in T PROVE 1..n \in FiniteSubsetsOf(Nat)
    <3>1. n \in Int /\ 1 \in Int
        OBVIOUS
    <3>2. IsFiniteSet(1..n)
        BY <3>1, FS_Interval
    <3>3. 1..n \subseteq Nat
        OBVIOUS
    <3> QED BY <3>2, <3>3 DEF FiniteSubsetsOf
  <2> QED BY <2>1
<1>2. IsWellFoundedOn(StrictSubsetOrdering(Nat), FiniteSubsetsOf(Nat))
    BY FS_StrictSubsetOrderingWellFounded
<1>3. PICK A \in I : \A B \in I : ~(<<B, A>> \in StrictSubsetOrdering(Nat))
  <2> HIDE DEF I
  <2> QED BY <1>1, <1>2, WFMin
<1>4. PICK x \in T : A = 1..x
    OBVIOUS
<1>5. ASSUME NEW y \in T PROVE x <= y
  <2>1. 1..y \in I
      OBVIOUS
  <2>2. ~(<<1..y, A>> \in StrictSubsetOrdering(Nat))
      BY <1>3, <2>1
  <2>3. 1..y \in FiniteSubsetsOf(Nat) /\ A \in FiniteSubsetsOf(Nat)
      BY <1>1, <2>1
  <2>4. ~(1..y \subseteq 1..x /\ 1..y # 1..x)
      BY <1>4, <2>2, <2>3 DEF StrictSubsetOrdering
  <2>5. SUFFICES ASSUME y < x PROVE FALSE
      OBVIOUS
  <2>6. 1..y \subseteq 1..x /\ x \in 1..x /\ x \notin 1..y
      BY <2>5
  <2> QED BY <2>4, <2>6
<1> QED BY <1>5

(* Counting up: a set of numbers that holds 0 and with a number the next.  *)
LEMMA CountUp ==
    ASSUME NEW n \in Nat, NEW T, 0 \in T, \A i \in 0..(n - 1) : i \in T => i + 1 \in T
    PROVE  0..n \subseteq T
<1> DEFINE M == {i \in 0..n : i \notin T}
<1>1. SUFFICES ASSUME M # {} PROVE FALSE
    OBVIOUS
<1>2. M \subseteq Nat
    OBVIOUS
<1>3. PICK x \in M : \A y \in M : x <= y
  <2> HIDE DEF M
  <2> QED BY <1>1, <1>2, LeastOf
<1>4. x \in 0..n /\ x \notin T /\ x # 0
    BY <1>3
<1>5. x - 1 \in 0..(n - 1) /\ x - 1 \in 0..n /\ ~(x <= x - 1)
    BY <1>4
<1>6. x - 1 \in T
    BY <1>3, <1>5
<1>7. (x - 1) + 1 = x
    BY <1>4
<1> QED BY <1>4, <1>5, <1>6, <1>7

(* The partial results of putting together: f[i] is the first i pieces.    *)
Partial(f, q, n, S) ==
    /\ f \in [0..n -> Seq(S)]
    /\ f[0] = <<>>
    /\ \A i \in 1..n : f[i] = f[i - 1] \o q[i]

LEMMA PartialExists ==
    ASSUME NEW S, NEW q \in Seq(Seq(S))
    PROVE  \E f : Partial(f, q, Len(q), S)
<1> DEFINE n == Len(q)
           T == {k \in 0..n : \E f : Partial(f, q, k, S)}
<1>0. n \in Nat
    OBVIOUS
<1>1. 0 \in T
  <2> DEFINE f == [i \in 0..0 |-> <<>>]
  <2>1. f \in [0..0 -> Seq(S)] /\ f[0] = <<>>
      BY EmptySeq
  <2>2. Partial(f, q, 0, S)
      BY <2>1 DEF Partial
  <2> QED BY <1>0, <2>2
<1>2. ASSUME NEW k \in 0..(n - 1), k \in T PROVE k + 1 \in T
  <2>1. PICK f : Partial(f, q, k, S)
      BY <1>2
  <2>2. k \in 0..k /\ k + 1 \in 1..n /\ k \in Nat /\ k + 1 \in 0..n
      BY <1>0, <1>2
  <2>3. q[k + 1] \in Seq(S)
      BY <2>2, ElementOfSeq
  <2> DEFINE g == [i \in 0..(k + 1) |-> IF i <= k THEN f[i] ELSE f[k] \o q[k + 1]]
  <2>4. f[k] \in Seq(S) /\ f[k] \o q[k + 1] \in Seq(S)
      BY <2>1, <2>2, <2>3, ConcatProperties, Zenon DEF Partial
  <2>5. \A i \in 0..(k + 1) : i <= k => i \in 0..k
      BY <2>2
  <2>6. g \in [0..(k + 1) -> Seq(S)]
      BY <2>1, <2>4, <2>5 DEF Partial
  <2>7. g[0] = <<>>
      BY <2>1, <2>2 DEF Partial
  <2>8. ASSUME NEW i \in 1..(k + 1) PROVE g[i] = g[i - 1] \o q[i]
    <3>1. i - 1 \in 0..(k + 1) /\ i - 1 <= k /\ i \in 0..(k + 1)
        BY <2>2
    <3>2. CASE i = k + 1
      <4>0. k + 1 \in 0..(k + 1) /\ ~(k + 1 <= k) /\ k \in 0..(k + 1) /\ k <= k /\ (k + 1) - 1 = k
          BY <2>2
      <4>1. g[k + 1] = f[k] \o q[k + 1] /\ g[k] = f[k]
          BY <4>0
      <4> QED BY <3>2, <4>0, <4>1
    <3>3. CASE i # k + 1
      <4>1. i \in 1..k
          BY <2>2, <3>3
      <4>2. g[i] = f[i] /\ g[i - 1] = f[i - 1]
          BY <2>2, <3>1, <4>1
      <4> QED BY <2>1, <4>1, <4>2 DEF Partial
    <3> QED BY <3>2, <3>3
  <2>9. Partial(g, q, k + 1, S)
    <3> HIDE DEF g
    <3> QED BY <2>6, <2>7, <2>8 DEF Partial
  <2> QED BY <2>2, <2>9
<1>3. 0..n \subseteq T
  <2> HIDE DEF T, n
  <2> QED BY <1>0, <1>1, <1>2, CountUp
<1>4. n \in 0..n
    BY <1>0
<1> QED BY <1>3, <1>4

LEMMA FlattenIsPartial ==
    ASSUME NEW S, NEW q \in Seq(Seq(S)), NEW f, Partial(f, q, Len(q), S)
    PROVE  FlattenSeq(q) = f[Len(q)]
<1> DEFINE n == Len(q)
<1>0. n \in Nat
    OBVIOUS
<1>1. CASE n = 0
  <2>1. q = <<>>
      BY <1>1
  <2>2. FlattenSeq(q) = q
      BY <1>1 DEF FlattenSeq
  <2> QED BY <1>1, <2>1, <2>2 DEF Partial
<1>2. CASE n # 0
  <2> DEFINE h == CHOOSE j : Joins(j, q)
             e == [i \in 1..n |-> f[i]]
  <2>1. Joins(e, q)
    <3>1. ASSUME NEW i \in 1..n PROVE e[i] = IF i = 1 THEN q[i] ELSE e[i - 1] \o q[i]
      <4>1. /\ f[i] = f[i - 1] \o q[i]
            /\ q[i] \in Seq(S)
            /\ i - 1 \in 0..n
        <5>1. f[i] = f[i - 1] \o q[i]
            BY DEF Partial
        <5>2. q[i] \in Seq(S)
            BY ElementOfSeq
        <5>3. i - 1 \in 0..n
            BY <1>0
        <5> QED BY <5>1, <5>2, <5>3
      <4>2. CASE i = 1
        <5>1. f[i - 1] = <<>>
            BY <4>2 DEF Partial
        <5>2. <<>> \o q[i] = q[i]
            BY <4>1, ConcatEmptySeq, Zenon
        <5> QED BY <4>1, <4>2, <5>1, <5>2
      <4>3. CASE i # 1
        <5>1. i - 1 \in 1..n
            BY <1>0, <4>3
        <5> QED BY <4>1, <4>3, <5>1
      <4> QED BY <4>2, <4>3
    <3> QED BY <3>1 DEF Joins
  <2>2. Joins(h, q)
    <3> HIDE DEF e
    <3> QED BY <2>1, Zenon
  <2> DEFINE T == {0} \cup {i \in 1..n : h[i] = f[i]}
  <2>3. ASSUME NEW i \in 0..(n - 1), i \in T PROVE i + 1 \in T
    <3>1. i + 1 \in 1..n /\ (i + 1) - 1 = i
        BY <1>0, <2>3
    <3> HIDE DEF h
    <3>2. h[i + 1] = IF i + 1 = 1 THEN q[i + 1] ELSE h[(i + 1) - 1] \o q[i + 1]
        BY <2>2, <3>1 DEF Joins
    <3>3. e[i + 1] = IF i + 1 = 1 THEN q[i + 1] ELSE e[(i + 1) - 1] \o q[i + 1]
      <4> HIDE DEF e
      <4> QED BY <2>1, <3>1 DEF Joins
    <3>4. e[i + 1] = f[i + 1]
        BY <3>1
    <3>5. CASE i = 0
        BY <3>1, <3>2, <3>3, <3>4, <3>5
    <3>6. CASE i # 0
      <4>1. i \in 1..n /\ h[i] = f[i]
          BY <1>0, <2>3, <3>6
      <4>2. e[i] = f[i]
          BY <4>1
      <4> QED BY <3>1, <3>2, <3>3, <3>4, <3>6, <4>1, <4>2
    <3> QED BY <3>5, <3>6
  <2>4. 0..n \subseteq T
    <3> HIDE DEF T, n
    <3>1. 0 \in T
        BY DEF T
    <3> QED BY <1>0, <2>3, <3>1, CountUp
  <2>5. h[n] = f[n]
    <3> HIDE DEF h
    <3> QED BY <1>0, <1>2, <2>4
  <2>6. FlattenSeq(q) = h[n]
      BY <1>2, FlattenIs, Zenon
  <2> QED BY <2>5, <2>6
<1> QED BY <1>1, <1>2

(* What putting together gives.                                            *)
LEMMA FlattenType ==
    ASSUME NEW S, NEW q \in Seq(Seq(S))
    PROVE  FlattenSeq(q) \in Seq(S)
<1>0. PICK n \in Nat : n = Len(q)
    OBVIOUS
<1>1. PICK f : Partial(f, q, n, S)
    BY <1>0, PartialExists
<1>2. f[n] \in Seq(S)
    BY <1>1 DEF Partial
<1>3. FlattenSeq(q) = f[n]
    BY <1>0, <1>1, FlattenIsPartial
<1> QED BY <1>2, <1>3

LEMMA FlattenNone == FlattenSeq(<<>>) = <<>>
BY DEF FlattenSeq

(* Two sequences of pieces that agree up to m, or but for the first.        *)
Joined(x, a, b) == x = a \o b
Agree(q, p, m) == \A i \in 1..m : q[i] = p[i]
Shifted(q, p, m, S) == q[1] \in Seq(S) /\ \A i \in 1..m : p[i] = q[i + 1] /\ p[i] \in Seq(S)

LEMMA PartialGrows ==
    ASSUME NEW S, NEW q, NEW p, NEW f, NEW g, NEW m \in Nat,
           Partial(f, q, m, S), Partial(g, p, m + 1, S), Agree(q, p, m)
    PROVE  Joined(g[m + 1], f[m], p[m + 1])
<1> DEFINE T == {i \in 0..m : f[i] = g[i]}
<1>1. 0 \in T
  <2>1. f[0] = <<>> /\ g[0] = <<>>
      BY DEF Partial
  <2> QED BY <2>1
<1>2. ASSUME NEW i \in 0..(m - 1), i \in T PROVE i + 1 \in T
  <2>1. i + 1 \in 1..m /\ i + 1 \in 1..(m + 1) /\ (i + 1) - 1 = i /\ i + 1 \in 0..m
      OBVIOUS
  <2>2. f[i + 1] = f[(i + 1) - 1] \o q[i + 1] /\ g[i + 1] = g[(i + 1) - 1] \o p[i + 1] /\ q[i + 1] = p[i + 1]
      BY <2>1 DEF Partial, Agree
  <2>3. f[i] = g[i]
      BY <1>2
  <2> QED BY <2>1, <2>2, <2>3
<1>3. 0..m \subseteq T
  <2> HIDE DEF T
  <2> QED BY <1>1, <1>2, CountUp
<1>4. m + 1 \in 1..(m + 1) /\ (m + 1) - 1 = m /\ m \in 0..m
    OBVIOUS
<1>5. g[m + 1] = g[(m + 1) - 1] \o p[m + 1]
    BY <1>4, Zenon DEF Partial
<1> QED BY <1>3, <1>4, <1>5 DEF Joined

LEMMA FlattenAppend ==
    ASSUME NEW S, NEW q \in Seq(Seq(S)), NEW c \in Seq(S)
    PROVE  Joined(FlattenSeq(Append(q, c)), FlattenSeq(q), c)
<1>1. PICK m \in Nat : m = Len(q)
    OBVIOUS
<1>2. PICK p : p = Append(q, c)
    OBVIOUS
<1>3. /\ p \in Seq(Seq(S)) /\ Len(p) = m + 1
      /\ \A i \in 1..m : p[i] = q[i]
      /\ p[m + 1] = c
    BY <1>1, <1>2
<1>4. PICK f : Partial(f, q, m, S)
    BY <1>1, PartialExists
<1>5. PICK g : Partial(g, p, m + 1, S)
    BY <1>3, PartialExists
<1>6. Agree(q, p, m)
    BY <1>3 DEF Agree
<1>7. Joined(g[m + 1], f[m], p[m + 1])
    BY <1>4, <1>5, <1>6, PartialGrows, Zenon
<1>8. FlattenSeq(p) = g[m + 1] /\ FlattenSeq(q) = f[m]
    BY <1>1, <1>3, <1>4, <1>5, FlattenIsPartial
<1> QED BY <1>2, <1>3, <1>7, <1>8 DEF Joined

LEMMA JoinsAssociate == \A S : \A a, b, c \in Seq(S) : (a \o b) \o c = a \o (b \o c)
BY ConcatAssociative

LEMMA PartialShifts ==
    ASSUME NEW S, NEW q, NEW p, NEW f, NEW g, NEW n \in Nat,
           Partial(f, q, n + 1, S), Partial(g, p, n, S), Shifted(q, p, n, S)
    PROVE  Joined(f[n + 1], q[1], g[n])
<1>1. n \in Nat
    OBVIOUS
<1>2. PICK h \in Seq(S) : h = q[1]
    BY DEF Shifted
<1> DEFINE T == {i \in 0..n : f[i + 1] = h \o g[i]}
<1>5. 0 \in T
  <2>1. 1 \in 1..(n + 1) /\ 1 - 1 = 0 /\ 0 + 1 = 1 /\ 0 \in 0..n
      BY <1>2
  <2>2. f[1] = f[1 - 1] \o q[1] /\ f[0] = <<>> /\ g[0] = <<>>
      BY <2>1, Zenon DEF Partial
  <2>3. <<>> \o q[1] = q[1] /\ h \o <<>> = h
      BY <1>2, ConcatEmptySeq, Zenon
  <2>4. f[0 + 1] = h \o g[0]
      BY <1>2, <2>1, <2>2, <2>3
  <2> QED BY <2>1, <2>4
<1>6. ASSUME NEW i \in 0..(n - 1), i \in T PROVE i + 1 \in T
  <2>1. /\ i + 1 \in 1..n /\ (i + 1) + 1 \in 1..(n + 1) /\ i \in 0..n /\ i + 1 \in 0..n
        /\ ((i + 1) + 1) - 1 = i + 1 /\ (i + 1) - 1 = i
      BY <1>2, <1>6
  <2>2. f[(i + 1) + 1] = f[((i + 1) + 1) - 1] \o q[(i + 1) + 1]
      BY <2>1, Zenon DEF Partial
  <2>3. g[i + 1] = g[(i + 1) - 1] \o p[i + 1] /\ g[i] \in Seq(S)
      BY <2>1, Zenon DEF Partial
  <2>4. p[i + 1] = q[(i + 1) + 1] /\ p[i + 1] \in Seq(S)
      BY <2>1 DEF Shifted
  <2>5. f[i + 1] = h \o g[i]
      BY <1>6
  <2>6. (h \o g[i]) \o p[i + 1] = h \o (g[i] \o p[i + 1])
    <3>1. PICK a \in Seq(S), b \in Seq(S) : a = g[i] /\ b = p[i + 1]
        BY <2>3, <2>4
    <3>2. (h \o a) \o b = h \o (a \o b)
        BY JoinsAssociate
    <3> QED BY <3>1, <3>2
  <2>7. f[(i + 1) + 1] = h \o g[i + 1]
      BY <2>1, <2>2, <2>3, <2>4, <2>5, <2>6
  <2> QED BY <2>1, <2>7
<1>7. 0..n \subseteq T
  <2> HIDE DEF T
  <2> QED BY <1>2, <1>5, <1>6, CountUp
<1>8. n \in 0..n
    BY <1>1
<1> QED BY <1>2, <1>7, <1>8 DEF Joined

LEMMA FlattenTail ==
    ASSUME NEW S, NEW q \in Seq(Seq(S)), q # <<>>
    PROVE  Joined(FlattenSeq(q), Head(q), FlattenSeq(Tail(q)))
<1>1. PICK p, n, h : p = Tail(q) /\ n = Len(Tail(q)) /\ h = Head(q)
    OBVIOUS
<1>2. /\ n \in Nat /\ Len(q) = n + 1 /\ Len(p) = n
      /\ p \in Seq(Seq(S))
      /\ \A i \in 1..n : p[i] = q[i + 1]
      /\ h = q[1] /\ h \in Seq(S)
      /\ \A i \in 1..n : p[i] \in Seq(S)
    BY <1>1
<1>3. PICK f : Partial(f, q, n + 1, S)
    BY <1>2, PartialExists
<1>4. PICK g : Partial(g, p, n, S)
    BY <1>2, PartialExists
<1>5. n \in Nat /\ Shifted(q, p, n, S)
    BY <1>2 DEF Shifted
<1>8. Joined(f[n + 1], q[1], g[n])
    BY <1>3, <1>4, <1>5, PartialShifts, Zenon
<1>9. FlattenSeq(q) = f[n + 1] /\ FlattenSeq(p) = g[n]
    BY <1>2, <1>3, <1>4, FlattenIsPartial
<1> QED BY <1>1, <1>2, <1>8, <1>9 DEF Joined

(* Joins of more than two.                                                 *)
Associates(a, b, c) == (a \o b) \o c = a \o (b \o c)

LEMMA SeqsAssociate == \A S : \A a, b, c \in Seq(S) : Associates(a, b, c)
BY ConcatAssociative DEF Associates

(* Growing: a set that holds <<>> and with a sequence the longer ones.     *)
LEMMA SeqGrows ==
    ASSUME NEW S, NEW T, <<>> \in T, \A d \in Seq(S), e \in S : d \in T => Append(d, e) \in T
    PROVE  Seq(S) \subseteq T
<1> SUFFICES ASSUME NEW b \in Seq(S) PROVE b \in T
    OBVIOUS
<1>0. PICK n \in Nat : n = Len(b)
    BY LenProperties
<1> DEFINE U == {k \in 0..n : \A x \in Seq(S) : Len(x) = k => x \in T}
<1>1. 0 \in U
  <2>1. ASSUME NEW x \in Seq(S), Len(x) = 0 PROVE x \in T
    <3>1. x = <<>>
        BY <2>1, EmptySeq
    <3> QED BY <3>1
  <2> QED BY <2>1
<1>2. ASSUME NEW k \in 0..(n - 1), k \in U PROVE k + 1 \in U
  <2>0. k + 1 \in 0..n /\ k \in Nat
      OBVIOUS
  <2>1. ASSUME NEW x \in Seq(S), Len(x) = k + 1 PROVE x \in T
    <3>1. x # <<>>
        BY <2>0, <2>1, EmptySeq
    <3>2. PICK d \in Seq(S), e \in S : x = Append(d, e)
        BY <3>1, SequenceEmptyOrAppend
    <3>3. Len(d) \in Nat /\ Len(x) = Len(d) + 1
        BY <3>2, AppendProperties, LenProperties
    <3>4. Len(d) = k
        BY <2>0, <2>1, <3>3
    <3> QED BY <1>2, <3>2, <3>4
  <2> QED BY <2>0, <2>1
<1>3. 0..n \subseteq U
  <2> HIDE DEF U
  <2> QED BY <1>1, <1>2, CountUp
<1> QED BY <1>0, <1>3

LEMMA FlattenConcat ==
    ASSUME NEW S, NEW a \in Seq(Seq(S)), NEW b \in Seq(Seq(S))
    PROVE  FlattenSeq(a \o b) = FlattenSeq(a) \o FlattenSeq(b)
<1> DEFINE Holds(x) == FlattenSeq(a \o x) = FlattenSeq(a) \o FlattenSeq(x)
           T == {x \in Seq(Seq(S)) : Holds(x)}
<1>1. <<>> \in T
  <2>1. <<>> \in Seq(Seq(S)) /\ FlattenSeq(<<>>) = <<>> /\ a \o <<>> = a
      BY EmptySeq, FlattenNone, ConcatEmptySeq, Zenon
  <2>2. FlattenSeq(a) \in Seq(S)
      BY FlattenType
  <2> QED BY <2>1, <2>2, ConcatEmptySeq, Zenon
<1>2. ASSUME NEW c \in Seq(Seq(S)), NEW e \in Seq(S), c \in T PROVE Append(c, e) \in T
  <2>1. Holds(c) /\ a \o c \in Seq(Seq(S)) /\ Append(c, e) \in Seq(Seq(S))
      BY <1>2, ConcatProperties, AppendProperties
  <2>2. a \o Append(c, e) = Append(a \o c, e)
    <3>1. <<e>> \in Seq(Seq(S))
        OBVIOUS
    <3>2. Append(c, e) = c \o <<e>> /\ Append(a \o c, e) = (a \o c) \o <<e>>
        BY <2>1, AppendIsConcat, Zenon
    <3>3. Associates(a, c, <<e>>)
        BY <3>1, SeqsAssociate
    <3> QED BY <3>2, <3>3, Zenon DEF Associates
  <2>3. Joined(FlattenSeq(Append(a \o c, e)), FlattenSeq(a \o c), e) /\ Joined(FlattenSeq(Append(c, e)), FlattenSeq(c), e)
      BY <2>1, FlattenAppend
  <2>4. (FlattenSeq(a) \o FlattenSeq(c)) \o e = FlattenSeq(a) \o (FlattenSeq(c) \o e)
    <3>1. PICK fa \in Seq(S), fc \in Seq(S) : fa = FlattenSeq(a) /\ fc = FlattenSeq(c)
        BY FlattenType
    <3>2. Associates(fa, fc, e)
        BY SeqsAssociate
    <3> QED BY <3>1, <3>2, Zenon DEF Associates
  <2> QED BY <2>1, <2>2, <2>3, <2>4, Zenon DEF Joined
<1>3. Seq(Seq(S)) \subseteq T
  <2> HIDE DEF T
  <2> QED BY <1>1, <1>2, SeqGrows
<1> QED BY <1>3

LEMMA FlattenEmpties ==
    ASSUME NEW S, NEW q \in Seq(Seq(S)), \A i \in 1..Len(q) : q[i] = <<>>
    PROVE  FlattenSeq(q) = <<>>
<1>0. PICK n \in Nat : n = Len(q)
    BY LenProperties
<1>1. PICK f : Partial(f, q, n, S)
    BY <1>0, PartialExists
<1> DEFINE T == {k \in 0..n : f[k] = <<>>}
<1>2. 0 \in T
  <2>1. f[0] = <<>>
      BY <1>1 DEF Partial
  <2> QED BY <2>1
<1>3. ASSUME NEW k \in 0..(n - 1), k \in T PROVE k + 1 \in T
  <2>1. k + 1 \in 1..n /\ k + 1 \in 0..n /\ (k + 1) - 1 = k
      OBVIOUS
  <2>2. f[k + 1] = f[(k + 1) - 1] \o q[k + 1]
      BY <1>1, <2>1 DEF Partial
  <2>3. q[k + 1] = <<>> /\ f[k] = <<>>
      BY <1>0, <1>3, <2>1
  <2>4. f[k + 1] = <<>> \o <<>>
      BY <2>1, <2>2, <2>3, Zenon
  <2>5. <<>> \in Seq(S)
      BY EmptySeq
  <2> QED BY <2>1, <2>4, <2>5, ConcatEmptySeq
<1>4. 0..n \subseteq T
  <2> HIDE DEF T
  <2> QED BY <1>2, <1>3, CountUp
<1>5. f[n] = <<>>
    BY <1>4
<1> QED BY <1>0, <1>1, <1>5, FlattenIsPartial

(* Singles put together.                                                   *)
Singles(q) == [i \in 1..Len(q) |-> <<q[i]>>]

LEMMA SinglesAre ==
    ASSUME NEW S, NEW q \in Seq(S)
    PROVE  Singles(q) \in Seq(Seq(S)) /\ Len(Singles(q)) = Len(q)
<1>1. Len(q) \in Nat /\ \A i \in 1..Len(q) : q[i] \in S
    BY LenProperties, ElementOfSeq
<1>2. \A i \in 1..Len(q) : <<q[i]>> \in Seq(S)
    BY <1>1
<1>3. Singles(q) \in [1..Len(q) -> Seq(S)]
    BY <1>2 DEF Singles
<1> QED BY <1>1, <1>3

LEMMA FlattenSingles ==
    ASSUME NEW S, NEW q \in Seq(S)
    PROVE  FlattenSeq(Singles(q)) = q
<1> DEFINE T == {p \in Seq(S) : FlattenSeq(Singles(p)) = p}
<1>1. <<>> \in T
  <2>1. <<>> \in Seq(S) /\ Len(<<>>) = 0
      BY EmptySeq
  <2>2. Singles(<<>>) \in Seq(Seq(S)) /\ Len(Singles(<<>>)) = 0
      BY <2>1, SinglesAre
  <2>3. Singles(<<>>) = <<>>
      BY <2>2, EmptySeq
  <2> QED BY <2>1, <2>3, FlattenNone
<1>2. ASSUME NEW c \in Seq(S), NEW e \in S, c \in T PROVE Append(c, e) \in T
  <2>1. PICK k \in Nat, p \in Seq(S) : k = Len(c) /\ p = Append(c, e)
    <3>1. Append(c, e) \in Seq(S) /\ Len(c) \in Nat
        BY AppendProperties, LenProperties
    <3> QED BY <3>1
  <2>2. Len(p) = k + 1 /\ p[k + 1] = e /\ \A i \in 1..k : p[i] = c[i]
      BY <2>1, AppendProperties
  <2>3. Singles(c) \in Seq(Seq(S)) /\ Singles(p) \in Seq(Seq(S)) /\ Len(Singles(c)) = k /\ Len(Singles(p)) = k + 1
      BY <2>1, <2>2, SinglesAre
  <2>4. PICK sc \in Seq(Seq(S)), sp \in Seq(Seq(S)), se \in Seq(S) : sc = Singles(c) /\ sp = Singles(p) /\ se = <<e>>
    <3>1. <<e>> \in Seq(S)
        OBVIOUS
    <3> QED BY <2>3, <3>1, Zenon
  <2>5. sp = Append(sc, se)
    <3>1. \A i \in 1..(k + 1) : sp[i] = IF i = k + 1 THEN se ELSE sc[i]
      <4>1. \A i \in 1..(k + 1) : sp[i] = <<p[i]>>
          BY <2>2, <2>4 DEF Singles
      <4>2. \A i \in 1..k : sc[i] = <<c[i]>>
          BY <2>1, <2>4 DEF Singles
      <4>3. \A i \in 1..(k + 1) : i = k + 1 \/ i \in 1..k
          OBVIOUS
      <4> QED BY <2>2, <2>4, <4>1, <4>2, <4>3
    <3>2. Len(sp) = k + 1 /\ Len(sc) = k
        BY <2>3, <2>4
    <3>3. PICK w : w = Append(sc, se)
        OBVIOUS
    <3>4. w \in Seq(Seq(S)) /\ Len(w) = k + 1 /\ w[k + 1] = se /\ \A i \in 1..k : w[i] = sc[i]
        BY <3>2, <3>3, AppendProperties
    <3>5. \A i \in 1..(k + 1) : sp[i] = w[i]
      <4>1. \A i \in 1..(k + 1) : i = k + 1 \/ i \in 1..k
          OBVIOUS
      <4>2. \A i \in 1..k : i # k + 1
          OBVIOUS
      <4> QED BY <3>1, <3>4, <4>1, <4>2
    <3> QED BY <3>2, <3>3, <3>4, <3>5, SeqEqual
  <2>6. Joined(FlattenSeq(Append(sc, se)), FlattenSeq(sc), se)
      BY FlattenAppend
  <2>7. FlattenSeq(sc) = c
      BY <1>2, <2>4
  <2>8. FlattenSeq(sp) = c \o <<e>>
      BY <2>4, <2>5, <2>6, <2>7 DEF Joined
  <2>9. Append(c, e) = c \o <<e>>
      BY AppendIsConcat, Zenon
  <2> QED BY <2>1, <2>4, <2>8, <2>9
<1>3. Seq(S) \subseteq T
  <2> HIDE DEF T
  <2> QED BY <1>1, <1>2, SeqGrows
<1> QED BY <1>3

-----------------------------------------------------------------------------
(* The call stack.                                                         *)

Byte == Nat
Bytes == Seq(Byte)

(* The calls under way: only the innermost push carries bytes.             *)
IsSeq(s) == \E S : s \in Seq(S)
GoodCall(c, kind) ==
    /\ c.do = "push" => c.at \in Halves /\ c.chunk \in Bytes
    /\ c.do = "drain" => c.at \in Halves
    /\ c.do = "take" => kind = "reader"
IdleCall(c) == c.do = "push" => c.chunk = Null
Sound(s, kind) ==
    /\ IsSeq(s)
    /\ \A i \in 1..Len(s) : GoodCall(s[i], kind) /\ (i # Len(s) => IdleCall(s[i]))
Idle(s, kind) ==
    /\ IsSeq(s)
    /\ \A i \in 1..Len(s) : GoodCall(s[i], kind) /\ IdleCall(s[i])

LEMMA AppendOf ==
    ASSUME NEW s, IsSeq(s), NEW c
    PROVE  /\ IsSeq(Append(s, c))
           /\ Len(s) \in Nat /\ Len(Append(s, c)) = Len(s) + 1
           /\ \A i \in 1..Len(s) : Append(s, c)[i] = s[i]
           /\ Append(s, c)[Len(s) + 1] = c
           /\ Append(s, c) # <<>>
<1>1. PICK S : s \in Seq(S)
    BY DEF IsSeq
<1>2. s \in Seq(S \cup {c})
    BY <1>1, SeqMonotonic
<1>3. Append(s, c) \in Seq(S \cup {c})
    BY <1>2
<1>4. IsSeq(Append(s, c))
    BY <1>3 DEF IsSeq
<1>5. Append(s, c) # <<>>
  <2>1. SUFFICES ASSUME Append(s, c) = <<>> PROVE FALSE
      OBVIOUS
  <2>2. Len(Append(s, c)) = Len(s) + 1 /\ Len(s) \in Nat
      BY <1>2
  <2>3. Len(Append(s, c)) = 0
      BY <2>1, EmptySeq
  <2> QED BY <2>2, <2>3
<1> QED BY <1>2, <1>4, <1>5

LEMMA FrontOf ==
    ASSUME NEW s, IsSeq(s), s # <<>>
    PROVE  /\ IsSeq(Front(s))
           /\ Len(s) \in Nat /\ Len(s) > 0 /\ Len(Front(s)) = Len(s) - 1
           /\ \A i \in 1..(Len(s) - 1) : Front(s)[i] = s[i]
<1>1. PICK S : s \in Seq(S)
    BY DEF IsSeq
<1> DEFINE n == Len(s) - 1
           t == SubSeq(s, 1, n)
<1>2. n \in Nat /\ Len(s) = n + 1 /\ Len(s) \in Nat /\ \A i \in 1..(n + 1) : s[i] \in S
    BY <1>1
<1>3. Front(s) = t
    BY DEF Front
<1> HIDE DEF n
<1>4. t \in Seq(S) /\ Len(t) = n /\ \A i \in 1..n : t[i] = s[i]
    BY <1>2
<1> HIDE DEF t
<1> QED BY <1>2, <1>3, <1>4 DEF n, IsSeq

LEMMA JoinOf ==
    ASSUME NEW s, IsSeq(s), NEW t, IsSeq(t)
    PROVE  /\ IsSeq(s \o t)
           /\ Len(s) \in Nat /\ Len(t) \in Nat /\ Len(s \o t) = Len(s) + Len(t)
           /\ \A i \in 1..Len(s) : (s \o t)[i] = s[i]
           /\ \A i \in 1..Len(t) : (s \o t)[Len(s) + i] = t[i]
<1>1. PICK S : s \in Seq(S)
    BY DEF IsSeq
<1>2. PICK T : t \in Seq(T)
    BY DEF IsSeq
<1>3. s \in Seq(S \cup T) /\ t \in Seq(S \cup T)
    BY <1>1, <1>2, SeqMonotonic
<1>4. s \o t \in Seq(S \cup T)
    BY <1>3
<1>5. IsSeq(s \o t)
    BY <1>4 DEF IsSeq
<1> QED BY <1>3, <1>5

LEMMA NoneOf == IsSeq(<<>>) /\ Len(<<>>) = 0
<1>1. <<>> \in Seq({})
    BY EmptySeq
<1> QED BY <1>1 DEF IsSeq

LEMMA IdleNone == ASSUME NEW kind PROVE Idle(<<>>, kind)
BY NoneOf DEF Idle

LEMMA IdleIsSound == ASSUME NEW s, NEW kind, Idle(s, kind) PROVE Sound(s, kind)
BY DEF Idle, Sound

LEMMA SoundFront ==
    ASSUME NEW s, NEW kind, Sound(s, kind), s # <<>>
    PROVE  Idle(Front(s), kind)
<1>1. IsSeq(s)
    BY DEF Sound
<1>2. ASSUME NEW i \in 1..Len(Front(s)) PROVE GoodCall(Front(s)[i], kind) /\ IdleCall(Front(s)[i])
  <2>1. i \in 1..Len(s) /\ i # Len(s) /\ Front(s)[i] = s[i]
      BY <1>1, FrontOf
  <2> QED BY <2>1 DEF Sound
<1> QED BY <1>1, <1>2, FrontOf DEF Idle

LEMMA SoundIdle ==
    ASSUME NEW s, NEW kind, Sound(s, kind), s = <<>> \/ s[Len(s)].do # "push"
    PROVE  Idle(s, kind)
<1>1. CASE s = <<>>
    BY <1>1, IdleNone
<1>2. CASE s[Len(s)].do # "push"
    BY <1>2 DEF Sound, Idle, IdleCall
<1> QED BY <1>1, <1>2

LEMMA SoundTop ==
    ASSUME NEW s, NEW kind, Sound(s, kind), s # <<>>
    PROVE  GoodCall(s[Len(s)], kind)
<1>1. Len(s) \in 1..Len(s)
    BY FrontOf DEF Sound
<1> QED BY <1>1 DEF Sound

LEMMA IdlePush ==
    ASSUME NEW s, NEW kind, Idle(s, kind), NEW c, GoodCall(c, kind)
    PROVE  /\ Sound(Append(s, c), kind)
           /\ IdleCall(c) => Idle(Append(s, c), kind)
<1>1. IsSeq(s)
    BY DEF Idle
<1>2. ASSUME NEW i \in 1..Len(Append(s, c))
      PROVE  GoodCall(Append(s, c)[i], kind) /\ (i # Len(Append(s, c)) \/ IdleCall(c) => IdleCall(Append(s, c)[i]))
  <2>1. i \in 1..Len(s) \/ i = Len(s) + 1
      BY <1>1, AppendOf
  <2>2. CASE i \in 1..Len(s)
    <3>1. Append(s, c)[i] = s[i]
        BY <1>1, <2>2, AppendOf
    <3> QED BY <2>2, <3>1 DEF Idle
  <2>3. CASE i = Len(s) + 1
    <3>1. Append(s, c)[i] = c /\ i = Len(Append(s, c))
        BY <1>1, <2>3, AppendOf
    <3> QED BY <3>1
  <2> QED BY <2>1, <2>2, <2>3
<1>3. IsSeq(Append(s, c))
    BY <1>1, AppendOf
<1> QED BY <1>2, <1>3 DEF Sound, Idle

LEMMA IdleJoin ==
    ASSUME NEW s, NEW t, NEW kind, Idle(s, kind), Idle(t, kind)
    PROVE  Idle(s \o t, kind)
<1>1. IsSeq(s) /\ IsSeq(t)
    BY DEF Idle
<1>2. ASSUME NEW i \in 1..Len(s \o t) PROVE GoodCall((s \o t)[i], kind) /\ IdleCall((s \o t)[i])
  <2>1. i \in 1..Len(s) \/ \E j \in 1..Len(t) : i = Len(s) + j
    <3>1. Len(s) \in Nat /\ Len(t) \in Nat /\ Len(s \o t) = Len(s) + Len(t)
        BY <1>1, JoinOf
    <3>2. PICK m \in Nat, n \in Nat : m = Len(s) /\ n = Len(t)
        BY <3>1
    <3>3. i \in 1..(m + n)
        BY <3>1, <3>2
    <3>4. i \in 1..m \/ (i - m \in 1..n /\ i = m + (i - m))
        BY <3>3
    <3> QED BY <3>2, <3>4
  <2>2. CASE i \in 1..Len(s)
    <3>1. (s \o t)[i] = s[i]
        BY <1>1, <2>2, JoinOf
    <3> QED BY <2>2, <3>1 DEF Idle
  <2>3. CASE \E j \in 1..Len(t) : i = Len(s) + j
    <3>1. PICK j \in 1..Len(t) : i = Len(s) + j
        BY <2>3
    <3>2. (s \o t)[i] = t[j]
        BY <1>1, <3>1, JoinOf
    <3> QED BY <3>2 DEF Idle
  <2> QED BY <2>1, <2>2, <2>3
<1>3. IsSeq(s \o t)
    BY <1>1, JoinOf
<1> QED BY <1>2, <1>3 DEF Idle

(* The pushes to a transform that are under way.                           *)
MidPush(c) == c.do = "push" /\ c.at = "mid"
HasPush(s) == \E i \in 1..Len(s) : MidPush(s[i])
HasEnd(s) == \E i \in 1..Len(s) : MidPush(s[i]) /\ s[i].chunk = Null
Carried(s) == IF s # <<>> /\ MidPush(s[Len(s)]) THEN s[Len(s)].chunk ELSE <<>>

LEMMA PushNone == ~HasPush(<<>>) /\ ~HasEnd(<<>>) /\ Carried(<<>>) = <<>>
BY NoneOf DEF HasPush, HasEnd, Carried

LEMMA PushFront ==
    ASSUME NEW s, IsSeq(s), s # <<>>
    PROVE  /\ HasPush(s) <=> HasPush(Front(s)) \/ MidPush(s[Len(s)])
           /\ HasEnd(s) <=> HasEnd(Front(s)) \/ (MidPush(s[Len(s)]) /\ s[Len(s)].chunk = Null)
<1>1. /\ Len(s) \in Nat /\ Len(s) > 0 /\ Len(Front(s)) = Len(s) - 1
      /\ \A i \in 1..(Len(s) - 1) : Front(s)[i] = s[i]
    BY FrontOf
<1>2. PICK n \in Nat : n = Len(s) /\ n > 0
    BY <1>1
<1>3. 1..n = 1..(n - 1) \cup {n}
    BY <1>2
<1>4. /\ Len(Front(s)) = n - 1 /\ Len(s) = n
      /\ \A i \in 1..(n - 1) : Front(s)[i] = s[i]
    BY <1>1, <1>2
<1> QED BY <1>3, <1>4 DEF HasPush, HasEnd

LEMMA PushAppend ==
    ASSUME NEW s, IsSeq(s), NEW c
    PROVE  /\ HasPush(Append(s, c)) <=> HasPush(s) \/ MidPush(c)
           /\ HasEnd(Append(s, c)) <=> HasEnd(s) \/ (MidPush(c) /\ c.chunk = Null)
           /\ Carried(Append(s, c)) = IF MidPush(c) THEN c.chunk ELSE <<>>
<1>1. PICK n \in Nat : n = Len(s)
    BY AppendOf
<1>2. PICK t : t = Append(s, c)
    OBVIOUS
<1>3. /\ Len(t) = n + 1 /\ t # <<>> /\ t[n + 1] = c
      /\ \A i \in 1..n : t[i] = s[i]
    BY <1>1, <1>2, AppendOf
<1>4. 1..(n + 1) = 1..n \cup {n + 1}
    OBVIOUS
<1>5. /\ HasPush(t) <=> HasPush(s) \/ MidPush(c)
      /\ HasEnd(t) <=> HasEnd(s) \/ (MidPush(c) /\ c.chunk = Null)
    BY <1>1, <1>3, <1>4 DEF HasPush, HasEnd
<1>6. Carried(t) = IF MidPush(c) THEN c.chunk ELSE <<>>
    BY <1>3 DEF Carried
<1> QED BY <1>2, <1>5, <1>6

LEMMA PushJoin ==
    ASSUME NEW s, NEW t, NEW kind, Idle(s, kind), Idle(t, kind), ~HasPush(t)
    PROVE  /\ HasPush(s \o t) <=> HasPush(s)
           /\ HasEnd(s \o t) <=> HasEnd(s)
<1>1. IsSeq(s) /\ IsSeq(t)
    BY DEF Idle
<1>2. PICK m \in Nat, n \in Nat, u \in {s \o t} : m = Len(s) /\ n = Len(t) /\ u = s \o t
    BY <1>1, JoinOf
<1>3. /\ Len(u) = m + n
      /\ \A i \in 1..m : u[i] = s[i]
      /\ \A i \in 1..n : u[m + i] = t[i]
    BY <1>1, <1>2, JoinOf
<1>4. ASSUME NEW i \in 1..(m + n), MidPush(u[i]) PROVE i \in 1..m /\ u[i] = s[i]
  <2>1. i \in 1..m \/ (i - m \in 1..n /\ i = m + (i - m))
      OBVIOUS
  <2>2. i - m \in 1..n /\ i = m + (i - m) => u[i] = t[i - m]
      BY <1>3
  <2> QED BY <1>2, <1>3, <1>4, <2>1, <2>2 DEF HasPush
<1>5. \A i \in 1..m : i \in 1..(m + n)
    OBVIOUS
<1>6. /\ HasPush(u) <=> HasPush(s)
      /\ HasEnd(u) <=> HasEnd(s)
    BY <1>2, <1>3, <1>4, <1>5 DEF HasPush, HasEnd
<1> QED BY <1>2, <1>6

LEMMA IdleCarries == ASSUME NEW s, NEW kind, Idle(s, kind) PROVE Carried(s) = <<>>
<1>1. CASE s = <<>>
    BY <1>1 DEF Carried
<1>2. CASE s # <<>>
  <2>1. Len(s) \in 1..Len(s)
      BY <1>2, FrontOf DEF Idle
  <2>2. IdleCall(s[Len(s)])
      BY <2>1 DEF Idle
  <2> QED BY <2>2 DEF Carried, MidPush, IdleCall, Null
<1> QED BY <1>1, <1>2

-----------------------------------------------------------------------------
(* The jobs that wait; an end is told once.                                *)
AJob == [do : {"drain", "end"}, at : Halves] \cup [do : {"error", "finish"}, at : {"src", "mid", "dst"}]
Waits(js, j) == \E i \in 1..Len(js) : js[i] = j
Once(js) == \A i, k \in 1..Len(js) : js[i] = js[k] /\ js[i].do = "end" => i = k

LEMMA JobIs ==
    /\ \A do \in {"drain", "end"}, x \in Halves :
           Job(do, x) \in AJob /\ Job(do, x).do = do /\ Job(do, x).at = x
    /\ \A do \in {"error", "finish"}, x \in {"src", "mid", "dst"} :
           Job(do, x) \in AJob /\ Job(do, x).do = do /\ Job(do, x).at = x
BY DEF Job, AJob

LEMMA JobsNone == <<>> \in Seq(AJob) /\ (\A j : ~Waits(<<>>, j)) /\ Once(<<>>)
<1>1. <<>> \in Seq(AJob) /\ Len(<<>>) = 0
    BY EmptySeq
<1> QED BY <1>1 DEF Waits, Once

LEMMA JobsTail ==
    ASSUME NEW js \in Seq(AJob), js # <<>>
    PROVE  /\ Tail(js) \in Seq(AJob) /\ Head(js) \in AJob
           /\ \A j : Waits(js, j) <=> Head(js) = j \/ Waits(Tail(js), j)
           /\ Once(js) => Once(Tail(js)) /\ (Head(js).do = "end" => ~Waits(Tail(js), Head(js)))
<1>1. PICK t, h : t = Tail(js) /\ h = Head(js)
    OBVIOUS
<1>2. t \in Seq(AJob) /\ h \in AJob
    BY <1>1
<1>3. PICK n \in Nat : n = Len(t)
    BY <1>2
<1>4. Len(js) = n + 1 /\ js[1] = h /\ \A i \in 1..n : t[i] = js[i + 1]
    BY <1>1, <1>3
<1>5. \A i \in 1..(n + 1) : i = 1 \/ (i - 1 \in 1..n /\ i = (i - 1) + 1)
    OBVIOUS
<1>6. 1 \in 1..(n + 1) /\ \A i \in 1..n : i + 1 \in 1..(n + 1) /\ i + 1 # 1
    OBVIOUS
<1>7. ASSUME NEW j PROVE Waits(js, j) <=> h = j \/ Waits(t, j)
  <2>1. ASSUME Waits(js, j) PROVE h = j \/ Waits(t, j)
    <3>1. PICK i \in 1..(n + 1) : js[i] = j
        BY <1>4, <2>1 DEF Waits
    <3>2. i # 1 => t[i - 1] = j /\ i - 1 \in 1..n
        BY <1>4, <1>5, <3>1
    <3> QED BY <1>3, <1>4, <3>1, <3>2 DEF Waits
  <2>2. ASSUME h = j \/ Waits(t, j) PROVE Waits(js, j)
      BY <1>3, <1>4, <1>6, <2>2 DEF Waits
  <2> QED BY <2>1, <2>2
<1>8. ASSUME Once(js) PROVE Once(t) /\ (h.do = "end" => ~Waits(t, h))
  <2>1. ASSUME NEW i \in 1..n, NEW k \in 1..n, t[i] = t[k], t[i].do = "end" PROVE i = k
    <3>1. js[i + 1] = js[k + 1] /\ js[i + 1].do = "end" /\ i + 1 \in 1..(n + 1) /\ k + 1 \in 1..(n + 1)
        BY <1>4, <2>1
    <3>2. i + 1 = k + 1
        BY <1>4, <1>8, <3>1 DEF Once
    <3> QED BY <3>2
  <2>2. ASSUME h.do = "end", Waits(t, h) PROVE FALSE
    <3>1. PICK i \in 1..n : t[i] = h
        BY <1>3, <2>2 DEF Waits
    <3>2. js[i + 1] = js[1] /\ js[i + 1].do = "end" /\ i + 1 \in 1..(n + 1) /\ 1 \in 1..(n + 1)
        BY <1>4, <2>2, <3>1
    <3>3. i + 1 = 1
        BY <1>4, <1>8, <3>2 DEF Once
    <3> QED BY <3>3
  <2> QED BY <1>3, <2>1, <2>2 DEF Once
<1> QED BY <1>1, <1>2, <1>7, <1>8

LEMMA JobsAppend ==
    ASSUME NEW js \in Seq(AJob), NEW c \in AJob
    PROVE  /\ Append(js, c) \in Seq(AJob)
           /\ \A j : Waits(Append(js, c), j) <=> Waits(js, j) \/ j = c
           /\ Once(js) /\ (c.do = "end" => ~Waits(js, c)) => Once(Append(js, c))
<1>1. PICK n \in Nat : n = Len(js)
    OBVIOUS
<1>2. PICK t : t = Append(js, c)
    OBVIOUS
<1>3. t \in Seq(AJob) /\ Len(t) = n + 1 /\ t[n + 1] = c /\ \A i \in 1..n : t[i] = js[i]
    BY <1>1, <1>2
<1>4. 1..(n + 1) = 1..n \cup {n + 1}
    OBVIOUS
<1>5. \A j : Waits(t, j) <=> Waits(js, j) \/ j = c
    BY <1>1, <1>3, <1>4 DEF Waits
<1>6. ASSUME Once(js), c.do = "end" => ~Waits(js, c) PROVE Once(t)
    BY <1>1, <1>3, <1>4, <1>6 DEF Once, Waits
<1> QED BY <1>2, <1>3, <1>5, <1>6

LEMMA JobsJoinNone == ASSUME NEW js \in Seq(AJob), NEW t, t = <<>> PROVE js \o t = js
BY ConcatEmptySeq

LEMMA JobsJoinOne == ASSUME NEW js \in Seq(AJob), NEW c \in AJob PROVE js \o <<c>> = Append(js, c)
BY AppendIsConcat

LEMMA JobsJoin ==
    ASSUME NEW js \in Seq(AJob), NEW a \in Seq(AJob), NEW b \in Seq(AJob)
    PROVE  js \o (a \o b) = (js \o a) \o b /\ js \o a \in Seq(AJob)
BY ConcatAssociative, ConcatProperties

(* What may be queued with a resume(): drains, which nobody counts.        *)
Drained(js, ks) ==
    /\ ks \in Seq(AJob)
    /\ \A j : j.do # "drain" => (Waits(ks, j) <=> Waits(js, j))
    /\ Once(js) => Once(ks)

LEMMA DrainOne ==
    ASSUME NEW js \in Seq(AJob), NEW x \in Halves, NEW b \in BOOLEAN
    PROVE  Drained(js, js \o IF b THEN <<Job("drain", x)>> ELSE <<>>)
<1>1. CASE b
  <2>1. PICK c \in AJob : c = Job("drain", x) /\ c.do = "drain"
      BY JobIs DEF Halves
  <2>2. js \o <<c>> = Append(js, c)
      BY JobsJoinOne
  <2>3. Drained(js, Append(js, c))
      BY <2>1, JobsAppend DEF Drained
  <2> QED BY <1>1, <2>1, <2>2, <2>3
<1>2. CASE ~b
  <2>1. js \o <<>> = js
      BY JobsJoinNone
  <2> QED BY <1>2, <2>1 DEF Drained
<1> QED BY <1>1, <1>2

LEMMA DrainTwo ==
    ASSUME NEW js \in Seq(AJob), NEW a \in BOOLEAN, NEW b \in BOOLEAN
    PROVE  Drained(js, js \o (   (IF a THEN <<Job("drain", "src")>> ELSE <<>>)
                               \o (IF b THEN <<Job("drain", "mid")>> ELSE <<>>)))
<1>1. PICK s, t : /\ s = IF a THEN <<Job("drain", "src")>> ELSE <<>>
                  /\ t = IF b THEN <<Job("drain", "mid")>> ELSE <<>>
    OBVIOUS
<1>2. s \in Seq(AJob) /\ t \in Seq(AJob)
  <2>1. Job("drain", "src") \in AJob /\ Job("drain", "mid") \in AJob
      BY JobIs DEF Halves
  <2> QED BY <1>1, <2>1
<1>3. PICK ks : ks = js \o s
    OBVIOUS
<1>4. Drained(js, ks)
    BY <1>1, <1>3, DrainOne DEF Halves
<1>5. Drained(ks, ks \o t)
  <2>1. ks \in Seq(AJob)
      BY <1>4 DEF Drained
  <2> QED BY <1>1, <2>1, DrainOne DEF Halves
<1>6. js \o (s \o t) = ks \o t
    BY <1>2, <1>3, JobsJoin
<1>7. Drained(js, ks \o t)
    BY <1>4, <1>5 DEF Drained
<1> QED BY <1>1, <1>6, <1>7

-----------------------------------------------------------------------------
(* What the variables hold.                                                *)

Chunks == Bytes \ {Null}
Half == [buf : Seq(Chunks), flowing : BOOLEAN, ended : BOOLEAN, endEmitted : BOOLEAN, busy : BOOLEAN]
Heard == Seq(Bytes \cup {Failed})
Tellings == Seq({"finish", "error"})
Words == {"connected", "pause", "failed", "late", "unpipe", "end", "destroy", "close", "ahead"}
Places == {"src", "mid", "dst"}
Log == [made : [Halves -> Bytes], wrote : [mid : Bytes, dst : Bytes], heard : Heard, told : Tellings,
        settled : Seq(Bytes), meddled : SUBSET Words, destroyed : SUBSET Places, times : Nat]

Typed ==
    /\ chain \in Chains
    /\ r \in [Halves -> Half]
    /\ held \in [mid : Seq(Chunks), dst : Seq(Chunks)]
    /\ sink \in {"open", "ending", "ended", "finished"}
    /\ listening \in SUBSET Parts
    /\ watching \in SUBSET {"end", "finish", "error"}
    /\ jobs \in Seq(AJob)
    /\ log \in Log
    /\ rest \in Bytes
    /\ Sound(stack, chain.sink)

LEMMA OutletIs == Outlet \in Halves /\ "src" \in Parts /\ Parts \subseteq Halves /\ (Outlet = "src" \/ Outlet = "mid")
BY DEF Outlet, Parts, Halves

LEMMA ChainIs ==
    ASSUME chain \in Chains
    PROVE  /\ chain.source \in {"push", "pull", "body"} /\ chain.middle \in {"none", "map", "later", "collect"}
           /\ chain.sink \in {"writable", "final", "response", "listener", "reader", "iterator", "lines"}
           /\ chain.most \in Nat /\ chain.wide \in Nat
BY ChainAssumption

LEMMA HalfIs ==
    ASSUME NEW q \in Half
    PROVE  /\ MaybeEnded(q) \in Half /\ Resumed(q) \in Half
           /\ [q EXCEPT !.ended = TRUE] \in Half
           /\ \A b \in Seq(Chunks) : [q EXCEPT !.buf = b] \in Half
           /\ \A b \in BOOLEAN : [q EXCEPT !.busy = b] \in Half
           /\ [q EXCEPT !.flowing = FALSE] \in Half
           /\ q.buf \in Seq(Chunks)
           /\ q.flowing \in BOOLEAN /\ q.ended \in BOOLEAN /\ q.endEmitted \in BOOLEAN /\ q.busy \in BOOLEAN
BY DEF Half, MaybeEnded, Resumed

LEMMA BegunIs == ASSUME NEW q \in Half, NEW x PROVE ReadBegun(x, q) \in Half
BY HalfIs DEF ReadBegun

LEMMA BytesJoin == \A a, b \in Bytes : a \o b \in Bytes
BY ConcatProperties DEF Bytes

LEMMA BytesNone == Null \in Bytes
BY EmptySeq DEF Null, Bytes

LEMMA BytesOf == Bytes \subseteq Bytes \cup {Failed} /\ Chunks \subseteq Bytes /\ Failed \notin Bytes /\ Null # Failed
<1>1. ASSUME Failed \in Bytes PROVE FALSE
  <2>1. <<-1>> \in Seq(Byte)
      BY <1>1 DEF Failed, Bytes
  <2>2. Len(<<-1>>) = 1 /\ <<-1>>[1] = -1
      OBVIOUS
  <2>3. -1 \in Byte
      BY <2>1, <2>2, ElementOfSeq
  <2> QED BY <2>3 DEF Byte
<1> QED BY <1>1, BytesNone DEF Chunks

LEMMA FlattenBytes == ASSUME NEW q \in Seq(Chunks) PROVE FlattenSeq(q) \in Bytes
<1>1. Chunks \subseteq Seq(Byte)
    BY DEF Chunks, Bytes
<1>2. q \in Seq(Seq(Byte))
    BY <1>1, SeqMonotonic
<1> QED BY <1>2, FlattenType DEF Bytes

(* A record of the log with the fields that the actions change.            *)
LEMMA LogIs ==
    ASSUME NEW lg \in Log
    PROVE  /\ lg.made \in [Halves -> Bytes] /\ lg.wrote.mid \in Bytes /\ lg.wrote.dst \in Bytes
           /\ lg.heard \in Heard /\ lg.told \in Tellings /\ lg.settled \in Seq(Bytes)
           /\ lg.meddled \in SUBSET Words /\ lg.destroyed \in SUBSET Places /\ lg.times \in Nat
           /\ \A h \in Heard : [lg EXCEPT !.heard = h] \in Log
           /\ \A t \in Tellings : [lg EXCEPT !.told = t] \in Log
           /\ \A b \in Bytes : [lg EXCEPT !.wrote.mid = b] \in Log /\ [lg EXCEPT !.wrote.dst = b] \in Log
           /\ \A m \in SUBSET Words : [lg EXCEPT !.meddled = m] \in Log
           /\ \A d \in SUBSET Places : [lg EXCEPT !.destroyed = d] \in Log
           /\ \A m \in SUBSET Words, d \in SUBSET Places : [lg EXCEPT !.meddled = m, !.destroyed = d] \in Log
           /\ \A m \in SUBSET Words, n \in Nat : [lg EXCEPT !.meddled = m, !.times = n] \in Log
           /\ \A s \in Seq(Bytes), t \in Tellings : [lg EXCEPT !.settled = s, !.told = t] \in Log
           /\ \A x \in Halves, b \in Bytes, m \in SUBSET Words : [lg EXCEPT !.made[x] = b, !.meddled = m] \in Log
<1>1. \A b \in Bytes : [lg EXCEPT !.wrote.mid = b] \in Log /\ [lg EXCEPT !.wrote.dst = b] \in Log
    BY DEF Log
<1>2. \A x \in Halves, b \in Bytes, m \in SUBSET Words : [lg EXCEPT !.made[x] = b, !.meddled = m] \in Log
    BY DEF Log
<1>3. \A s \in Seq(Bytes), t \in Tellings : [lg EXCEPT !.settled = s, !.told = t] \in Log
    BY DEF Log
<1>4. /\ \A m \in SUBSET Words, d \in SUBSET Places : [lg EXCEPT !.meddled = m, !.destroyed = d] \in Log
      /\ \A m \in SUBSET Words, n \in Nat : [lg EXCEPT !.meddled = m, !.times = n] \in Log
    BY DEF Log
<1> QED BY <1>1, <1>2, <1>3, <1>4 DEF Log

LEMMA HeardMore ==
    ASSUME NEW h \in Heard
    PROVE  Append(h, Failed) \in Heard /\ \A b \in Bytes : Append(h, b) \in Heard
BY BytesOf DEF Heard

LEMMA MeddledIs == ASSUME log \in Log, NEW how \in Words PROVE Meddled(how) \in Log
<1>1. PICK lg \in Log : lg = log
    OBVIOUS
<1>2. PICK m \in SUBSET Words, n \in Nat : m = lg.meddled \cup {how} /\ n = lg.times + 1
  <2>1. lg.meddled \in SUBSET Words /\ lg.times \in Nat
      BY LogIs
  <2>2. lg.times + 1 \in Nat
      BY <2>1
  <2>3. lg.meddled \cup {how} \in SUBSET Words
      BY <2>1
  <2> QED BY <2>2, <2>3
<1>3. [lg EXCEPT !.meddled = m, !.times = n] \in Log
    BY LogIs
<1>4. Meddled(how) = [lg EXCEPT !.meddled = m, !.times = n]
    BY <1>1, <1>2 DEF Meddled
<1> QED BY <1>3, <1>4

LEMMA ToldIs == ASSUME log \in Log, NEW event \in {"finish", "error"} PROVE Told(event) \in Tellings
<1>1. log.told \in Tellings
    BY LogIs
<1> QED BY <1>1 DEF Told, Tellings

LEMMA RestIs ==
    ASSUME watching \in SUBSET {"end", "finish", "error"}, NEW event
    PROVE  Rest(event) \in SUBSET {"end", "finish", "error"}
BY DEF Rest

LEMMA StillIs == ASSUME listening \in SUBSET Parts PROVE StillListening \in SUBSET Parts
BY DEF StillListening

LEMMA ErrorTyped ==
    ASSUME Typed, NEW x, NEW lg \in Log, lg.heard = log.heard, ErrorEmitted(x, lg), UNCHANGED chain
    PROVE  log' \in Log /\ watching' \in SUBSET {"end", "finish", "error"} /\ (listening \in SUBSET Parts)'
<1>1. /\ Told("error") \in Tellings /\ Rest("error") \in SUBSET {"end", "finish", "error"}
      /\ StillListening \in SUBSET Parts
    BY ToldIs, RestIs, StillIs DEF Typed
<1>2. Append(lg.heard, Failed) \in Heard
    BY LogIs, HeardMore
<1>3. [lg EXCEPT !.told = Told("error")] \in Log /\ [lg EXCEPT !.heard = Append(@, Failed)] \in Log
    BY <1>1, <1>2, LogIs
<1>4. Parts' = Parts
    BY DEF Parts, Outlet
<1>5. listening \in SUBSET Parts /\ watching \in SUBSET {"end", "finish", "error"}
    BY DEF Typed
<1> QED BY <1>1, <1>3, <1>4, <1>5 DEF ErrorEmitted, DestEmits

-----------------------------------------------------------------------------
(* The lines of a chunk.                                                   *)

(* The lines of a text, one byte after the other.                          *)

LEMMA MaxIs ==
    ASSUME NEW n \in Nat, NEW T, T \subseteq 0..n, T # {}
    PROVE  Max(T) \in T /\ \A y \in T : y <= Max(T)
<1> DEFINE U == {n - i : i \in T}
<1>1. U \subseteq Nat /\ U # {}
  <2>1. \A i \in T : i \in 0..n
      OBVIOUS
  <2>2. \A i \in 0..n : n - i \in Nat
      OBVIOUS
  <2> QED BY <2>1, <2>2
<1>2. PICK u \in U : \A v \in U : u <= v
  <2> HIDE DEF U
  <2> QED BY <1>1, LeastOf
<1>3. PICK x \in T : u = n - x
    OBVIOUS
<1>4. ASSUME NEW y \in T PROVE x >= y
  <2>1. n - x <= n - y
      BY <1>2, <1>3
  <2>2. x \in 0..n /\ y \in 0..n
      OBVIOUS
  <2> QED BY <2>1, <2>2
<1>5. Max(T) \in T /\ \A y \in T : Max(T) >= y
    BY <1>4 DEF Max
<1>6. \A y \in T : y \in 0..n
    OBVIOUS
<1> QED BY <1>5, <1>6

LEMMA MaxUnique ==
    ASSUME NEW n \in Nat, NEW T, T \subseteq 0..n, NEW x \in T, \A y \in T : y <= x
    PROVE  Max(T) = x
<1>1. Max(T) \in T /\ x <= Max(T)
    BY MaxIs
<1>2. PICK m \in T : m = Max(T)
    BY <1>1
<1>3. m \in 0..n /\ x \in 0..n /\ m <= x /\ x <= m
    BY <1>1, <1>2
<1> QED BY <1>2, <1>3

LEMMA SubSeqOfAppend ==
    ASSUME NEW S, NEW a \in Seq(S), NEW x \in S, NEW p \in Nat, p >= 1, NEW q \in Nat, q <= Len(a)
    PROVE  SubSeq(Append(a, x), p, q) = SubSeq(a, p, q)
<1>1. CASE q < p
  <2>1. p \in Int /\ q \in Int
      OBVIOUS
  <2>2. SubSeq(Append(a, x), p, q) = <<>> /\ SubSeq(a, p, q) = <<>>
      BY <1>1, <2>1, SubSeqEmpty
  <2> QED BY <2>2
<1>2. CASE ~(q < p)
  <2>1. Len(a) \in Nat
      BY LenProperties
  <2>2. p \in 1..Len(a) /\ q \in 1..Len(a)
      BY <1>2, <2>1
  <2>3. <<x>> \in Seq(S)
      OBVIOUS
  <2>4. SubSeq(a \o <<x>>, p, q) = SubSeq(a, p, q)
      BY <2>2, <2>3, SubSeqOfConcat1
  <2>5. Append(a, x) = a \o <<x>>
      BY AppendIsConcat, Zenon
  <2> QED BY <2>4, <2>5
<1> QED BY <1>1, <1>2

(* What String() makes of a chunk has its newlines where the chunk has.    *)
LEMMA DecodedIs ==
    ASSUME NEW c \in Bytes
    PROVE  /\ Decoded(c) \in Bytes /\ Len(Decoded(c)) = Len(c)
           /\ \A i \in 1..Len(c) : Decoded(c)[i] \in Newlines <=> c[i] \in Newlines
<1>1. PICK n \in Nat : n = Len(c) /\ DOMAIN c = 1..n
    BY LenProperties DEF Bytes
<1>2. \A i \in 1..n : c[i] \in Nat
    BY <1>1, ElementOfSeq DEF Bytes, Byte
<1>3. \A i \in 1..n : Decoded(c)[i] = IF Broken(c, i) THEN 0 ELSE c[i]
    BY <1>1 DEF Decoded, Replaced
<1>4. Decoded(c) \in [1..n -> Nat]
    BY <1>1, <1>2 DEF Decoded, Replaced
<1>5. Decoded(c) \in Seq(Nat) /\ Len(Decoded(c)) = n
    BY <1>4
<1>6. ASSUME NEW i \in 1..n, Broken(c, i) PROVE 0 \notin Newlines /\ c[i] \notin Newlines
  <2>1. PICK b \in Leads : c[i] = b \/ c[i] - 1 = b
      BY <1>6 DEF Broken
  <2>2. b \in Nat /\ c[i] \in Nat
      BY <1>2, LineAssumption
  <2>3. c[i] \in {b, b + 1}
      BY <2>1, <2>2
  <2> QED BY <2>3, LineAssumption
<1>7. \A i \in 1..n : Decoded(c)[i] \in Newlines <=> c[i] \in Newlines
    BY <1>3, <1>6
<1> QED BY <1>1, <1>5, <1>7 DEF Bytes, Byte

LEMMA CutsOf ==
    ASSUME NEW a \in Bytes
    PROVE  /\ Len(a) \in Nat /\ DOMAIN a = 1..Len(a)
           /\ 0 \in Cuts(a) /\ Cuts(a) \subseteq 0..Len(a)
           /\ Max(Cuts(a)) \in 0..Len(a)
           /\ \A i \in 1..(Len(a) + 1) : Max({j \in Cuts(a) : j < i}) \in 0..(i - 1)
<1>1. Len(a) \in Nat /\ DOMAIN a = 1..Len(a)
    BY LenProperties DEF Bytes
<1>2. PICK n \in Nat : n = Len(a)
    BY <1>1
<1>3. 0 \in Cuts(a) /\ Cuts(a) \subseteq 0..n
    BY <1>1, <1>2 DEF Cuts
<1>4. Max(Cuts(a)) \in 0..n
    BY <1>3, MaxIs
<1>5. ASSUME NEW i \in 1..(n + 1) PROVE Max({j \in Cuts(a) : j < i}) \in 0..(i - 1)
  <2>1. PICK T : T = {j \in Cuts(a) : j < i}
      OBVIOUS
  <2>2. T \subseteq 0..n /\ 0 \in T /\ \A j \in T : j \in 0..(i - 1)
      BY <1>3, <2>1
  <2> QED BY <2>1, <2>2, MaxIs
<1> QED BY <1>1, <1>2, <1>3, <1>4, <1>5

PieceAt(bytes, i) == IF bytes[i] \in Newlines THEN <<LineAt(bytes, i)>> ELSE <<>>
Pieces(bytes) == [i \in DOMAIN bytes |-> PieceAt(bytes, i)]

LEMMA LinesOfIs == \A bytes : LinesOf(bytes) = FlattenSeq(Pieces(bytes))
BY DEF LinesOf, Pieces, PieceAt

LEMMA PieceIs ==
    ASSUME NEW a \in Bytes, NEW i \in 1..Len(a)
    PROVE  LineAt(a, i) \in Bytes /\ PieceAt(a, i) \in Seq(Bytes)
<1>1. PICK n \in Nat : n = Len(a)
    BY CutsOf
<1>2. PICK k \in 0..(i - 1) : k = Max({j \in Cuts(a) : j < i})
  <2>1. i \in 1..(Len(a) + 1)
      BY <1>1
  <2> QED BY <2>1, CutsOf
<1>3. LineAt(a, i) = SubSeq(a, k + 1, i - 1)
    BY <1>2 DEF LineAt
<1>4. k + 1 \in Int /\ i - 1 \in Int /\ \A j \in (k + 1)..(i - 1) : j \in 1..n
  <2>1. i \in 1..n
      BY <1>1
  <2>2. k \in 0..(i - 1)
      OBVIOUS
  <2> QED BY <2>1, <2>2
<1>5. \A j \in (k + 1)..(i - 1) : a[j] \in Byte
  <2>1. \A j \in 1..n : a[j] \in Byte
      BY <1>1, ElementOfSeq DEF Bytes
  <2> QED BY <1>4, <2>1
<1>6. LineAt(a, i) \in Bytes
    BY <1>3, <1>4, <1>5, SubSeqProperties DEF Bytes
<1>7. <<LineAt(a, i)>> \in Seq(Bytes) /\ <<>> \in Seq(Bytes)
    BY <1>6
<1> QED BY <1>6, <1>7 DEF PieceAt

LEMMA PiecesAre ==
    ASSUME NEW a \in Bytes
    PROVE  /\ Pieces(a) \in Seq(Seq(Bytes)) /\ Len(Pieces(a)) = Len(a)
           /\ \A i \in 1..Len(a) : Pieces(a)[i] = PieceAt(a, i)
<1>1. PICK n \in Nat : n = Len(a) /\ DOMAIN a = 1..n
    BY CutsOf
<1>2. \A i \in 1..n : PieceAt(a, i) \in Seq(Bytes)
    BY <1>1, PieceIs
<1>3. Pieces(a) \in [1..n -> Seq(Bytes)]
    BY <1>1, <1>2 DEF Pieces
<1> QED BY <1>1, <1>3 DEF Pieces

LEMMA LinesType == ASSUME NEW a \in Bytes PROVE LinesOf(a) \in Seq(Bytes)
BY PiecesAre, FlattenType, LinesOfIs

LEMMA RestType == ASSUME NEW a \in Bytes PROVE RestOf(a) \in Bytes
<1>1. PICK n \in Nat : n = Len(a)
    BY CutsOf
<1>2. PICK m \in 0..n : m = Max(Cuts(a))
    BY <1>1, CutsOf
<1>3. \A i \in (m + 1)..n : a[i] \in Byte
  <2>1. \A i \in 1..n : a[i] \in Byte
      BY <1>1, ElementOfSeq DEF Bytes
  <2> QED BY <2>1
<1>4. m + 1 \in Int /\ n \in Int
    OBVIOUS
<1>5. SubSeq(a, m + 1, n) \in Seq(Byte)
    BY <1>3, <1>4, SubSeqProperties
<1> QED BY <1>1, <1>2, <1>5 DEF RestOf, Bytes

(* Calls of lines are no pushes.                                           *)
LEMMA LineCallsIdle ==
    ASSUME NEW n \in Nat, NEW seq, DOMAIN seq = 1..n, Len(seq) = n, NEW kind
    PROVE  Idle(LineCalls(seq), kind) /\ ~HasPush(LineCalls(seq))
<1> DEFINE t == [k \in DOMAIN seq |-> Call("line", Outlet, seq[k])]
           T == {Call("line", Outlet, seq[k]) : k \in 1..n}
           u == [i \in 1..n |-> t[(n - i) + 1]]
<1>1. t \in Seq(T) /\ Len(t) = n
  <2>1. t \in [1..n -> T]
      OBVIOUS
  <2> HIDE DEF t, T
  <2> QED BY <2>1
<1>2. LineCalls(seq) = u
    BY <1>1 DEF LineCalls, Reverse
<1>3. u \in [1..n -> T]
  <2>1. ASSUME NEW i \in 1..n PROVE t[(n - i) + 1] \in T
    <3>1. (n - i) + 1 \in 1..n
        OBVIOUS
    <3> QED BY <3>1
  <2> QED BY <2>1
<1>4. \A c \in T : c.do = "line"
    BY DEF Call
<1> HIDE DEF u, T
<1>5. u \in Seq(T) /\ Len(u) = n
    BY <1>3
<1>6. IsSeq(u)
    BY <1>5 DEF IsSeq
<1>7. \A i \in 1..n : u[i].do = "line"
    BY <1>3, <1>4
<1>8. Idle(u, kind) /\ ~HasPush(u)
    BY <1>5, <1>6, <1>7 DEF Idle, HasPush, MidPush, GoodCall, IdleCall
<1> QED BY <1>2, <1>8

-----------------------------------------------------------------------------
(* Steps of the stack.                                                     *)

(* A change of the stack that no bytes for a transform have part in.       *)
Plain(s, t, kind) ==
    /\ Sound(t, kind) /\ Carried(s) = <<>> /\ Carried(t) = <<>>
    /\ HasPush(t) => HasPush(s)
    /\ HasEnd(t) => HasEnd(s)

LEMMA PlainSame == ASSUME NEW s, NEW kind, Idle(s, kind) PROVE Plain(s, s, kind)
BY IdleIsSound, IdleCarries DEF Plain

LEMMA PlainAppend ==
    ASSUME NEW s, NEW kind, Idle(s, kind), NEW c, GoodCall(c, kind), ~MidPush(c)
    PROVE  Plain(s, Append(s, c), kind) /\ (IdleCall(c) => Idle(Append(s, c), kind))
<1>1. IsSeq(s)
    BY DEF Idle
<1> QED BY <1>1, IdlePush, PushAppend, IdleCarries DEF Plain

LEMMA PlainFront ==
    ASSUME NEW s, NEW kind, Sound(s, kind), s # <<>>, s[Len(s)].do # "push"
    PROVE  Plain(s, Front(s), kind) /\ Idle(Front(s), kind)
<1>1. IsSeq(s)
    BY DEF Sound
<1>2. Idle(s, kind) /\ Idle(Front(s), kind)
    BY SoundIdle, SoundFront
<1> QED BY <1>1, <1>2, IdleIsSound, IdleCarries, PushFront DEF Plain

LEMMA PlainTwice ==
    ASSUME NEW s, NEW t, NEW u, NEW kind, Plain(s, t, kind), Plain(t, u, kind)
    PROVE  Plain(s, u, kind)
BY DEF Plain

LEMMA JoinsNone == ASSUME NEW s, IsSeq(s), NEW t, t = <<>> PROVE s \o t = s
BY ConcatEmptySeq DEF IsSeq

LEMMA JoinsOne == ASSUME NEW s, IsSeq(s), NEW c PROVE s \o <<c>> = Append(s, c)
<1>1. PICK S : s \in Seq(S)
    BY DEF IsSeq
<1>2. s \in Seq(S \cup {c}) /\ c \in S \cup {c}
    BY <1>1, SeqMonotonic
<1> QED BY <1>2, AppendIsConcat

LEMMA JoinsTwo == ASSUME NEW s, IsSeq(s), NEW c, NEW d PROVE s \o <<c, d>> = Append(Append(s, c), d)
<1>1. PICK S : s \in Seq(S)
    BY DEF IsSeq
<1>2. PICK T : T = S \cup {c, d}
    OBVIOUS
<1>3. s \in Seq(T) /\ c \in T /\ d \in T
    BY <1>1, <1>2, SeqMonotonic
<1>4. <<c>> \in Seq(T) /\ <<d>> \in Seq(T) /\ <<c, d>> = <<c>> \o <<d>>
  <2>1. <<c>> \in Seq(T) /\ <<d>> \in Seq(T) /\ <<c, d>> = Append(<<c>>, d)
      BY <1>3
  <2>2. Append(<<c>>, d) = <<c>> \o <<d>>
      BY <1>3, <2>1, AppendIsConcat
  <2> QED BY <2>1, <2>2
<1>5. s \o (<<c>> \o <<d>>) = (s \o <<c>>) \o <<d>>
    BY <1>3, <1>4, ConcatAssociative
<1>6. IsSeq(Append(s, c))
    BY AppendOf
<1> QED BY <1>4, <1>5, <1>6, JoinsOne

LEMMA OneIs == ASSUME NEW c PROVE <<c>> = Append(<<>>, c)
<1>1. <<>> \in Seq({c})
    BY EmptySeq
<1> QED BY <1>1

LEMMA TwoAre == ASSUME NEW c, NEW d PROVE <<c, d>> = Append(Append(<<>>, c), d)
<1>1. <<>> \in Seq({c, d})
    BY EmptySeq
<1> QED BY <1>1

LEMMA CallIs ==
    ASSUME NEW do, NEW x, NEW ch
    PROVE  Call(do, x, ch).do = do /\ Call(do, x, ch).at = x /\ Call(do, x, ch).chunk = ch
BY DEF Call

LEMMA PushIs ==
    ASSUME NEW x \in Halves, NEW ch \in Bytes, NEW kind
    PROVE  GoodCall(Call("push", x, ch), kind) /\ (ch = Null => IdleCall(Call("push", x, ch)))
BY CallIs DEF GoodCall, IdleCall

LEMMA OtherIs ==
    ASSUME NEW do \in {"drain", "listener", "close", "line"}, NEW x \in Halves, NEW ch, NEW kind
    PROVE  GoodCall(Call(do, x, ch), kind) /\ IdleCall(Call(do, x, ch)) /\ ~MidPush(Call(do, x, ch))
BY CallIs DEF GoodCall, IdleCall, MidPush

LEMMA TakeIs ==
    ASSUME NEW x, NEW ch
    PROVE  GoodCall(Call("take", x, ch), "reader") /\ IdleCall(Call("take", x, ch)) /\ ~MidPush(Call("take", x, ch))
BY CallIs DEF GoodCall, IdleCall, MidPush

(* _read: what it calls goes on top.                                       *)
LEMMA ReadsPlain ==
    ASSUME chain \in Chains, NEW s, NEW kind, Idle(s, kind), NEW x
    PROVE  Plain(s, s \o ReadCalls(x), kind)
<1>0. IsSeq(s)
    BY DEF Idle
<1>1. CASE x = "src" /\ chain.source = "body" /\ ~r[x].busy
  <2>1. PICK ch : ch = [i \in 1..chain.most |-> i]
      OBVIOUS
  <2>2. ch \in Bytes
    <3>1. PICK n \in Nat : n = chain.most
        BY ChainIs
    <3>2. [i \in 1..n |-> i] \in [1..n -> Byte]
        BY DEF Byte
    <3>3. [i \in 1..n |-> i] \in Seq(Byte)
        BY <3>2
    <3> QED BY <2>1, <3>1, <3>3 DEF Bytes
  <2>3. PICK c, d : c = Call("push", x, Null) /\ d = Call("push", x, ch)
      OBVIOUS
  <2>4. ReadCalls(x) = <<c, d>>
      BY <1>1, <2>1, <2>3 DEF ReadCalls
  <2>5. GoodCall(c, kind) /\ IdleCall(c) /\ GoodCall(d, kind) /\ ~MidPush(c) /\ ~MidPush(d)
      BY <1>1, <2>2, <2>3, BytesNone, PushIs, CallIs DEF MidPush, Halves
  <2>6. Plain(s, Append(s, c), kind) /\ Idle(Append(s, c), kind)
      BY <2>5, PlainAppend
  <2>7. Plain(Append(s, c), Append(Append(s, c), d), kind)
      BY <2>5, <2>6, PlainAppend
  <2>8. Plain(s, Append(Append(s, c), d), kind)
      BY <2>6, <2>7, PlainTwice
  <2>9. s \o <<c, d>> = Append(Append(s, c), d)
      BY <1>0, JoinsTwo
  <2> QED BY <2>4, <2>8, <2>9
<1>2. CASE ~(x = "src" /\ chain.source = "body" /\ ~r[x].busy)
  <2>1. ReadCalls(x) = <<>>
      BY <1>2 DEF ReadCalls
  <2> QED BY <1>0, <2>1, JoinsNone, PlainSame
<1> QED BY <1>1, <1>2

-----------------------------------------------------------------------------
(* Steps that change nothing the invariant looks at.                       *)

LEMMA RunsIdle ==
    ASSUME Typed, NEW do, do # "push", Running(do)
    PROVE  /\ Idle(stack, chain.sink) /\ stack # <<>>
           /\ Plain(stack, Front(stack), chain.sink) /\ Idle(Front(stack), chain.sink)
           /\ IsSeq(stack) /\ IsSeq(Front(stack))
<1>1. Sound(stack, chain.sink) /\ stack # <<>> /\ stack[Len(stack)].do # "push"
    BY DEF Typed, Running
<1>2. Idle(stack, chain.sink) /\ Plain(stack, Front(stack), chain.sink) /\ Idle(Front(stack), chain.sink)
    BY <1>1, SoundIdle, PlainFront
<1> QED BY <1>1, <1>2 DEF Idle

LEMMA ScriptIdle ==
    ASSUME Typed, ScriptRuns \/ stack = <<>>
    PROVE  Idle(stack, chain.sink) /\ Plain(stack, stack, chain.sink) /\ IsSeq(stack)
<1>1. CASE stack = <<>>
  <2>1. Idle(stack, chain.sink)
      BY <1>1, IdleNone
  <2> QED BY <2>1, PlainSame DEF Idle
<1>2. CASE Running("listener")
  <2>1. Idle(stack, chain.sink)
      BY <1>2, RunsIdle
  <2> QED BY <2>1, PlainSame DEF Idle
<1> QED BY <1>1, <1>2 DEF ScriptRuns

JobsCalm(js, ks) ==
    /\ \A j : j.do \in {"end", "finish"} /\ Waits(ks, j) => Waits(js, j)
    /\ Once(js) => Once(ks)
LogCalm(lg, lg2) ==
    /\ lg2.made = lg.made /\ lg2.wrote = lg.wrote /\ lg2.heard = lg.heard
    /\ lg2.told = lg.told /\ lg2.settled = lg.settled /\ lg.meddled \subseteq lg2.meddled
HalfCalm(q, p) ==
    p.buf = q.buf /\ p.ended = q.ended /\ p.endEmitted = q.endEmitted /\ (p.flowing => q.flowing)

(* A step that none of the invariants below looks at.                      *)
Calm ==
    /\ UNCHANGED <<chain, sink, listening, watching>>
    /\ \A x \in Halves : HalfCalm(r[x], r'[x])
    /\ held.mid = <<>> => held'.mid = <<>>
    /\ JobsCalm(jobs, jobs')
    /\ LogCalm(log, log')
    /\ Plain(stack, stack', chain.sink)

LEMMA JobsSame == ASSUME NEW js PROVE JobsCalm(js, js)
BY DEF JobsCalm
LEMMA LogSame == ASSUME NEW lg PROVE LogCalm(lg, lg)
BY DEF LogCalm
LEMMA HalfSame == ASSUME NEW q PROVE HalfCalm(q, q)
BY DEF HalfCalm
LEMMA JobsGone == ASSUME NEW js \in Seq(AJob), js # <<>> PROVE JobsCalm(js, Tail(js)) /\ Tail(js) \in Seq(AJob)
BY JobsTail DEF JobsCalm
LEMMA JobsMore == ASSUME NEW js \in Seq(AJob), NEW c \in AJob, c.do \in {"drain", "error"}
                  PROVE  JobsCalm(js, Append(js, c)) /\ Append(js, c) \in Seq(AJob)
BY JobsAppend DEF JobsCalm
LEMMA LogMeddled ==
    ASSUME log \in Log, NEW how \in Words
    PROVE  LogCalm(log, Meddled(how)) /\ Meddled(how) \in Log /\ Meddled(how).meddled = log.meddled \cup {how}
<1>1. LogCalm(log, Meddled(how)) /\ Meddled(how).meddled = log.meddled \cup {how}
    BY DEF Meddled, LogCalm, Log
<1> QED BY <1>1, MeddledIs

(* Steps that only move the calls, and perhaps what is kept of lines.      *)
LEMMA TypedMoves ==
    ASSUME Typed, UNCHANGED <<chain, r, held, sink, listening, watching, jobs, rest>>, log' \in Log,
           Sound(stack', chain.sink)
    PROVE  Typed'
BY DEF Typed, Parts, Outlet

LEMMA CalmMoves ==
    ASSUME Typed, UNCHANGED <<chain, r, held, sink, listening, watching, jobs, rest>>, log' \in Log,
           LogCalm(log, log'), Plain(stack, stack', chain.sink)
    PROVE  Typed' /\ Calm
<1>1. Typed'
    BY TypedMoves DEF Plain
<1>2. Calm
    BY JobsSame, HalfSame DEF Calm
<1> QED BY <1>1, <1>2

LEMMA ListenerReturnsCalm == ASSUME Typed, ListenerReturns, UNCHANGED lineVars PROVE Typed' /\ Calm
<1>1. Plain(stack, stack', chain.sink)
    BY RunsIdle DEF ListenerReturns
<1> QED BY <1>1, CalmMoves, LogSame DEF ListenerReturns, lineVars, Typed

LEMMA ClosesCalm == ASSUME Typed, Closes PROVE Typed' /\ Calm
<1>1. Plain(stack, stack', chain.sink)
    BY RunsIdle DEF Closes
<1> QED BY <1>1, CalmMoves, LogSame DEF Closes, Typed

LEMMA LineEmittedCalm == ASSUME Typed, LineEmitted PROVE Typed' /\ Calm
<1>1. /\ Plain(stack, Front(stack), chain.sink)
      /\ Idle(Front(stack), chain.sink)
    BY RunsIdle DEF LineEmitted
<1>2. Plain(Front(stack), Append(Front(stack), Call("listener", Outlet, Null)), chain.sink)
    BY <1>1, OutletIs, PlainAppend, OtherIs
<1>3. Plain(stack, stack', chain.sink)
    BY <1>1, <1>2, PlainTwice DEF LineEmitted
<1> QED BY <1>3, CalmMoves, LogSame DEF LineEmitted, Typed

LEMMA LineAnswersCalm == ASSUME Typed, LineAnswers PROVE Typed' /\ Calm
<1>1. /\ Plain(stack, Front(stack), chain.sink)
      /\ Idle(Front(stack), chain.sink)
    BY RunsIdle DEF LineAnswers, ToQuestion
<1>2. Plain(Front(stack), Append(Front(stack), Call("listener", Outlet, Null)), chain.sink)
    BY <1>1, OutletIs, PlainAppend, OtherIs
<1>3. Plain(stack, stack', chain.sink)
    BY <1>1, <1>2, PlainTwice DEF LineAnswers
<1> QED BY <1>3, CalmMoves, LogSame DEF LineAnswers, Typed

LEMMA AsksCalm == ASSUME Typed, Asks PROVE Typed' /\ Calm
<1>1. Plain(stack, stack', chain.sink)
    BY ScriptIdle DEF Asks, vars
<1> QED BY <1>1, CalmMoves, LogSame DEF Asks, vars, Typed

LEMMA IteratesCalm == ASSUME Typed, NEW kind, Iterates(kind) PROVE Typed' /\ Calm
<1>1. Plain(stack, stack', chain.sink)
    BY ScriptIdle DEF Iterates, vars
<1> QED BY <1>1, CalmMoves, LogSame DEF Iterates, vars, Typed

LEMMA NextLineCalm == ASSUME Typed, NextLine PROVE Typed' /\ Calm
<1>1. Plain(stack, stack', chain.sink)
    BY ScriptIdle DEF NextLine
<1>2. log' \in Log /\ LogCalm(log, log')
  <2>1. log \in Log
      BY DEF Typed
  <2>2. log' = log \/ log' = Meddled("ahead")
      BY DEF NextLine
  <2>3. "ahead" \in Words
      BY DEF Words
  <2>4. LogCalm(log, Meddled("ahead")) /\ Meddled("ahead") \in Log
      BY <2>1, <2>3, LogMeddled
  <2> QED BY <2>1, <2>2, <2>4, LogSame
<1> QED BY <1>1, <1>2, CalmMoves DEF NextLine

LEMMA ScriptClosesCalm == ASSUME Typed, ScriptCloses PROVE Typed' /\ Calm
<1>1. Plain(stack, stack', chain.sink)
    BY ScriptIdle DEF ScriptCloses, MayMeddle
<1>2. log' \in Log /\ LogCalm(log, log')
  <2>1. log \in Log
      BY DEF Typed
  <2>3. "close" \in Words
      BY DEF Words
  <2>4. LogCalm(log, Meddled("close")) /\ Meddled("close") \in Log
      BY <2>1, <2>3, LogMeddled
  <2> QED BY <2>4 DEF ScriptCloses
<1> QED BY <1>1, <1>2, CalmMoves DEF ScriptCloses

(* What the source makes next.                                             *)
LEMMA NewChunksAre == ASSUME Typed PROVE NewChunks \subseteq Bytes
<1>1. PICK m \in Nat : m = Made
  <2>1. log.made["src"] \in Bytes
      BY DEF Typed, Log, Halves
  <2> QED BY <2>1, LenProperties DEF Made, Bytes
<1>2. ASSUME NEW n \in 1..chain.wide PROVE [i \in 1..n |-> Made + i] \in Bytes
  <2>1. n \in Nat
      BY ChainIs DEF Typed
  <2>2. [i \in 1..n |-> m + i] \in [1..n -> Byte]
      BY <2>1 DEF Byte
  <2>3. [i \in 1..n |-> m + i] \in Seq(Byte)
      BY <2>1, <2>2
  <2> QED BY <1>1, <2>3 DEF Bytes
<1> QED BY <1>2 DEF NewChunks

LEMMA SourcePushesCalm == ASSUME Typed, SourcePushes, UNCHANGED lineVars PROVE Typed' /\ Calm
<1>1. Idle(stack, chain.sink)
    BY ScriptIdle DEF SourcePushes
<1>2. NewChunks \subseteq Bytes
    BY NewChunksAre
<1>3. PICK ch \in Bytes : stack' = Append(stack, Call("push", "src", ch))
    BY <1>2, BytesNone DEF SourcePushes
<1>4. GoodCall(Call("push", "src", ch), chain.sink) /\ ~MidPush(Call("push", "src", ch))
    BY PushIs, CallIs DEF Halves, MidPush
<1>5. Plain(stack, stack', chain.sink)
    BY <1>1, <1>3, <1>4, PlainAppend
<1> QED BY <1>5, CalmMoves, LogSame DEF SourcePushes, lineVars, Typed

LEMMA RemovedIs ==
    ASSUME NEW S, NEW s \in Seq(S), NEW i \in DOMAIN s
    PROVE  RemoveAt(s, i) \in Seq(S) /\ s # <<>> /\ s[i] \in S
<1>1. PICK n \in Nat : n = Len(s) /\ DOMAIN s = 1..n
    OBVIOUS
<1>2. i \in 1..n
    BY <1>1
<1>3. SubSeq(s, 1, i - 1) \in Seq(S)
  <2>1. \A j \in 1..(i - 1) : s[j] \in S
      BY <1>1, <1>2
  <2>2. 1 \in Int /\ i - 1 \in Int
      BY <1>2
  <2> QED BY <2>1, <2>2, SubSeqProperties
<1>4. SubSeq(s, i + 1, n) \in Seq(S)
  <2>1. \A j \in (i + 1)..n : s[j] \in S
      BY <1>1, <1>2
  <2>2. i + 1 \in Int /\ n \in Int
      BY <1>2
  <2> QED BY <2>1, <2>2, SubSeqProperties
<1>5. SubSeq(s, 1, i - 1) \o SubSeq(s, i + 1, n) \in Seq(S)
    BY <1>3, <1>4, ConcatProperties
<1>6. s # <<>>
    BY <1>1, <1>2
<1>7. s[i] \in S
    BY <1>1, <1>2
<1> QED BY <1>1, <1>5, <1>6, <1>7 DEF RemoveAt

LEMMA WriteIsDoneCalm == ASSUME Typed, WriteIsDone, UNCHANGED lineVars PROVE Typed' /\ Calm
<1>1. Plain(stack, stack', chain.sink)
    BY ScriptIdle DEF WriteIsDone
<1>2. PICK i \in DOMAIN held.dst : held' = [held EXCEPT !.dst = RemoveAt(@, i)]
    BY DEF WriteIsDone
<1>3. held \in [mid : Seq(Chunks), dst : Seq(Chunks)] /\ held.dst \in Seq(Chunks)
    BY DEF Typed
<1>4. RemoveAt(held.dst, i) \in Seq(Chunks)
    BY <1>3, RemovedIs
<1>5. held' \in [mid : Seq(Chunks), dst : Seq(Chunks)] /\ held'.mid = held.mid
    BY <1>2, <1>3, <1>4
<1>6. UNCHANGED <<chain, r, sink, listening, watching, jobs, log, rest>>
    BY DEF WriteIsDone, lineVars
<1>7. Typed'
    BY <1>1, <1>5, <1>6 DEF Typed, Plain, Parts, Outlet
<1>8. Calm
    BY <1>1, <1>5, <1>6, JobsSame, HalfSame, LogSame DEF Calm
<1> QED BY <1>7, <1>8

LEMMA DrainJobCalm == ASSUME Typed, DrainJob, UNCHANGED lineVars PROVE Typed' /\ Calm
<1>1. Plain(stack, stack', chain.sink)
  <2>0. Head(jobs) \in AJob /\ Head(jobs).do = "drain"
      BY JobsTail DEF DrainJob, JobComes, Typed
  <2>1. Head(jobs).at \in Halves
      BY <2>0 DEF AJob
  <2>2. Plain(<<>>, Append(<<>>, Call("drain", Head(jobs).at, Null)), chain.sink)
      BY <2>1, IdleNone, PlainAppend, OtherIs
  <2> QED BY <2>2, OneIs DEF DrainJob, JobComes
<1>2. JobsCalm(jobs, jobs') /\ jobs' \in Seq(AJob)
    BY JobsGone DEF DrainJob, JobComes, Typed
<1>3. UNCHANGED <<chain, r, held, sink, listening, watching, log, rest>>
    BY DEF DrainJob, lineVars
<1>4. Typed'
    BY <1>1, <1>2, <1>3 DEF Typed, Plain, Parts, Outlet
<1>5. Calm
    BY <1>1, <1>2, <1>3, JobsSame, HalfSame, LogSame DEF Calm
<1> QED BY <1>4, <1>5

LEMMA HalfChanges ==
    ASSUME r \in [Halves -> Half], NEW x \in Halves, NEW q \in Half, r' = [r EXCEPT ![x] = q]
    PROVE  /\ r' \in [Halves -> Half]
           /\ HalfCalm(r[x], q) => \A y \in Halves : HalfCalm(r[y], r'[y])
BY HalfSame

LEMMA PausesCalm == ASSUME Typed, NEW x \in Parts, Pauses(x), UNCHANGED lineVars PROVE Typed' /\ Calm
<1>1. Plain(stack, stack', chain.sink)
    BY ScriptIdle DEF Pauses, MayMeddle
<1>2. x \in Halves /\ r \in [Halves -> Half]
    BY OutletIs DEF Typed
<1>3. PICK q : q = [r[x] EXCEPT !.flowing = FALSE]
    OBVIOUS
<1>4. r' = [r EXCEPT ![x] = q]
    BY <1>2, <1>3 DEF Pauses
<1>5. q \in Half /\ HalfCalm(r[x], q)
    BY <1>2, <1>3 DEF Half, HalfCalm
<1>6. r' \in [Halves -> Half] /\ \A y \in Halves : HalfCalm(r[y], r'[y])
    BY <1>2, <1>4, <1>5, HalfChanges
<1>7. LogCalm(log, log') /\ log' \in Log
  <2>1. log \in Log
      BY DEF Typed
  <2>2. "pause" \in Words
      BY DEF Words
  <2> QED BY <2>1, <2>2, LogMeddled DEF Pauses
<1>8. UNCHANGED <<chain, held, sink, listening, watching, jobs, rest>>
    BY DEF Pauses, lineVars
<1>9. Typed'
    BY <1>1, <1>6, <1>7, <1>8 DEF Typed, Plain, Parts, Outlet
<1>10. Calm
    BY <1>1, <1>6, <1>7, <1>8, JobsSame DEF Calm
<1> QED BY <1>9, <1>10

LEMMA BegunCalm == ASSUME NEW q \in Half, NEW x PROVE ReadBegun(x, q) \in Half /\ HalfCalm(q, ReadBegun(x, q))
BY BegunIs DEF ReadBegun, HalfCalm, Half

LEMMA ReadsCalm == ASSUME Typed, Reads, UNCHANGED lineVars PROVE Typed' /\ Calm
<1>0. chain \in Chains /\ r \in [Halves -> Half] /\ Outlet \in Halves /\ stack = <<>> /\ chain.sink = "reader"
    BY OutletIs DEF Typed, Reads
<1>1. Plain(stack, stack', chain.sink)
  <2>1. PICK s : s = Append(<<>>, Call("take", Outlet, Null))
      OBVIOUS
  <2>2. Plain(stack, s, chain.sink) /\ Idle(s, chain.sink)
      BY <1>0, <2>1, IdleNone, PlainAppend, TakeIs
  <2>3. CASE r[Outlet].buf = <<>>
    <3>1. stack' = s \o ReadCalls(Outlet)
        BY <2>1, <2>3, OneIs DEF Reads
    <3>2. Plain(s, stack', chain.sink)
        BY <1>0, <2>2, <3>1, ReadsPlain
    <3> QED BY <2>2, <3>2, PlainTwice
  <2>4. CASE r[Outlet].buf # <<>>
    <3>1. stack' = s \o <<>>
        BY <2>1, <2>4, OneIs DEF Reads
    <3>2. stack' = s
        BY <2>2, <3>1, JoinsNone DEF Idle
    <3> QED BY <2>2, <3>2
  <2> QED BY <2>3, <2>4
<1>2. r' \in [Halves -> Half] /\ \A y \in Halves : HalfCalm(r[y], r'[y])
  <2>1. CASE r[Outlet].buf = <<>>
    <3>1. r' = [r EXCEPT ![Outlet] = ReadBegun(Outlet, r[Outlet])]
        BY <2>1 DEF Reads
    <3>2. ReadBegun(Outlet, r[Outlet]) \in Half /\ HalfCalm(r[Outlet], ReadBegun(Outlet, r[Outlet]))
        BY <1>0, BegunCalm
    <3> QED BY <1>0, <3>1, <3>2, HalfChanges
  <2>2. CASE r[Outlet].buf # <<>>
      BY <1>0, <2>2, HalfSame DEF Reads
  <2> QED BY <2>1, <2>2
<1>3. UNCHANGED <<chain, held, sink, listening, watching, jobs, log, rest>>
    BY DEF Reads, lineVars
<1>4. Typed'
    BY <1>1, <1>2, <1>3 DEF Typed, Plain, Parts, Outlet
<1>5. Calm
    BY <1>1, <1>2, <1>3, JobsSame, LogSame DEF Calm
<1> QED BY <1>4, <1>5

LEMMA PullSettlesCalm == ASSUME Typed, PullSettles, UNCHANGED lineVars PROVE Typed' /\ Calm
<1>0. /\ chain \in Chains /\ r \in [Halves -> Half] /\ "src" \in Halves /\ stack = <<>>
      /\ log \in Log /\ jobs \in Seq(AJob)
    BY DEF Typed, PullSettles, Halves
<1>1. r' \in [Halves -> Half] /\ \A y \in Halves : HalfCalm(r[y], r'[y])
  <2>1. PICK q : q = [r["src"] EXCEPT !.busy = FALSE]
      OBVIOUS
  <2>2. q \in Half /\ HalfCalm(r["src"], q)
      BY <1>0, <2>1 DEF Half, HalfCalm
  <2>3. r' = [r EXCEPT !["src"] = q]
      BY <1>0, <2>1 DEF PullSettles
  <2> QED BY <1>0, <2>2, <2>3, HalfChanges
<1>2. Plain(<<>>, <<>>, chain.sink) /\ \A ch \in Bytes : Plain(<<>>, <<Call("push", "src", ch)>>, chain.sink)
  <2>1. ASSUME NEW ch \in Bytes PROVE Plain(<<>>, <<Call("push", "src", ch)>>, chain.sink)
    <3>1. GoodCall(Call("push", "src", ch), chain.sink) /\ ~MidPush(Call("push", "src", ch))
        BY PushIs, CallIs DEF Halves, MidPush
    <3>2. Plain(<<>>, Append(<<>>, Call("push", "src", ch)), chain.sink)
        BY <3>1, IdleNone, PlainAppend
    <3> QED BY <3>2, OneIs
  <2> QED BY <2>1, IdleNone, PlainSame
<1>3. NewChunks \subseteq Bytes
    BY NewChunksAre
<1>4. /\ Plain(stack, stack', chain.sink)
      /\ JobsCalm(jobs, jobs') /\ jobs' \in Seq(AJob)
      /\ LogCalm(log, log') /\ log' \in Log
  <2>1. CASE (\E c \in NewChunks : stack' = <<Call("push", "src", c)>>) /\ UNCHANGED <<jobs, log>>
      BY <1>0, <1>2, <1>3, <2>1, JobsSame, LogSame
  <2>2. CASE stack' = <<Call("push", "src", Null)>> /\ UNCHANGED <<jobs, log>>
      BY <1>0, <1>2, <2>2, BytesNone, JobsSame, LogSame
  <2>3. CASE /\ jobs' = jobs \o IF "src" \in log.destroyed THEN <<>> ELSE <<Job("error", "src")>>
             /\ log' = [log EXCEPT !.meddled = @ \cup {"failed"}, !.destroyed = @ \cup {"src"}]
             /\ UNCHANGED stack
    <3>1. Plain(stack, stack', chain.sink)
        BY <1>0, <1>2, <2>3
    <3>2. JobsCalm(jobs, jobs') /\ jobs' \in Seq(AJob)
      <4>1. PICK c \in AJob : c = Job("error", "src") /\ c.do = "error"
          BY JobIs
      <4>2. jobs' = jobs \/ jobs' = Append(jobs, c)
          BY <1>0, <2>3, <4>1, JobsJoinNone, JobsJoinOne
      <4>3. JobsCalm(jobs, Append(jobs, c)) /\ Append(jobs, c) \in Seq(AJob)
          BY <1>0, <4>1, JobsMore
      <4> QED BY <1>0, <4>2, <4>3, JobsSame
    <3>3. LogCalm(log, log') /\ log' \in Log
        BY <1>0, <2>3 DEF Log, LogCalm, Words, Places
    <3> QED BY <3>1, <3>2, <3>3
  <2> QED BY <2>1, <2>2, <2>3 DEF PullSettles
<1>5. UNCHANGED <<chain, held, sink, listening, watching, rest>>
    BY DEF PullSettles, lineVars
<1>6. Typed'
    BY <1>1, <1>4, <1>5 DEF Typed, Plain, Parts, Outlet
<1>7. Calm
    BY <1>1, <1>4, <1>5 DEF Calm
<1> QED BY <1>6, <1>7

-----------------------------------------------------------------------------
(* The invariant.                                                          *)

Quiet == log.meddled \subseteq {"connected", "pause", "failed"}

(* Data flows only to somebody, until the script takes a pipe off.         *)
FlowsAreHeard ==
    /\ Outlet = "mid" /\ r["src"].flowing /\ "unpipe" \notin log.meddled => "src" \in listening
    /\ chain.sink # "iterator" /\ r[Outlet].flowing /\ (Piping => "unpipe" \notin log.meddled) =>
           Outlet \in listening

(* An end is told once, and after the data.                                *)
EndsHold ==
    /\ \A x \in Halves : r[x].endEmitted => r[x].ended /\ (r[x].buf = <<>> \/ "late" \in log.meddled)
    /\ \A x \in Halves : Waits(jobs, Job("end", x)) => r[x].endEmitted
    /\ Once(jobs)

(* The sink ends after its outlet, or because the script wants it.         *)
SinkHolds ==
    /\ sink # "open" => Piping /\ (r[Outlet].endEmitted \/ log.meddled \cap {"end", "destroy"} # {})
    /\ Waits(jobs, Job("finish", "dst")) => sink # "open"

(* A consumer that heard the end hears nothing more.                       *)
LastHeard ==
    \A i, j \in DOMAIN log.heard :
        i < j /\ log.heard[i] = Null => log.heard[j] = Failed \/ "late" \in log.meddled
HeardHolds ==
    /\ Null \in ToSet(log.heard) => ~Piping
    /\ Null \in ToSet(log.heard) /\ chain.sink # "iterator" =>
           r[Outlet].endEmitted /\ ~Waits(jobs, Job("end", Outlet))
    /\ Null \in ToSet(log.heard) /\ chain.sink = "iterator" => Outlet \notin listening
    /\ LastHeard

(* The callback of pipeline() is told once, a response settles once.       *)
ToldHolds ==
    /\ "connected" \notin log.meddled => watching = {}
    /\ log.told # <<>> => watching = {} /\ "connected" \in log.meddled
    /\ Len(log.told) <= 1
    /\ "finish" \in ToSet(log.told) \/ log.settled # <<>> => sink # "open"
    /\ Len(log.settled) <= 1
    /\ Quiet /\ log.settled # <<>> => log.settled[1] = log.wrote.dst

(* What a transform was given is on its way or came out of it; it ends     *)
(* after its source.                                                       *)
MiddleEnds ==
    /\ r["mid"].ended \/ HasEnd(stack) \/ Waits(jobs, Job("finish", "mid")) => r["src"].endEmitted
    /\ chain.middle = "collect" => ~Waits(jobs, Job("finish", "mid"))
CollectWaits ==
    chain.middle = "collect" /\ (~r["src"].endEmitted \/ Waits(jobs, Job("end", "src"))) =>
        log.made["mid"] = <<>> /\ ~r["mid"].ended /\ ~HasPush(stack)
MiddleKeeps ==
    chain.middle = "map" \/ (chain.middle = "collect" /\ (r["mid"].ended \/ HasPush(stack))) =>
        log.wrote.mid = log.made["mid"] \o Carried(stack)
MiddleHolds ==
    Outlet = "mid" /\ Quiet =>
        /\ MiddleEnds /\ CollectWaits /\ MiddleKeeps
        /\ chain.middle # "later" => held.mid = <<>>
        /\ r["mid"].ended /\ chain.middle # "later" => Carried(stack) = <<>>

Inv ==
    FlowsAreHeard /\ EndsHold /\ SinkHolds /\ HeardHolds /\ ToldHolds /\ MiddleHolds /\ EveryByteOnce

LEMMA JobParts ==
    /\ \A x \in Halves : Job("end", x).do = "end"
    /\ Job("finish", "mid").do = "finish" /\ Job("finish", "dst").do = "finish"
    /\ Job("end", "src") # Job("end", "mid")
BY DEF Job

LEMMA CalmEnds == ASSUME Inv, Calm PROVE FlowsAreHeard' /\ EndsHold' /\ SinkHolds'
<1>1. /\ chain' = chain /\ sink' = sink /\ listening' = listening
      /\ \A x \in Halves : HalfCalm(r[x], r'[x])
      /\ JobsCalm(jobs, jobs') /\ LogCalm(log, log')
    BY DEF Calm
<1>2. /\ \A x \in Halves : Waits(jobs', Job("end", x)) => Waits(jobs, Job("end", x))
      /\ Waits(jobs', Job("finish", "dst")) => Waits(jobs, Job("finish", "dst"))
    BY <1>1, JobParts DEF JobsCalm
<1>3. Outlet' = Outlet /\ Outlet \in Halves /\ "src" \in Halves /\ Piping' = Piping
    BY <1>1, OutletIs DEF Outlet, Piping, Halves
<1>4. /\ \A x \in Halves : r'[x].buf = r[x].buf /\ r'[x].ended = r[x].ended /\ r'[x].endEmitted = r[x].endEmitted
      /\ \A x \in Halves : r'[x].flowing => r[x].flowing
      /\ log.meddled \subseteq log'.meddled
    BY <1>1 DEF HalfCalm, LogCalm
<1>5. FlowsAreHeard'
    BY <1>1, <1>3, <1>4 DEF Inv, FlowsAreHeard
<1>6. EndsHold'
    BY <1>1, <1>2, <1>4 DEF Inv, EndsHold, JobsCalm
<1>7. SinkHolds'
    BY <1>1, <1>2, <1>3, <1>4 DEF Inv, SinkHolds
<1> QED BY <1>5, <1>6, <1>7

LEMMA CalmSays == ASSUME Inv, Calm PROVE HeardHolds' /\ ToldHolds' /\ EveryByteOnce'
<1>1. /\ chain' = chain /\ sink' = sink /\ listening' = listening /\ watching' = watching
      /\ \A x \in Halves : HalfCalm(r[x], r'[x])
      /\ JobsCalm(jobs, jobs') /\ LogCalm(log, log')
    BY DEF Calm
<1>2. Outlet' = Outlet /\ Outlet \in Halves /\ "src" \in Halves /\ Piping' = Piping
    BY <1>1, OutletIs DEF Outlet, Piping, Halves
<1>3. Waits(jobs', Job("end", Outlet)) => Waits(jobs, Job("end", Outlet))
    BY <1>1, <1>2, JobParts DEF JobsCalm
<1>4. /\ \A x \in Halves : r'[x].buf = r[x].buf /\ r'[x].ended = r[x].ended /\ r'[x].endEmitted = r[x].endEmitted
      /\ log.meddled \subseteq log'.meddled
      /\ log'.made = log.made /\ log'.wrote = log.wrote /\ log'.heard = log.heard
      /\ log'.told = log.told /\ log'.settled = log.settled
    BY <1>1 DEF HalfCalm, LogCalm
<1>5. HeardHolds'
    BY <1>1, <1>2, <1>3, <1>4 DEF Inv, HeardHolds, LastHeard
<1>6. ToldHolds'
    BY <1>1, <1>2, <1>4 DEF Inv, ToldHolds, Quiet
<1>7. EveryByteOnce'
  <2>1. Ate' = Ate
      BY <1>4 DEF Ate
  <2>2. Buffered("src")' = Buffered("src") /\ Buffered(Outlet)' = Buffered(Outlet)
      BY <1>2, <1>4 DEF Buffered
  <2> QED BY <1>1, <1>2, <1>4, <2>1, <2>2 DEF Inv, EveryByteOnce
<1> QED BY <1>5, <1>6, <1>7

LEMMA CalmMiddle == ASSUME Inv, Calm PROVE MiddleHolds'
<1>1. /\ chain' = chain
      /\ \A x \in Halves : HalfCalm(r[x], r'[x])
      /\ JobsCalm(jobs, jobs') /\ LogCalm(log, log') /\ Plain(stack, stack', chain.sink)
      /\ held.mid = <<>> => held'.mid = <<>>
    BY DEF Calm
<1>2. Outlet' = Outlet /\ "mid" \in Halves /\ "src" \in Halves
    BY <1>1 DEF Outlet, Halves
<1>3. /\ Waits(jobs', Job("end", "src")) => Waits(jobs, Job("end", "src"))
      /\ Waits(jobs', Job("finish", "mid")) => Waits(jobs, Job("finish", "mid"))
    BY <1>1, <1>2, JobParts DEF JobsCalm
<1>4. /\ \A x \in Halves : r'[x].ended = r[x].ended /\ r'[x].endEmitted = r[x].endEmitted
      /\ log.meddled \subseteq log'.meddled
      /\ log'.made = log.made /\ log'.wrote = log.wrote
    BY <1>1 DEF HalfCalm, LogCalm
<1>5. /\ Carried(stack) = <<>> /\ Carried(stack') = <<>>
      /\ HasPush(stack') => HasPush(stack)
      /\ HasEnd(stack') => HasEnd(stack)
    BY <1>1 DEF Plain
<1>6. ASSUME Outlet = "mid", Quiet'
      PROVE  /\ MiddleEnds' /\ CollectWaits' /\ MiddleKeeps'
             /\ (chain.middle # "later" => held.mid = <<>>)'
  <2>1. /\ MiddleEnds /\ CollectWaits /\ MiddleKeeps
        /\ chain.middle # "later" => held.mid = <<>>
      BY <1>4, <1>6 DEF Inv, MiddleHolds, Quiet
  <2>2. MiddleEnds'
      BY <1>1, <1>2, <1>3, <1>4, <1>5, <2>1 DEF MiddleEnds
  <2>3. CollectWaits'
      BY <1>1, <1>2, <1>3, <1>4, <1>5, <2>1 DEF CollectWaits
  <2>4. MiddleKeeps'
      BY <1>1, <1>2, <1>4, <1>5, <2>1 DEF MiddleKeeps
  <2> QED BY <1>1, <2>1, <2>2, <2>3, <2>4
<1> QED BY <1>2, <1>5, <1>6 DEF MiddleHolds

LEMMA CalmKeeps == ASSUME Inv, Calm PROVE Inv'
BY CalmEnds, CalmSays, CalmMiddle DEF Inv

-----------------------------------------------------------------------------
(* maybeEndReadable() and the end of drainReadable().                      *)

(* maybeEndReadable() on a stream, changed or not before it is called.     *)
Ending(x, p) ==
    /\ r' = [r EXCEPT ![x] = MaybeEnded(p)]
    /\ jobs' = jobs \o EndJob(x, p)
    /\ p.endEmitted = r[x].endEmitted /\ p.flowing = r[x].flowing
    /\ r[x].ended => p.ended
    /\ p.buf = r[x].buf \/ p.buf = <<>>

Ended(x, p) ==
    /\ r' \in [Halves -> Half] /\ jobs' \in Seq(AJob)
    /\ \A y \in Halves : (r[y].endEmitted => r'[y].endEmitted) /\ r'[y].flowing = r[y].flowing
    /\ \A y \in Halves : y # x => r'[y] = r[y]
    /\ r'[x].buf = p.buf /\ r'[x].ended = p.ended
    /\ \A y \in Halves : Waits(jobs', Job("end", y)) => Waits(jobs, Job("end", y)) \/ (y = x /\ ~r[x].endEmitted)
    /\ Waits(jobs', Job("finish", "mid")) => Waits(jobs, Job("finish", "mid"))
    /\ Waits(jobs', Job("finish", "dst")) => Waits(jobs, Job("finish", "dst"))

LEMMA EndingSays ==
    ASSUME r \in [Halves -> Half], jobs \in Seq(AJob), EndsHold, NEW x \in Halves, NEW p \in Half, Ending(x, p),
           log.meddled \subseteq log'.meddled
    PROVE  Ended(x, p) /\ EndsHold'
<1>1. PICK c \in AJob : c = Job("end", x) /\ c.do = "end" /\ c.at = x
    BY JobIs
<1>2. \A y \in Halves : Job("end", y) = c => y = x
    BY <1>1, JobIs
<1>3. c # Job("finish", "mid") /\ c # Job("finish", "dst")
    BY <1>1, JobParts
<1>4. r[x] \in Half /\ MaybeEnded(p) \in Half
    BY HalfIs
<1>5. r' \in [Halves -> Half] /\ r'[x] = MaybeEnded(p) /\ \A y \in Halves : y # x => r'[y] = r[y]
    BY <1>4 DEF Ending
<1>6. CASE Ends(p)
  <2>1. jobs' = Append(jobs, c)
      BY <1>1, <1>6, JobsJoinOne DEF Ending, EndJob
  <2>2. MaybeEnded(p) = [p EXCEPT !.endEmitted = TRUE]
      BY <1>6 DEF MaybeEnded
  <2>3. /\ r'[x].endEmitted = TRUE /\ r'[x].buf = p.buf /\ r'[x].ended = p.ended /\ r'[x].flowing = p.flowing
        /\ p.ended /\ p.buf = <<>> /\ ~p.endEmitted
      BY <1>5, <1>6, <2>2 DEF Ends, Half
  <2>4. ~r[x].endEmitted /\ ~Waits(jobs, c)
      BY <1>1, <2>3 DEF Ending, EndsHold
  <2>5. /\ jobs' \in Seq(AJob) /\ Once(jobs')
        /\ \A j : Waits(jobs', j) <=> Waits(jobs, j) \/ j = c
      BY <2>1, <2>4, JobsAppend DEF EndsHold
  <2>6. Ended(x, p)
      BY <1>2, <1>3, <1>5, <2>3, <2>4, <2>5 DEF Ended, Ending
  <2>7. EndsHold'
      BY <1>2, <1>5, <2>3, <2>5 DEF EndsHold
  <2> QED BY <2>6, <2>7
<1>7. CASE ~Ends(p)
  <2>1. jobs' = jobs
      BY <1>7, JobsJoinNone DEF Ending, EndJob
  <2>2. r'[x] = p
      BY <1>5, <1>7 DEF MaybeEnded
  <2>3. Ended(x, p)
      BY <1>5, <2>1, <2>2 DEF Ended, Ending
  <2>4. EndsHold'
      BY <1>5, <2>1, <2>2 DEF EndsHold, Ending
  <2> QED BY <2>3, <2>4
<1> QED BY <1>6, <1>7

LEMMA EndingKeeps ==
    ASSUME Typed, Inv, NEW x \in Halves, NEW p \in Half, Ending(x, p), p.buf = r[x].buf,
           UNCHANGED <<chain, held, sink, listening, watching, log, rest>>, Plain(stack, stack', chain.sink),
           p.ended # r[x].ended => HasEnd(stack) \/ x = "src"
    PROVE  Typed' /\ Inv'
<1>1. Ended(x, p) /\ EndsHold'
    BY EndingSays DEF Typed, Inv
<1>2. Outlet' = Outlet /\ Outlet \in Halves /\ "src" \in Halves /\ "mid" \in Halves /\ Piping' = Piping /\ Parts' = Parts
    BY OutletIs DEF Outlet, Piping, Halves, Parts
<1>3. Typed'
    BY <1>1, <1>2 DEF Typed, Ended, Plain
<1>4. FlowsAreHeard'
    BY <1>1, <1>2 DEF Ended, Inv, FlowsAreHeard
<1>5. SinkHolds'
    BY <1>1, <1>2 DEF Ended, Inv, SinkHolds
<1>6. HeardHolds'
    BY <1>1, <1>2 DEF Ended, Inv, HeardHolds, LastHeard
<1>7. ToldHolds'
    BY <1>2 DEF Inv, ToldHolds, Quiet
<1>8. \A y \in Halves : r'[y].buf = r[y].buf
    BY <1>1 DEF Ended
<1>9. EveryByteOnce'
  <2>1. Buffered("src")' = Buffered("src") /\ Buffered(Outlet)' = Buffered(Outlet) /\ Ate' = Ate
      BY <1>2, <1>8 DEF Buffered, Ate
  <2> QED BY <1>2, <2>1 DEF Inv, EveryByteOnce
<1>10. MiddleHolds'
  <2>1. ASSUME Outlet = "mid", Quiet PROVE (MiddleEnds /\ CollectWaits /\ MiddleKeeps)'
    <3>1. MiddleEnds /\ CollectWaits /\ MiddleKeeps
        BY <2>1 DEF Inv, MiddleHolds
    <3>2. /\ Carried(stack) = <<>> /\ Carried(stack') = <<>>
          /\ HasPush(stack') => HasPush(stack)
          /\ HasEnd(stack') => HasEnd(stack)
          /\ HasEnd(stack) => HasPush(stack)
        BY DEF Plain, HasEnd, HasPush
    <3>3. r'["mid"].ended => r["mid"].ended \/ HasEnd(stack)
        BY <1>1, <1>2 DEF Ended, Typed, Half
    <3>4. /\ r["src"].endEmitted => r'["src"].endEmitted
          /\ Waits(jobs', Job("finish", "mid")) => Waits(jobs, Job("finish", "mid"))
          /\ Waits(jobs', Job("end", "src")) => Waits(jobs, Job("end", "src")) \/ ~r["src"].endEmitted
        BY <1>1, <1>2 DEF Ended
    <3>5. MiddleEnds'
        BY <3>1, <3>2, <3>3, <3>4 DEF MiddleEnds
    <3>6. CollectWaits'
        BY <3>1, <3>2, <3>3, <3>4 DEF CollectWaits
    <3>7. MiddleKeeps'
        BY <3>1, <3>2, <3>3 DEF MiddleKeeps
    <3> QED BY <3>5, <3>6, <3>7
  <2>2. Carried(stack') = <<>>
      BY DEF Plain
  <2> QED BY <1>2, <2>1, <2>2 DEF Inv, MiddleHolds, Quiet
<1> QED BY <1>1, <1>3, <1>4, <1>5, <1>6, <1>7, <1>9, <1>10 DEF Inv

LEMMA DrainEndsStep == ASSUME Typed, Inv, DrainEnds, UNCHANGED lineVars PROVE Typed' /\ Inv'
<1>0. PICK x \in Halves : x = Top.at
  <2>1. GoodCall(Top, chain.sink) /\ Top.do = "drain"
      BY SoundTop DEF Typed, DrainEnds, Running, Top
  <2> QED BY <2>1 DEF GoodCall
<1>1. /\ chain \in Chains /\ r \in [Halves -> Half] /\ r[x] \in Half /\ jobs \in Seq(AJob)
      /\ UNCHANGED <<chain, held, sink, listening, watching, log, rest>>
    BY DEF Typed, DrainEnds, lineVars
<1>2. Plain(stack, Front(stack), chain.sink) /\ Idle(Front(stack), chain.sink) /\ IsSeq(Front(stack))
    BY RunsIdle DEF DrainEnds
<1>3. CASE r[x].flowing /\ ~r[x].ended
  <2>1. stack' = Front(stack) \o ReadCalls(x)
      BY <1>0, <1>3 DEF DrainEnds
  <2>2. Plain(stack, stack', chain.sink)
      BY <1>1, <1>2, <2>1, ReadsPlain, PlainTwice
  <2>3. r' = [r EXCEPT ![x] = ReadBegun(x, r[x])]
      BY <1>0, <1>1, <1>3 DEF DrainEnds
  <2>4. r' \in [Halves -> Half] /\ \A y \in Halves : HalfCalm(r[y], r'[y])
      BY <1>1, <2>3, BegunCalm, HalfChanges
  <2>5. jobs' = jobs
      BY <1>0, <1>1, <1>3, JobsJoinNone DEF DrainEnds, EndJob, Ends
  <2>6. Typed'
      BY <1>1, <2>2, <2>4, <2>5 DEF Typed, Plain, Parts, Outlet
  <2>7. Calm
      BY <1>1, <2>2, <2>4, <2>5, JobsSame, LogSame DEF Calm
  <2> QED BY <2>6, <2>7, CalmKeeps
<1>4. CASE ~(r[x].flowing /\ ~r[x].ended)
  <2>1. stack' = Front(stack)
      BY <1>0, <1>2, <1>4, JoinsNone DEF DrainEnds
  <2>2. Ending(x, r[x])
      BY <1>0, <1>1, <1>4 DEF DrainEnds, Ending
  <2> QED BY <1>1, <1>2, <2>1, <2>2, EndingKeeps
<1> QED BY <1>3, <1>4

-----------------------------------------------------------------------------
(* Bytes that are pushed, taken and heard.                                 *)

LEMMA ChunkSeqs == ASSUME NEW q \in Seq(Chunks) PROVE q \in Seq(Seq(Byte)) /\ \A c \in Chunks : c \in Seq(Byte)
<1>1. Chunks \subseteq Seq(Byte)
    BY DEF Chunks, Bytes
<1> QED BY <1>1, SeqMonotonic

LEMMA BytesAssoc == \A a, b, c \in Bytes : (a \o b) \o c = a \o (b \o c)
BY ConcatAssociative DEF Bytes

(* Bytes that are pushed or taken stay in their order.                     *)
LEMMA KeptByPush ==
    ASSUME NEW m, NEW n, NEW a \in Bytes, NEW q \in Seq(Chunks), NEW c \in Chunks,
           Joined(m, a, FlattenSeq(q)), Joined(n, m, c)
    PROVE  Joined(n, a, FlattenSeq(Append(q, c)))
<1>1. Joined(FlattenSeq(Append(q, c)), FlattenSeq(q), c)
    BY ChunkSeqs, FlattenAppend
<1>2. PICK b \in Bytes : b = FlattenSeq(q)
    BY FlattenBytes
<1>3. c \in Bytes
    BY DEF Chunks
<1>4. (a \o b) \o c = a \o (b \o c)
    BY <1>3, BytesAssoc
<1> QED BY <1>1, <1>2, <1>4 DEF Joined

LEMMA KeptByTake ==
    ASSUME NEW m, NEW n, NEW a \in Bytes, NEW q \in Seq(Chunks), q # <<>>,
           Joined(m, a, FlattenSeq(q)), Joined(n, a, Head(q))
    PROVE  Joined(m, n, FlattenSeq(Tail(q)))
<1>1. Joined(FlattenSeq(q), Head(q), FlattenSeq(Tail(q)))
    BY ChunkSeqs, FlattenTail
<1>2. Tail(q) \in Seq(Chunks) /\ Head(q) \in Bytes
    BY DEF Chunks
<1>3. PICK b \in Bytes, h \in Bytes : b = FlattenSeq(Tail(q)) /\ h = Head(q)
    BY <1>2, FlattenBytes
<1>4. (a \o h) \o b = a \o (h \o b)
    BY <1>3, BytesAssoc
<1> QED BY <1>1, <1>3, <1>4 DEF Joined

LEMMA NothingLeft ==
    ASSUME NEW m, NEW a \in Bytes, NEW q, q = <<>>
    PROVE  Joined(m, a, FlattenSeq(q)) <=> m = a
<1>1. a \o <<>> = a
    BY ConcatEmptySeq DEF Bytes
<1> QED BY <1>1, FlattenNone DEF Joined

LEMMA DataMore ==
    ASSUME NEW h \in Heard, NEW c \in Bytes \cup {Failed}
    PROVE  /\ Data(h) \in Seq(Bytes)
           /\ Data(Append(h, c)) = Append(Data(h), IF c = Failed THEN Null ELSE c)
<1>1. PICK n \in Nat : n = Len(h) /\ DOMAIN h = 1..n
    BY DEF Heard
<1>2. \A i \in 1..n : h[i] \in Bytes \cup {Failed}
    BY <1>1 DEF Heard
<1>3. PICK g : g = Append(h, c)
    OBVIOUS
<1>4. DOMAIN g = 1..(n + 1) /\ g[n + 1] = c /\ \A i \in 1..n : g[i] = h[i]
    BY <1>1, <1>3 DEF Heard
<1>5. PICK d : d = IF c = Failed THEN Null ELSE c
    OBVIOUS
<1>6. Null \in Bytes /\ d \in Bytes
    BY <1>5, BytesNone
<1>7. Data(h) \in [1..n -> Bytes] /\ Data(h) \in Seq(Bytes) /\ Len(Data(h)) = n
  <2>1. Data(h) \in [1..n -> Bytes]
      BY <1>1, <1>2, <1>6 DEF Data
  <2> QED BY <2>1
<1>8. PICK e : e = Data(h)
    OBVIOUS
<1>9. Append(e, d) \in [1..(n + 1) -> Bytes] /\ Append(e, d)[n + 1] = d /\ \A i \in 1..n : Append(e, d)[i] = e[i]
  <2>1. e \in Seq(Bytes) /\ Len(e) = n
      BY <1>7, <1>8
  <2>2. PICK k : k = Append(e, d)
      OBVIOUS
  <2>3. k \in Seq(Bytes) /\ Len(k) = n + 1 /\ k[n + 1] = d /\ \A i \in 1..n : k[i] = e[i]
      BY <1>6, <2>1, <2>2, AppendProperties
  <2>4. k \in [1..Len(k) -> Bytes]
      BY <2>3, LenProperties
  <2> QED BY <2>2, <2>3, <2>4
<1>10. Data(g) \in [1..(n + 1) -> Bytes] /\ Data(g)[n + 1] = d /\ \A i \in 1..n : Data(g)[i] = e[i]
  <2>1. \A i \in 1..(n + 1) : i \in 1..n \/ i = n + 1
      OBVIOUS
  <2>2. \A i \in 1..(n + 1) : Data(g)[i] = IF g[i] = Failed THEN Null ELSE g[i]
      BY <1>4 DEF Data
  <2>3. \A i \in 1..n : e[i] = IF h[i] = Failed THEN Null ELSE h[i]
      BY <1>1, <1>8 DEF Data
  <2>4. \A i \in 1..n : i \in 1..(n + 1) /\ e[i] \in Bytes
      BY <1>7, <1>8
  <2>5. Data(g)[n + 1] = d /\ \A i \in 1..n : Data(g)[i] = e[i]
      BY <1>4, <1>5, <2>2, <2>3, <2>4
  <2>6. DOMAIN Data(g) = 1..(n + 1) /\ Data(g) = [i \in 1..(n + 1) |-> Data(g)[i]]
      BY <1>4 DEF Data
  <2>7. \A i \in 1..(n + 1) : Data(g)[i] \in Bytes
      BY <1>6, <2>1, <2>4, <2>5
  <2> QED BY <2>5, <2>6, <2>7
<1>11. Data(g) = Append(e, d)
  <2>1. \A i \in 1..(n + 1) : Data(g)[i] = Append(e, d)[i]
      BY <1>9, <1>10
  <2> QED BY <1>9, <1>10, <2>1
<1> QED BY <1>3, <1>5, <1>7, <1>8, <1>11

LEMMA AteMore ==
    ASSUME NEW h \in Heard
    PROVE  /\ FlattenSeq(Data(h)) \in Bytes
           /\ \A c \in Bytes : Joined(FlattenSeq(Data(Append(h, c))), FlattenSeq(Data(h)), c)
           /\ FlattenSeq(Data(Append(h, Failed))) = FlattenSeq(Data(h))
           /\ FlattenSeq(Data(Append(h, Null))) = FlattenSeq(Data(h))
<1>1. PICK d : d = Data(h)
    OBVIOUS
<1>2. d \in Seq(Seq(Byte))
    BY <1>1, BytesNone, DataMore DEF Bytes
<1>3. FlattenSeq(d) \in Bytes
    BY <1>2, FlattenType DEF Bytes
<1>4. ASSUME NEW c \in Bytes PROVE Joined(FlattenSeq(Append(d, c)), FlattenSeq(d), c)
  <2>1. c \in Seq(Byte)
      BY DEF Bytes
  <2> QED BY <1>2, <2>1, FlattenAppend
<1>5. ASSUME NEW c \in Bytes PROVE Data(Append(h, c)) = Append(d, c)
    BY <1>1, BytesOf, DataMore
<1>6. Data(Append(h, Failed)) = Append(d, Null)
    BY <1>1, BytesOf, DataMore
<1>7. FlattenSeq(Append(d, Null)) = FlattenSeq(d)
  <2>1. Joined(FlattenSeq(Append(d, Null)), FlattenSeq(d), Null)
      BY <1>4, BytesNone
  <2>2. FlattenSeq(d) \o <<>> = FlattenSeq(d)
      BY <1>3, ConcatEmptySeq DEF Bytes
  <2> QED BY <2>1, <2>2 DEF Joined, Null
<1> QED BY <1>1, <1>3, <1>4, <1>5, <1>6, <1>7, BytesNone

-----------------------------------------------------------------------------
(* What stays.                                                             *)

(* A part of the state that a step leaves alone keeps what is said of it.  *)
Grows == chain' = chain /\ log.meddled \subseteq log'.meddled

LEMMA SameChain == ASSUME chain' = chain PROVE Outlet' = Outlet /\ Piping' = Piping /\ Parts' = Parts
BY DEF Outlet, Piping, Parts

LEMMA FlowsStay ==
    ASSUME Inv, Grows, \A x \in Halves : r'[x].flowing => r[x].flowing,
           listening \subseteq listening' \/ listening' = StillListening
    PROVE  FlowsAreHeard'
<1>1. Outlet' = Outlet /\ Piping' = Piping /\ Outlet \in Halves /\ "src" \in Halves
    BY SameChain, OutletIs DEF Grows, Halves
<1>2. /\ Outlet = "mid" /\ "src" \in listening => "src" \in listening'
      /\ chain.sink # "iterator" /\ Outlet \in listening => Outlet \in listening'
    BY DEF StillListening
<1> QED BY <1>1, <1>2 DEF Inv, FlowsAreHeard, Grows

LEMMA EndsStay ==
    ASSUME Inv, Grows, JobsCalm(jobs, jobs'),
           \A x \in Halves : /\ r'[x].endEmitted = r[x].endEmitted /\ r'[x].ended = r[x].ended
                             /\ r[x].buf = <<>> => r'[x].buf = <<>>
    PROVE  EndsHold'
<1>1. \A x \in Halves : Waits(jobs', Job("end", x)) => Waits(jobs, Job("end", x))
    BY JobParts DEF JobsCalm
<1> QED BY <1>1 DEF Inv, EndsHold, Grows, JobsCalm

LEMMA SinkStays ==
    ASSUME Inv, Grows, JobsCalm(jobs, jobs'), sink' = sink, r'[Outlet].endEmitted = r[Outlet].endEmitted
    PROVE  SinkHolds'
<1>1. Waits(jobs', Job("finish", "dst")) => Waits(jobs, Job("finish", "dst"))
    BY JobParts DEF JobsCalm
<1> QED BY <1>1, SameChain DEF Inv, SinkHolds, Grows

LEMMA HeardStays ==
    ASSUME Inv, Grows, JobsCalm(jobs, jobs'), r'[Outlet].endEmitted = r[Outlet].endEmitted,
           log'.heard = log.heard, listening' \subseteq listening \/ chain.sink # "iterator"
    PROVE  HeardHolds'
<1>1. Waits(jobs', Job("end", Outlet)) => Waits(jobs, Job("end", Outlet))
    BY JobParts, OutletIs DEF JobsCalm
<1> QED BY <1>1, SameChain DEF Inv, HeardHolds, LastHeard, Grows

LEMMA ToldStays ==
    ASSUME Inv, Grows, log'.told = log.told, log'.settled = log.settled, watching' = watching,
           sink # "open" => sink' # "open",
           log'.wrote.dst = log.wrote.dst \/ ~Quiet' \/ log.settled = <<>>
    PROVE  ToldHolds'
BY DEF Inv, ToldHolds, Grows, Quiet

LEMMA MiddleStays ==
    ASSUME Inv, Grows, JobsCalm(jobs, jobs'), Plain(stack, stack', chain.sink),
           \A x \in Halves : r'[x].endEmitted = r[x].endEmitted /\ r'[x].ended = r[x].ended,
           log'.made = log.made, log'.wrote.mid = log.wrote.mid, held.mid = <<>> => held'.mid = <<>>
    PROVE  MiddleHolds'
<1>1. Outlet' = Outlet /\ "mid" \in Halves /\ "src" \in Halves
    BY SameChain DEF Grows, Halves
<1>2. /\ Waits(jobs', Job("end", "src")) => Waits(jobs, Job("end", "src"))
      /\ Waits(jobs', Job("finish", "mid")) => Waits(jobs, Job("finish", "mid"))
    BY <1>1, JobParts DEF JobsCalm
<1>3. /\ Carried(stack) = <<>> /\ Carried(stack') = <<>>
      /\ HasPush(stack') => HasPush(stack)
      /\ HasEnd(stack') => HasEnd(stack)
    BY DEF Plain
<1>4. ASSUME Outlet = "mid", Quiet'
      PROVE  /\ MiddleEnds' /\ CollectWaits' /\ MiddleKeeps'
             /\ (chain.middle # "later" => held.mid = <<>>)'
  <2>1. MiddleEnds /\ CollectWaits /\ MiddleKeeps /\ (chain.middle # "later" => held.mid = <<>>)
      BY <1>4 DEF Inv, MiddleHolds, Quiet, Grows
  <2>2. MiddleEnds'
      BY <1>1, <1>2, <1>3, <2>1 DEF MiddleEnds, Grows
  <2>3. CollectWaits'
      BY <1>1, <1>2, <1>3, <2>1 DEF CollectWaits, Grows
  <2>4. MiddleKeeps'
      BY <1>1, <1>3, <2>1 DEF MiddleKeeps, Grows
  <2> QED BY <2>1, <2>2, <2>3, <2>4 DEF Grows
<1> QED BY <1>1, <1>3, <1>4 DEF MiddleHolds

LEMMA BytesStay ==
    ASSUME Inv, Grows, \A x \in Halves : r'[x].buf = r[x].buf,
           log'.made = log.made, log'.wrote = log.wrote, Ate' = Ate
    PROVE  EveryByteOnce'
<1>1. Outlet' = Outlet /\ Piping' = Piping /\ Outlet \in Halves /\ "src" \in Halves
    BY SameChain, OutletIs DEF Grows, Halves
<1>2. Buffered("src")' = Buffered("src") /\ Buffered(Outlet)' = Buffered(Outlet)
    BY <1>1 DEF Buffered
<1> QED BY <1>1, <1>2 DEF Inv, EveryByteOnce, Grows

LEMMA HearMore ==
    ASSUME NEW h \in Heard, NEW c \in Bytes \cup {Failed}
    PROVE  /\ \A d : d \in ToSet(Append(h, c)) <=> d \in ToSet(h) \/ d = c
           /\ \A i, j \in DOMAIN Append(h, c) :
                  i < j => i \in DOMAIN h /\ Append(h, c)[i] = h[i]
                           /\ ((j \in DOMAIN h /\ Append(h, c)[j] = h[j]) \/ Append(h, c)[j] = c)
<1>1. PICK n \in Nat : n = Len(h) /\ DOMAIN h = 1..n
    BY DEF Heard
<1>2. PICK g : g = Append(h, c)
    OBVIOUS
<1>3. DOMAIN g = 1..(n + 1) /\ g[n + 1] = c /\ \A i \in 1..n : g[i] = h[i]
    BY <1>1, <1>2, AppendProperties DEF Heard
<1>4. 1..(n + 1) = 1..n \cup {n + 1}
    OBVIOUS
<1>5. \A d : d \in ToSet(g) <=> d \in ToSet(h) \/ d = c
    BY <1>1, <1>3, <1>4 DEF ToSet
<1>6. \A i, j \in 1..(n + 1) : i < j => i \in 1..n /\ (j \in 1..n \/ j = n + 1)
    OBVIOUS
<1> QED BY <1>1, <1>2, <1>3, <1>5, <1>6

(* The first event of the sink that somebody has a listener on.            *)
LEMMA TellIs ==
    ASSUME Typed, Inv, NEW event \in {"finish", "error"}
    PROVE  /\ Len(Told(event)) <= 1
           /\ Told(event) # <<>> => Rest(event) = {} /\ "connected" \in log.meddled
           /\ "finish" \in ToSet(Told(event)) => "finish" \in ToSet(log.told) \/ event = "finish"
           /\ "connected" \notin log.meddled => Rest(event) = {}
<1>1. CASE event \in watching
  <2>1. log.told = <<>> /\ "connected" \in log.meddled
      BY <1>1 DEF Inv, ToldHolds
  <2>2. Told(event) = <<event>> /\ Rest(event) = {}
      BY <1>1, <2>1 DEF Told, Rest
  <2>3. Len(<<event>>) = 1 /\ ToSet(<<event>>) = {event}
      BY DEF ToSet
  <2> QED BY <2>1, <2>2, <2>3
<1>2. CASE event \notin watching
  <2>1. Told(event) = log.told /\ Rest(event) = watching
      BY <1>2 DEF Told, Rest
  <2> QED BY <2>1 DEF Inv, ToldHolds
<1> QED BY <1>1, <1>2

LEMMA ToldMoves ==
    ASSUME Typed, Inv, NEW event \in {"finish", "error"}, Grows, log'.told = Told(event), watching' = Rest(event),
           log'.settled = log.settled, log'.wrote.dst = log.wrote.dst,
           sink # "open" \/ event = "finish" => sink' # "open"
    PROVE  ToldHolds'
BY TellIs DEF Inv, ToldHolds, Grows, Quiet

-----------------------------------------------------------------------------
(* Errors.                                                                 *)

LEMMA ErrorKeeps ==
    ASSUME Typed, Inv, NEW x, NEW lg \in Log, LogCalm(log, lg), ErrorEmitted(x, lg),
           UNCHANGED <<chain, r, sink, stack, rest>>, Idle(stack, chain.sink),
           held' \in [mid : Seq(Chunks), dst : Seq(Chunks)], held.mid = <<>> => held'.mid = <<>>,
           jobs' \in Seq(AJob), JobsCalm(jobs, jobs')
    PROVE  Typed' /\ Inv'
<1>1. log' \in Log /\ watching' \in SUBSET {"end", "finish", "error"} /\ (listening \in SUBSET Parts)'
    BY ErrorTyped DEF LogCalm
<1>2. Typed'
    BY <1>1 DEF Typed
<1>3. /\ log.heard \in Heard /\ lg.heard = log.heard /\ lg.told = log.told /\ lg.settled = log.settled
      /\ lg.made = log.made /\ lg.wrote = log.wrote
      /\ log.meddled \subseteq lg.meddled
      /\ r \in [Halves -> Half] /\ listening \in SUBSET Parts
    BY LogIs DEF Typed, LogCalm
<1>4. CASE log' = [lg EXCEPT !.told = Told("error")] /\ watching' = Rest("error") /\ listening' = listening
  <2>1. /\ log'.heard = log.heard /\ log'.told = Told("error") /\ log'.settled = log.settled
        /\ log'.made = log.made /\ log'.wrote = log.wrote /\ Grows
      BY <1>3, <1>4 DEF Log, Grows
  <2>2. Plain(stack, stack', chain.sink)
      BY PlainSame
  <2>3. ToldHolds'
      BY <2>1, <1>4, ToldMoves
  <2>4. FlowsAreHeard' /\ EndsHold' /\ SinkHolds' /\ HeardHolds' /\ MiddleHolds'
      BY <1>4, <2>1, <2>2, FlowsStay, EndsStay, SinkStays, HeardStays, MiddleStays
  <2>5. EveryByteOnce'
      BY <2>1, BytesStay DEF Ate
  <2> QED BY <1>2, <2>3, <2>4, <2>5 DEF Inv
<1>5. CASE /\ ~Piping /\ log' = [lg EXCEPT !.heard = Append(@, Failed)]
           /\ listening' = StillListening /\ watching' = watching
  <2>1. /\ log'.heard = Append(log.heard, Failed) /\ log'.told = log.told /\ log'.settled = log.settled
        /\ log'.made = log.made /\ log'.wrote = log.wrote /\ Grows
      BY <1>3, <1>5 DEF Log, Grows
  <2>2. Plain(stack, stack', chain.sink)
      BY PlainSame
  <2>3. HeardHolds'
    <3>1. Null \in ToSet(log'.heard) => Null \in ToSet(log.heard)
        BY <1>3, <2>1, HearMore, BytesOf
    <3>2. LastHeard'
      <4>1. DOMAIN log'.heard = DOMAIN Append(log.heard, Failed)
          BY <2>1
      <4>2. LastHeard
          BY DEF Inv, HeardHolds
      <4>3. Failed \in Bytes \cup {Failed}
          OBVIOUS
      <4> QED BY <1>3, <2>1, <4>1, <4>2, <4>3, HearMore DEF LastHeard, Grows
    <3>3. Waits(jobs', Job("end", Outlet)) => Waits(jobs, Job("end", Outlet))
        BY JobParts, OutletIs DEF JobsCalm
    <3>4. listening' \subseteq listening
        BY <1>5 DEF StillListening
    <3> QED BY <1>5, <2>1, <3>1, <3>2, <3>3, <3>4, SameChain DEF Inv, HeardHolds, Grows
  <2>4. FlowsAreHeard' /\ EndsHold' /\ SinkHolds' /\ ToldHolds' /\ MiddleHolds'
      BY <1>5, <2>1, <2>2, FlowsStay, EndsStay, SinkStays, ToldStays, MiddleStays
  <2>5. EveryByteOnce'
    <3>1. Ate' = Ate
        BY <1>3, <2>1, AteMore DEF Ate
    <3> QED BY <2>1, <3>1, BytesStay
  <2> QED BY <1>2, <2>3, <2>4, <2>5 DEF Inv
<1>6. CASE log' = lg /\ UNCHANGED <<watching, listening>>
  <2>1. Calm
      BY <1>6, PlainSame, HalfSame DEF Calm
  <2> QED BY <1>2, <2>1, CalmKeeps
<1> QED BY <1>4, <1>5, <1>6 DEF ErrorEmitted, DestEmits

LEMMA ErrorJobStep == ASSUME Typed, Inv, ErrorJob, UNCHANGED lineVars PROVE Typed' /\ Inv'
<1>1. JobsCalm(jobs, jobs') /\ jobs' \in Seq(AJob)
    BY JobsGone DEF ErrorJob, JobComes, Typed
<1>2. Idle(stack, chain.sink)
    BY ScriptIdle DEF ErrorJob, JobComes
<1>3. PICK lg \in Log : lg = log /\ LogCalm(log, lg)
    BY LogSame DEF Typed
<1>4. ErrorEmitted(Head(jobs).at, lg)
    BY <1>3 DEF ErrorJob
<1>5. UNCHANGED <<chain, r, held, sink, stack, rest>> /\ held \in [mid : Seq(Chunks), dst : Seq(Chunks)]
    BY DEF ErrorJob, lineVars, Typed
<1> QED BY <1>1, <1>2, <1>3, <1>4, <1>5, ErrorKeeps

LEMMA FlushFailsStep == ASSUME Typed, Inv, FlushFails, UNCHANGED lineVars PROVE Typed' /\ Inv'
<1>1. JobsCalm(jobs, jobs') /\ jobs' \in Seq(AJob)
    BY JobsGone DEF FlushFails, JobComes, Typed
<1>2. Idle(stack, chain.sink)
    BY ScriptIdle DEF FlushFails, JobComes
<1>3. PICK lg \in Log : lg = log /\ LogCalm(log, lg)
    BY LogSame DEF Typed
<1>4. ErrorEmitted("mid", lg)
    BY <1>3 DEF FlushFails
<1>5. UNCHANGED <<chain, r, held, sink, stack, rest>> /\ held \in [mid : Seq(Chunks), dst : Seq(Chunks)]
    BY DEF FlushFails, lineVars, Typed
<1> QED BY <1>1, <1>2, <1>3, <1>4, <1>5, ErrorKeeps

LEMMA SourceFailsStep == ASSUME Typed, Inv, SourceFails, UNCHANGED lineVars PROVE Typed' /\ Inv'
<1>1. JobsCalm(jobs, jobs') /\ jobs' \in Seq(AJob)
    BY JobsSame DEF SourceFails, Typed
<1>2. Idle(stack, chain.sink)
    BY ScriptIdle DEF SourceFails
<1>3. PICK lg \in Log : lg = [log EXCEPT !.meddled = @ \cup {"failed"}] /\ LogCalm(log, lg)
  <2>1. log \in Log /\ "failed" \in Words
      BY DEF Typed, Words
  <2>2. log.meddled \cup {"failed"} \in SUBSET Words
      BY <2>1, LogIs
  <2>3. [log EXCEPT !.meddled = @ \cup {"failed"}] \in Log
      BY <2>1, <2>2, LogIs
  <2>4. LogCalm(log, [log EXCEPT !.meddled = @ \cup {"failed"}])
      BY <2>1 DEF LogCalm, Log
  <2> QED BY <2>3, <2>4
<1>4. ErrorEmitted("src", lg)
    BY <1>3 DEF SourceFails
<1>5. UNCHANGED <<chain, r, held, sink, stack, rest>> /\ held \in [mid : Seq(Chunks), dst : Seq(Chunks)]
    BY DEF SourceFails, lineVars, Typed
<1> QED BY <1>1, <1>2, <1>3, <1>4, <1>5, ErrorKeeps

LEMMA CallbackFailsStep ==
    ASSUME Typed, Inv, NEW y \in {"mid", "dst"}, CallbackFails(y), UNCHANGED lineVars PROVE Typed' /\ Inv'
<1>1. JobsCalm(jobs, jobs') /\ jobs' \in Seq(AJob)
    BY JobsSame DEF CallbackFails, Typed
<1>2. Idle(stack, chain.sink)
    BY ScriptIdle DEF CallbackFails
<1>3. PICK lg \in Log : lg = log /\ LogCalm(log, lg)
    BY LogSame DEF Typed
<1>4. ErrorEmitted(y, lg)
    BY <1>3 DEF CallbackFails
<1>5. UNCHANGED <<chain, r, sink, stack, rest>>
    BY DEF CallbackFails, lineVars
<1>6. held' \in [mid : Seq(Chunks), dst : Seq(Chunks)] /\ (held.mid = <<>> => held'.mid = <<>>)
  <2>1. held \in [mid : Seq(Chunks), dst : Seq(Chunks)] /\ held[y] \in Seq(Chunks) /\ held[y] # <<>>
      BY DEF CallbackFails, Typed
  <2>2. Tail(held[y]) \in Seq(Chunks)
      BY <2>1
  <2> QED BY <2>1, <2>2 DEF CallbackFails
<1> QED BY <1>1, <1>2, <1>3, <1>4, <1>5, <1>6, ErrorKeeps

-----------------------------------------------------------------------------
(* The end of the sink.                                                    *)

(* end() of the sink, and the events it tells.                             *)
LEMMA DestEndsKeeps ==
    ASSUME Typed, Inv, NEW js \in Seq(AJob), JobsCalm(jobs, js), NEW lg \in Log, LogCalm(log, lg), DestEnds(js, lg),
           Piping, sink = "open" => r[Outlet].endEmitted \/ "end" \in lg.meddled,
           UNCHANGED <<chain, r, held, stack, listening, rest>>, Idle(stack, chain.sink)
    PROVE  Typed' /\ Inv'
<1>1. /\ lg.heard = log.heard /\ lg.told = log.told /\ lg.settled = log.settled
      /\ lg.made = log.made /\ lg.wrote = log.wrote
      /\ log.meddled \subseteq lg.meddled
      /\ log \in Log /\ lg.wrote.dst \in Bytes /\ lg.settled \in Seq(Bytes)
      /\ r \in [Halves -> Half]
    BY LogIs DEF Typed, LogCalm
<1>2. PICK c \in AJob : c = Job("finish", "dst") /\ c.do = "finish"
    BY JobIs
<1>3. c # Job("finish", "mid")
    BY <1>2 DEF Job
<1>4. jobs' \in Seq(AJob) /\ (jobs' = js \/ (jobs' = Append(js, c) /\ sink = "open" /\ chain.sink = "writable"))
    BY <1>2, JobsAppend DEF DestEnds
<1>5. /\ \A j : Waits(jobs', j) /\ j.do \in {"end", "finish"} => Waits(jobs, j) \/ (j = c /\ sink = "open")
      /\ Once(jobs) => Once(jobs')
  <2>1. \A j : Waits(Append(js, c), j) <=> Waits(js, j) \/ j = c
      BY JobsAppend
  <2>2. Once(js) => Once(Append(js, c))
      BY <1>2, JobsAppend
  <2> QED BY <1>4, <2>1, <2>2 DEF JobsCalm
<1>6. sink' \in {"open", "ending", "ended", "finished"} /\ sink' # "open"
    BY DEF DestEnds, Piping, Typed
<1>7. log' \in Log /\ watching' \in SUBSET {"end", "finish", "error"}
  <2>1. Told("finish") \in Tellings /\ Rest("finish") \in SUBSET {"end", "finish", "error"}
      BY <1>1, ToldIs, RestIs DEF Typed
  <2>2. Append(lg.settled, lg.wrote.dst) \in Seq(Bytes)
      BY <1>1
  <2>3. [lg EXCEPT !.settled = Append(@, lg.wrote.dst), !.told = Told("finish")] \in Log
      BY <2>1, <2>2, LogIs
  <2> QED BY <2>1, <2>3 DEF DestEnds, Typed
<1>8. Typed'
    BY <1>4, <1>6, <1>7, SameChain DEF Typed
<1>9. /\ log'.heard = log.heard /\ log'.made = log.made /\ log'.wrote = log.wrote /\ Grows
      /\ SinkEnds =>
             /\ log'.settled = Append(log.settled, log.wrote.dst)
             /\ log'.told = Told("finish") /\ watching' = Rest("finish")
      /\ ~SinkEnds => log'.settled = log.settled /\ log'.told = log.told /\ watching' = watching
      /\ log'.meddled = lg.meddled
    BY <1>1 DEF DestEnds, Log, Grows
<1>10. FlowsAreHeard'
    BY <1>9, FlowsStay
<1>11. \A x \in Halves : Waits(jobs', Job("end", x)) => Waits(jobs, Job("end", x))
    BY <1>2, <1>5, JobParts
<1>12. EndsHold'
    BY <1>5, <1>9, <1>11 DEF Inv, EndsHold, Grows
<1>13. SinkHolds'
  <2>1. r[Outlet].endEmitted \/ lg.meddled \cap {"end", "destroy"} # {}
      BY <1>1 DEF Inv, SinkHolds
  <2> QED BY <1>6, <1>9, <2>1, SameChain DEF SinkHolds, Grows
<1>14. HeardHolds'
  <2>1. Waits(jobs', Job("end", Outlet)) => Waits(jobs, Job("end", Outlet))
      BY <1>11, OutletIs
  <2> QED BY <1>9, <2>1, SameChain DEF Inv, HeardHolds, LastHeard, Grows
<1>15. ToldHolds'
  <2>1. CASE SinkEnds
    <3>1. log.settled = <<>>
        BY <2>1 DEF Inv, ToldHolds, SinkEnds
    <3>2. log'.settled = <<log.wrote.dst>> /\ log'.told = Told("finish") /\ watching' = Rest("finish")
        BY <1>9, <2>1, <3>1
    <3>3. log'.wrote.dst = log.wrote.dst
        BY <1>9
    <3>4. Len(log'.settled) <= 1 /\ log'.settled[1] = log'.wrote.dst
        BY <3>2, <3>3
    <3> QED BY <1>6, <1>9, <3>2, <3>4, TellIs DEF ToldHolds, Grows
  <2>2. CASE ~SinkEnds
      BY <1>6, <1>9, <2>2, ToldStays
  <2> QED BY <2>1, <2>2
<1>16. MiddleHolds'
  <2>1. /\ Waits(jobs', Job("end", "src")) => Waits(jobs, Job("end", "src"))
        /\ Waits(jobs', Job("finish", "mid")) => Waits(jobs, Job("finish", "mid"))
      BY <1>3, <1>5, <1>11, JobParts DEF Halves
  <2>2. Outlet' = Outlet
      BY SameChain
  <2> QED BY <1>9, <2>1, <2>2 DEF Inv, MiddleHolds, MiddleEnds, CollectWaits, MiddleKeeps, Quiet, Grows
<1>17. EveryByteOnce'
    BY <1>9, BytesStay DEF Ate
<1> QED BY <1>8, <1>10, <1>12, <1>13, <1>14, <1>15, <1>16, <1>17 DEF Inv

LEMMA DestTells ==
    ASSUME Typed, Inv, NEW event \in {"finish", "error"}, DestEmits(event, log), sink # "open",
           sink' \in {"ending", "ended", "finished"}, jobs' \in Seq(AJob), JobsCalm(jobs, jobs'),
           UNCHANGED <<chain, r, held, listening, stack, rest>>, Idle(stack, chain.sink)
    PROVE  Typed' /\ Inv'
<1>1. log \in Log /\ r \in [Halves -> Half]
    BY DEF Typed
<1>2. log' \in Log /\ watching' \in SUBSET {"end", "finish", "error"}
  <2>1. Told(event) \in Tellings /\ Rest(event) \in SUBSET {"end", "finish", "error"}
      BY <1>1, ToldIs, RestIs DEF Typed
  <2> QED BY <1>1, <2>1, LogIs DEF DestEmits
<1>3. Typed'
    BY <1>2, SameChain DEF Typed
<1>4. /\ log'.heard = log.heard /\ log'.told = Told(event) /\ log'.settled = log.settled /\ watching' = Rest(event)
      /\ log'.made = log.made /\ log'.wrote = log.wrote /\ Grows
    BY <1>1 DEF DestEmits, Log, Grows
<1>5. Plain(stack, stack', chain.sink)
    BY PlainSame
<1>6. FlowsAreHeard' /\ EndsHold' /\ HeardHolds' /\ MiddleHolds'
    BY <1>4, <1>5, FlowsStay, EndsStay, HeardStays, MiddleStays
<1>7. SinkHolds'
    BY <1>4, SameChain DEF Inv, SinkHolds, Grows
<1>8. ToldHolds'
    BY <1>4, ToldMoves
<1>9. EveryByteOnce'
    BY <1>4, BytesStay DEF Ate
<1> QED BY <1>3, <1>6, <1>7, <1>8, <1>9 DEF Inv

LEMMA WritableFinishesStep == ASSUME Typed, Inv, WritableFinishes, UNCHANGED lineVars PROVE Typed' /\ Inv'
<1>1. JobsCalm(jobs, jobs') /\ jobs' \in Seq(AJob)
    BY JobsGone DEF WritableFinishes, JobComes, Typed
<1>2. Idle(stack, chain.sink)
    BY ScriptIdle DEF WritableFinishes, JobComes
<1>3. sink # "open"
  <2>1. Head(jobs) \in AJob /\ Waits(jobs, Head(jobs))
      BY JobsTail DEF WritableFinishes, JobComes, Typed
  <2>2. Head(jobs) = Job("finish", "dst")
      BY <2>1 DEF WritableFinishes, JobComes, AJob, Job
  <2> QED BY <2>1, <2>2 DEF Inv, SinkHolds
<1> QED BY <1>1, <1>2, <1>3, DestTells DEF WritableFinishes, lineVars

LEMMA FinalCallsStep ==
    ASSUME Typed, Inv, NEW event \in {"finish", "error"}, FinalCalls(event), UNCHANGED lineVars PROVE Typed' /\ Inv'
<1>1. JobsCalm(jobs, jobs') /\ jobs' \in Seq(AJob)
    BY JobsSame DEF FinalCalls, Typed
<1>2. Idle(stack, chain.sink)
    BY ScriptIdle DEF FinalCalls
<1> QED BY <1>1, <1>2, DestTells DEF FinalCalls, lineVars

LEMMA ScriptEndsStep == ASSUME Typed, Inv, ScriptEnds, UNCHANGED lineVars PROVE Typed' /\ Inv'
<1>1. JobsCalm(jobs, jobs) /\ jobs \in Seq(AJob)
    BY JobsSame DEF Typed
<1>2. Idle(stack, chain.sink)
    BY ScriptIdle DEF ScriptEnds, MayMeddle
<1>3. PICK lg \in Log : lg = Meddled("end") /\ LogCalm(log, lg) /\ "end" \in lg.meddled
  <2>1. log \in Log /\ "end" \in Words
      BY DEF Typed, Words
  <2> QED BY <2>1, LogMeddled
<1>4. DestEnds(jobs, lg) /\ Piping /\ UNCHANGED <<chain, r, held, stack, listening, rest>>
    BY <1>3 DEF ScriptEnds, lineVars
<1> QED BY <1>1, <1>2, <1>3, <1>4, DestEndsKeeps

-----------------------------------------------------------------------------
(* The end of a readable.                                                  *)

(* "end" comes.                                                            *)
LEMMA EndComes ==
    ASSUME Typed, Inv, JobComes("end"), NEW x, Head(jobs).at = x
    PROVE  /\ x \in Halves /\ Head(jobs) = Job("end", x) /\ r[x].endEmitted
           /\ Waits(jobs, Job("end", x)) /\ ~Waits(Tail(jobs), Job("end", x))
           /\ Tail(jobs) \in Seq(AJob) /\ JobsCalm(jobs, Tail(jobs))
           /\ Idle(stack, chain.sink) /\ stack = <<>>
<1>1. jobs \in Seq(AJob) /\ jobs # <<>> /\ Head(jobs).do = "end" /\ stack = <<>>
    BY DEF Typed, JobComes
<1>2. Head(jobs) \in AJob
    BY <1>1, JobsTail
<1>3. x \in Halves /\ Head(jobs) = Job("end", x)
    BY <1>1, <1>2 DEF AJob, Job
<1>4. Waits(jobs, Job("end", x)) /\ ~Waits(Tail(jobs), Job("end", x))
    BY <1>1, <1>3, JobsTail DEF Inv, EndsHold
<1>5. r[x].endEmitted
    BY <1>3, <1>4 DEF Inv, EndsHold
<1> QED BY <1>1, <1>3, <1>4, <1>5, JobsGone, ScriptIdle

LEMMA EndIsHeard ==
    ASSUME Typed, Inv, JobComes("end"), Head(jobs).at = Outlet, ~Piping, Outlet \in listening,
           log' = [log EXCEPT !.heard = Append(@, Null)], jobs' = Tail(jobs),
           listening' = StillListening \/ (listening' = listening /\ chain.sink # "iterator"),
           Plain(stack, stack', chain.sink), rest' \in Bytes, UNCHANGED <<chain, r, held, sink, watching>>
    PROVE  Typed' /\ Inv'
<1>1. /\ Outlet \in Halves /\ r[Outlet].endEmitted
      /\ Waits(jobs, Job("end", Outlet)) /\ ~Waits(jobs', Job("end", Outlet))
      /\ jobs' \in Seq(AJob) /\ JobsCalm(jobs, jobs')
    BY EndComes
<1>2. log \in Log /\ log.heard \in Heard /\ r \in [Halves -> Half]
    BY LogIs DEF Typed
<1>3. log' \in Log
  <2>1. Append(log.heard, Null) \in Heard
      BY <1>2, BytesNone, HeardMore
  <2> QED BY <1>2, <2>1, LogIs
<1>4. Typed'
    BY <1>1, <1>3, StillIs, SameChain DEF Typed, Plain
<1>5. /\ log'.heard = Append(log.heard, Null) /\ log'.told = log.told /\ log'.settled = log.settled
      /\ log'.made = log.made /\ log'.wrote = log.wrote /\ Grows
    BY <1>2 DEF Log, Grows
<1>6. HeardHolds'
  <2>1. Null \notin ToSet(log.heard)
      BY <1>1 DEF Inv, HeardHolds
  <2>2. LastHeard'
    <3>1. DOMAIN log'.heard = DOMAIN Append(log.heard, Null) /\ Null \in Bytes \cup {Failed}
        BY <1>5, BytesNone
    <3>2. \A i \in DOMAIN log.heard : log.heard[i] # Null
        BY <2>1 DEF ToSet
    <3> QED BY <1>2, <1>5, <3>1, <3>2, HearMore DEF LastHeard
  <2>3. chain.sink = "iterator" => Outlet \notin listening'
      BY DEF StillListening
  <2> QED BY <1>1, <1>5, <2>2, <2>3, SameChain DEF HeardHolds, Grows
<1>7. FlowsAreHeard' /\ EndsHold' /\ SinkHolds' /\ ToldHolds' /\ MiddleHolds'
    BY <1>1, <1>5, FlowsStay, EndsStay, SinkStays, ToldStays, MiddleStays
<1>8. EveryByteOnce'
  <2>1. Ate' = Ate
      BY <1>2, <1>5, AteMore DEF Ate
  <2> QED BY <1>5, <2>1, BytesStay
<1> QED BY <1>4, <1>6, <1>7, <1>8 DEF Inv

(* A job that nobody hears.                                                *)
LEMMA JobIsLost ==
    ASSUME Typed, Inv, jobs # <<>>, jobs' = Tail(jobs), Idle(stack, chain.sink),
           UNCHANGED <<chain, r, held, sink, listening, watching, stack, log, rest>>
    PROVE  Typed' /\ Inv'
<1>1. JobsCalm(jobs, jobs') /\ jobs' \in Seq(AJob)
    BY JobsGone DEF Typed
<1>2. Typed'
    BY <1>1, SameChain DEF Typed
<1>3. Calm
    BY <1>1, PlainSame, HalfSame, LogSame DEF Calm
<1> QED BY <1>2, <1>3, CalmKeeps

LEMMA EndOfOutletStep == ASSUME Typed, Inv, EndOfOutlet, UNCHANGED lineVars PROVE Typed' /\ Inv'
<1>1. JobComes("end") /\ Head(jobs).at = Outlet /\ jobs # <<>> /\ UNCHANGED <<chain, r, held, stack, rest>>
    BY DEF EndOfOutlet, JobComes, lineVars
<1>2. /\ r[Outlet].endEmitted /\ Tail(jobs) \in Seq(AJob) /\ JobsCalm(jobs, Tail(jobs))
      /\ Idle(stack, chain.sink)
    BY <1>1, EndComes
<1>3. CASE Outlet \notin listening
    BY <1>1, <1>2, <1>3, JobIsLost DEF EndOfOutlet
<1>4. CASE Outlet \in listening /\ Piping
  <2>1. PICK js \in Seq(AJob) : js = Tail(jobs) /\ JobsCalm(jobs, js)
      BY <1>2
  <2>2. PICK lg \in Log : lg = log /\ LogCalm(log, lg)
      BY LogSame DEF Typed
  <2>3. DestEnds(js, lg) /\ UNCHANGED listening
      BY <1>4, <2>1, <2>2 DEF EndOfOutlet
  <2> QED BY <1>1, <1>2, <1>4, <2>1, <2>2, <2>3, DestEndsKeeps
<1>5. CASE Outlet \in listening /\ ~Piping
  <2>1. rest' \in Bytes /\ Plain(stack, stack', chain.sink)
      BY <1>1, <1>2, PlainSame DEF Typed
  <2>2. /\ log' = [log EXCEPT !.heard = Append(@, Null)] /\ jobs' = Tail(jobs)
        /\ listening' = StillListening /\ UNCHANGED <<sink, watching>>
      BY <1>5 DEF EndOfOutlet
  <2> QED BY <1>1, <1>5, <2>1, <2>2, EndIsHeard
<1> QED BY <1>3, <1>4, <1>5

LEMMA EndOfInputStep == ASSUME Typed, Inv, EndOfInput PROVE Typed' /\ Inv'
<1>1. /\ JobComes("end") /\ Head(jobs).at = Outlet /\ Outlet \in listening /\ chain.sink = "lines" /\ ~Piping
      /\ UNCHANGED <<chain, r, held, sink, listening, watching>> /\ jobs' = Tail(jobs)
      /\ log' = [log EXCEPT !.heard = Append(@, Null)] /\ rest' = <<>>
    BY DEF EndOfInput, Interface, Piping
<1>2. Idle(stack, chain.sink) /\ stack = <<>>
    BY <1>1, EndComes
<1>3. rest' \in Bytes
    BY <1>1, BytesNone DEF Null
<1>4. Plain(stack, stack', chain.sink)
  <2>1. PICK s : s = Append(<<>>, Call("close", Outlet, Null))
      OBVIOUS
  <2>2. Plain(stack, s, chain.sink) /\ Idle(s, chain.sink) /\ ~HasPush(s) /\ ~HasEnd(s)
    <3>1. PICK c : c = Call("close", Outlet, Null)
        OBVIOUS
    <3>2. GoodCall(c, chain.sink) /\ IdleCall(c) /\ ~MidPush(c)
        BY <3>1, OutletIs, OtherIs
    <3>3. s = Append(<<>>, c)
        BY <2>1, <3>1
    <3>4. Idle(<<>>, chain.sink) /\ IsSeq(<<>>)
        BY IdleNone, NoneOf
    <3>5. Plain(<<>>, s, chain.sink) /\ Idle(s, chain.sink)
        BY <3>2, <3>3, <3>4, PlainAppend
    <3>6. ~HasPush(s) /\ ~HasEnd(s)
        BY <3>2, <3>3, <3>4, PushNone, PushAppend
    <3> QED BY <1>2, <3>5, <3>6
  <2>3. CASE rest = <<>>
    <3>1. stack' = s \o <<>>
        BY <2>1, <2>3, OneIs DEF EndOfInput
    <3>2. stack' = s
        BY <2>2, <3>1, JoinsNone DEF Idle
    <3> QED BY <2>2, <3>2
  <2>4. CASE rest # <<>>
    <3>1. PICK q, t : q = <<rest>> /\ t = LineCalls(<<rest>>)
        OBVIOUS
    <3>2. 1 \in Nat /\ DOMAIN q = 1..1 /\ Len(q) = 1
        BY <3>1
    <3>3. Idle(t, chain.sink) /\ ~HasPush(t)
        BY <3>1, <3>2, LineCallsIdle
    <3>4. stack' = s \o t
        BY <2>1, <2>4, <3>1, OneIs DEF EndOfInput
    <3>5. Idle(s \o t, chain.sink) /\ ~HasPush(s \o t) /\ ~HasEnd(s \o t)
        BY <2>2, <3>3, IdleJoin, PushJoin
    <3> QED BY <1>2, <3>4, <3>5, IdleIsSound, IdleCarries DEF Plain
  <2> QED BY <2>3, <2>4
<1> QED BY <1>1, <1>3, <1>4, EndIsHeard

-----------------------------------------------------------------------------
(* The transform.                                                          *)

(* A step that moves what is on its way through a transform.               *)
LEMMA MiddleMoves ==
    ASSUME Typed, Inv, UNCHANGED <<chain, r, sink, listening, watching, log, rest>>,
           held' \in [mid : Seq(Chunks), dst : Seq(Chunks)], Sound(stack', chain.sink),
           jobs' \in Seq(AJob), Once(jobs) => Once(jobs'),
           \A x \in Halves : Waits(jobs', Job("end", x)) => Waits(jobs, Job("end", x)),
           Waits(jobs', Job("finish", "dst")) => Waits(jobs, Job("finish", "dst")),
           MiddleHolds'
    PROVE  Typed' /\ Inv'
<1>1. Grows
    BY DEF Grows
<1>2. Typed'
    BY SameChain DEF Typed
<1>3. FlowsAreHeard'
    BY <1>1, FlowsStay
<1>4. EndsHold'
    BY DEF Inv, EndsHold
<1>5. SinkHolds'
    BY SameChain DEF Inv, SinkHolds
<1>6. HeardHolds'
  <2>1. Waits(jobs', Job("end", Outlet)) => Waits(jobs, Job("end", Outlet))
      BY OutletIs
  <2> QED BY <2>1, SameChain DEF Inv, HeardHolds, LastHeard
<1>7. ToldHolds'
    BY <1>1, ToldStays
<1>8. EveryByteOnce'
    BY <1>1, BytesStay DEF Ate
<1> QED BY <1>2, <1>3, <1>4, <1>5, <1>6, <1>7, <1>8 DEF Inv

LEMMA PushesOnTop ==
    ASSUME NEW s, NEW kind, Idle(s, kind), NEW ch \in Bytes
    PROVE  /\ Sound(Append(s, Call("push", "mid", ch)), kind)
           /\ HasPush(Append(s, Call("push", "mid", ch)))
           /\ HasEnd(Append(s, Call("push", "mid", ch))) <=> HasEnd(s) \/ ch = Null
           /\ Carried(Append(s, Call("push", "mid", ch))) = ch
           /\ ch = Null => Idle(Append(s, Call("push", "mid", ch)), kind)
<1>1. PICK c : c = Call("push", "mid", ch)
    OBVIOUS
<1>2. MidPush(c) /\ c.chunk = ch
    BY <1>1, CallIs DEF MidPush
<1>3. GoodCall(c, kind) /\ (ch = Null => IdleCall(c))
    BY <1>1, PushIs DEF Halves
<1>4. IsSeq(s)
    BY DEF Idle
<1> QED BY <1>1, <1>2, <1>3, <1>4, IdlePush, PushAppend

LEMMA EndOfSourceStep == ASSUME Typed, Inv, EndOfSource, UNCHANGED lineVars PROVE Typed' /\ Inv'
<1>1. /\ JobComes("end") /\ Head(jobs).at = "src" /\ jobs # <<>> /\ Outlet = "mid"
      /\ UNCHANGED <<chain, r, held, sink, listening, watching, log, rest>>
    BY DEF EndOfSource, JobComes, lineVars
<1>2. /\ r["src"].endEmitted /\ Tail(jobs) \in Seq(AJob) /\ JobsCalm(jobs, Tail(jobs))
      /\ ~Waits(Tail(jobs), Job("end", "src"))
      /\ Idle(stack, chain.sink) /\ stack = <<>>
    BY <1>1, EndComes
<1>3. PICK js \in Seq(AJob) : js = Tail(jobs)
    BY <1>2
<1>4. /\ \A x \in Halves : Waits(js, Job("end", x)) => Waits(jobs, Job("end", x))
      /\ Waits(js, Job("finish", "dst")) => Waits(jobs, Job("finish", "dst"))
      /\ Waits(js, Job("finish", "mid")) => Waits(jobs, Job("finish", "mid"))
      /\ Once(jobs) => Once(js)
    BY <1>2, <1>3, JobParts DEF JobsCalm
<1>5. log \in Log /\ log.wrote.mid \in Bytes /\ held \in [mid : Seq(Chunks), dst : Seq(Chunks)]
    BY LogIs DEF Typed
<1>6. CASE "src" \notin listening
    BY <1>1, <1>2, <1>6, JobIsLost DEF EndOfSource
<1>7. CASE "src" \in listening /\ chain.middle = "collect"
  <2>0. PICK b \in Bytes : b = log.wrote.mid
      BY <1>5
  <2>1. PICK s : s = Append(<<>>, Call("push", "mid", Null))
      OBVIOUS
  <2>2. stack' = Append(s, Call("push", "mid", b)) /\ jobs' = js
      BY <1>3, <1>7, <2>0, <2>1, TwoAre DEF EndOfSource
  <2>3. Idle(s, chain.sink)
      BY <2>1, BytesNone, IdleNone, PushesOnTop
  <2>4. Sound(stack', chain.sink) /\ HasPush(stack') /\ Carried(stack') = b
      BY <2>2, <2>3, PushesOnTop
  <2>5. MiddleHolds'
    <3>1. ASSUME Quiet PROVE MiddleEnds' /\ CollectWaits' /\ MiddleKeeps' /\ (r["mid"].ended => Carried(stack') = <<>>)
                             /\ held'.mid = held.mid
      <4>1. MiddleEnds /\ log.made["mid"] = <<>> /\ ~r["mid"].ended
          BY <1>1, <1>2, <1>7, <3>1, EndComes DEF Inv, MiddleHolds, CollectWaits
      <4>2. MiddleEnds'
          BY <1>1, <1>2, <1>4, <2>2, <4>1 DEF MiddleEnds
      <4>3. CollectWaits'
          BY <1>1, <1>2, <1>3, <2>2 DEF CollectWaits
      <4>4. <<>> \o b = b
          BY ConcatEmptySeq DEF Bytes
      <4>5. MiddleKeeps'
          BY <1>1, <1>7, <2>0, <2>4, <4>1, <4>4 DEF MiddleKeeps
      <4> QED BY <1>1, <4>1, <4>2, <4>3, <4>5
    <3> QED BY <1>1, <3>1, SameChain DEF Inv, MiddleHolds, Quiet
  <2> QED BY <1>1, <1>4, <1>5, <2>2, <2>4, <2>5, MiddleMoves
<1>8. CASE "src" \in listening /\ chain.middle # "collect"
  <2>1. PICK c \in AJob : c = Job("finish", "mid") /\ c.do = "finish"
      BY JobIs
  <2>2. jobs' = Append(js, c) /\ UNCHANGED stack
      BY <1>3, <1>8, <2>1 DEF EndOfSource
  <2>3. /\ jobs' \in Seq(AJob)
        /\ \A j : Waits(jobs', j) <=> Waits(js, j) \/ j = c
        /\ Once(js) => Once(jobs')
      BY <2>1, <2>2, JobsAppend
  <2>4. c # Job("finish", "dst") /\ \A x \in Halves : c # Job("end", x)
      BY <2>1, JobParts DEF Job
  <2>5. /\ \A x \in Halves : Waits(jobs', Job("end", x)) => Waits(jobs, Job("end", x))
        /\ Waits(jobs', Job("finish", "dst")) => Waits(jobs, Job("finish", "dst"))
        /\ Once(jobs) => Once(jobs')
      BY <1>4, <2>3, <2>4
  <2>6. MiddleHolds'
    <3>1. ASSUME Quiet PROVE MiddleEnds' /\ CollectWaits' /\ MiddleKeeps'
      <4>1. MiddleEnds /\ MiddleKeeps
          BY <1>1, <3>1 DEF Inv, MiddleHolds
      <4>2. MiddleEnds'
          BY <1>1, <1>2, <1>8, <2>2, <4>1 DEF MiddleEnds
      <4>3. CollectWaits'
          BY <1>1, <1>8 DEF CollectWaits
      <4>4. MiddleKeeps'
          BY <1>1, <2>2, <4>1 DEF MiddleKeeps
      <4> QED BY <4>2, <4>3, <4>4
    <3> QED BY <1>1, <2>2, <3>1, SameChain DEF Inv, MiddleHolds, Quiet
  <2>7. Sound(stack', chain.sink)
      BY <2>2 DEF Typed
  <2> QED BY <1>1, <1>5, <2>3, <2>5, <2>6, <2>7, MiddleMoves
<1> QED BY <1>6, <1>7, <1>8

LEMMA TransformFinishesStep == ASSUME Typed, Inv, TransformFinishes, UNCHANGED lineVars PROVE Typed' /\ Inv'
<1>1. /\ jobs \in Seq(AJob) /\ jobs # <<>> /\ Head(jobs).do = "finish" /\ Head(jobs).at = "mid" /\ stack = <<>>
      /\ UNCHANGED <<chain, r, held, sink, listening, watching, log, rest>> /\ jobs' = Tail(jobs)
    BY DEF TransformFinishes, JobComes, Typed, lineVars
<1>2. Head(jobs) \in AJob /\ JobsCalm(jobs, jobs') /\ jobs' \in Seq(AJob)
    BY <1>1, JobsTail, JobsGone
<1>3. Waits(jobs, Job("finish", "mid"))
  <2>1. Head(jobs) = Job("finish", "mid")
      BY <1>1, <1>2 DEF AJob, Job
  <2> QED BY <1>1, <2>1, JobsTail
<1>4. /\ \A x \in Halves : Waits(jobs', Job("end", x)) => Waits(jobs, Job("end", x))
      /\ Waits(jobs', Job("finish", "dst")) => Waits(jobs, Job("finish", "dst"))
      /\ Waits(jobs', Job("finish", "mid")) => Waits(jobs, Job("finish", "mid"))
      /\ Once(jobs) => Once(jobs')
    BY <1>2, JobParts DEF JobsCalm
<1>5. stack' = Append(<<>>, Call("push", "mid", Null))
    BY OneIs DEF TransformFinishes
<1>6. Sound(stack', chain.sink) /\ Carried(stack') = <<>>
    BY <1>5, BytesNone, IdleNone, PushesOnTop DEF Null
<1>7. MiddleHolds'
  <2>1. ASSUME Outlet = "mid", Quiet PROVE MiddleEnds' /\ CollectWaits' /\ MiddleKeeps'
    <3>1. MiddleEnds /\ MiddleKeeps
        BY <2>1 DEF Inv, MiddleHolds
    <3>2. r["src"].endEmitted /\ chain.middle # "collect"
        BY <1>3, <3>1 DEF MiddleEnds
    <3>3. MiddleEnds'
        BY <1>1, <3>2 DEF MiddleEnds
    <3>4. CollectWaits'
        BY <1>1, <3>2 DEF CollectWaits
    <3>5. Carried(stack) = <<>>
        BY <1>1, PushNone
    <3>6. MiddleKeeps'
        BY <1>1, <1>6, <3>1, <3>2, <3>5 DEF MiddleKeeps
    <3> QED BY <3>3, <3>4, <3>6
  <2> QED BY <1>1, <1>6, <2>1, SameChain DEF Inv, MiddleHolds, Quiet
<1>8. held \in [mid : Seq(Chunks), dst : Seq(Chunks)]
    BY DEF Typed
<1> QED BY <1>1, <1>2, <1>4, <1>6, <1>7, <1>8, MiddleMoves

LEMMA TransformAnswersStep == ASSUME Typed, Inv, TransformAnswers, UNCHANGED lineVars PROVE Typed' /\ Inv'
<1>1. PICK i \in DOMAIN held.mid : /\ held' = [held EXCEPT !.mid = RemoveAt(@, i)]
                                   /\ stack' = Append(stack, Call("push", "mid", held.mid[i]))
    BY DEF TransformAnswers
<1>2. /\ UNCHANGED <<chain, r, sink, listening, watching, jobs, log, rest>>
      /\ held \in [mid : Seq(Chunks), dst : Seq(Chunks)] /\ held.mid \in Seq(Chunks)
      /\ jobs \in Seq(AJob)
    BY DEF TransformAnswers, lineVars, Typed
<1>3. RemoveAt(held.mid, i) \in Seq(Chunks) /\ held.mid # <<>> /\ held.mid[i] \in Chunks
    BY <1>2, RemovedIs
<1>4. Idle(stack, chain.sink)
    BY ScriptIdle DEF TransformAnswers
<1>5. PICK ch \in Chunks : ch = held.mid[i]
    BY <1>3
<1>6. ch \in Bytes /\ ch # Null
    BY DEF Chunks
<1>7. Sound(stack', chain.sink) /\ (HasEnd(stack') => HasEnd(stack))
    BY <1>1, <1>4, <1>5, <1>6, PushesOnTop
<1>8. held' \in [mid : Seq(Chunks), dst : Seq(Chunks)]
    BY <1>1, <1>2, <1>3
<1>9. MiddleHolds'
  <2>1. ASSUME Outlet = "mid", Quiet PROVE MiddleEnds' /\ CollectWaits' /\ MiddleKeeps' /\ chain.middle = "later"
    <3>1. MiddleEnds /\ chain.middle = "later"
        BY <1>3, <2>1 DEF Inv, MiddleHolds
    <3>2. MiddleEnds'
        BY <1>2, <1>7, <3>1 DEF MiddleEnds
    <3>3. CollectWaits' /\ MiddleKeeps'
        BY <1>2, <3>1 DEF CollectWaits, MiddleKeeps
    <3> QED BY <3>1, <3>2, <3>3
  <2> QED BY <1>2, <2>1, SameChain DEF Inv, MiddleHolds, Quiet
<1> QED BY <1>2, <1>7, <1>8, <1>9, MiddleMoves

-----------------------------------------------------------------------------
(* push().                                                                 *)

(* push() of a chunk.                                                      *)
LEMMA ChunkIsPushed ==
    ASSUME Typed, Inv, Pushes, NEW x \in Halves, x = Top.at, Top.chunk # Null, UNCHANGED rest
    PROVE  Typed' /\ Inv'
<1>1. PICK c \in Chunks : c = Top.chunk
  <2>1. GoodCall(Top, chain.sink) /\ Top.do = "push"
      BY SoundTop DEF Typed, Pushes, Running, Top
  <2> QED BY <2>1 DEF GoodCall, Chunks
<1>2. c \in Bytes /\ c # Null
    BY DEF Chunks
<1>3. PICK q : q = [r[x] EXCEPT !.buf = Append(@, c)]
    OBVIOUS
<1>4. /\ r' = [r EXCEPT ![x] = q]
      /\ stack' = Front(stack) \o IF q.flowing THEN <<Call("drain", x, Null)>> ELSE <<>>
      /\ log' = [log EXCEPT !.made[x] = @ \o c,
                            !.meddled = IF q.ended THEN @ \cup {"late"} ELSE @]
      /\ UNCHANGED <<chain, held, sink, listening, watching, jobs, rest>>
    BY <1>1, <1>3 DEF Pushes
<1>5. /\ r \in [Halves -> Half] /\ r[x] \in Half /\ r[x].buf \in Seq(Chunks) /\ log \in Log
      /\ log.made \in [Halves -> Bytes] /\ log.made[x] \in Bytes /\ log.meddled \in SUBSET Words
    BY LogIs, HalfIs DEF Typed
<1>6. /\ q \in Half /\ q.buf = Append(r[x].buf, c)
      /\ q.flowing = r[x].flowing /\ q.ended = r[x].ended /\ q.endEmitted = r[x].endEmitted
  <2>1. Append(r[x].buf, c) \in Seq(Chunks)
      BY <1>5
  <2> QED BY <1>3, <1>5, <2>1 DEF Half
<1>7. /\ r' \in [Halves -> Half] /\ r'[x] = q
      /\ \A y \in Halves : y # x => r'[y] = r[y]
      /\ \A y \in Halves : /\ r'[y].flowing = r[y].flowing /\ r'[y].ended = r[y].ended
                          /\ r'[y].endEmitted = r[y].endEmitted
    BY <1>4, <1>5, <1>6
<1>8. /\ log' \in Log
      /\ log'.made[x] = log.made[x] \o c /\ \A y \in Halves : y # x => log'.made[y] = log.made[y]
      /\ log'.wrote = log.wrote /\ log'.heard = log.heard /\ log'.told = log.told /\ log'.settled = log.settled
      /\ log.meddled \subseteq log'.meddled
      /\ r[x].ended => "late" \in log'.meddled
      /\ log'.meddled \subseteq log.meddled \cup {"late"}
  <2>1. log.made[x] \o c \in Bytes
      BY <1>2, <1>5, BytesJoin
  <2>2. PICK m \in SUBSET Words : m = IF q.ended THEN log.meddled \cup {"late"} ELSE log.meddled
    <3>1. log.meddled \cup {"late"} \in SUBSET Words
        BY <1>5 DEF Words
    <3> QED BY <1>5, <3>1
  <2>3. log' = [log EXCEPT !.made[x] = log.made[x] \o c, !.meddled = m]
      BY <1>4, <2>2
  <2>4. log' \in Log
      BY <1>5, <2>1, <2>3, LogIs
  <2> QED BY <1>5, <1>6, <2>2, <2>3, <2>4 DEF Log
<1>9. Grows
    BY <1>4, <1>8 DEF Grows
<1>10. /\ stack # <<>> /\ IsSeq(stack) /\ Sound(stack, chain.sink)
       /\ Idle(Front(stack), chain.sink) /\ IsSeq(Front(stack))
    BY SoundFront DEF Typed, Pushes, Running, Sound, Idle
<1>11. /\ Sound(stack', chain.sink) /\ Carried(stack') = <<>>
       /\ HasPush(stack') => HasPush(Front(stack))
       /\ HasEnd(stack') => HasEnd(Front(stack))
  <2>1. PICK d : d = Call("drain", x, Null)
      OBVIOUS
  <2>2. GoodCall(d, chain.sink) /\ IdleCall(d) /\ ~MidPush(d)
      BY <2>1, OtherIs
  <2>3. stack' = Front(stack) \/ stack' = Append(Front(stack), d)
      BY <1>4, <1>10, <2>1, JoinsNone, JoinsOne
  <2>4. Plain(Front(stack), Append(Front(stack), d), chain.sink) /\ Plain(Front(stack), Front(stack), chain.sink)
      BY <1>10, <2>2, PlainAppend, PlainSame
  <2> QED BY <2>3, <2>4 DEF Plain
<1>12. /\ HasPush(stack) <=> HasPush(Front(stack)) \/ x = "mid"
       /\ HasEnd(stack) <=> HasEnd(Front(stack))
       /\ Carried(stack) = IF x = "mid" THEN c ELSE <<>>
  <2>1. MidPush(stack[Len(stack)]) <=> x = "mid"
      BY DEF MidPush, Pushes, Running, Top
  <2>2. stack[Len(stack)].chunk = c
      BY <1>1 DEF Top
  <2>3. HasPush(stack) <=> HasPush(Front(stack)) \/ MidPush(stack[Len(stack)])
      BY <1>10, PushFront
  <2>4. HasEnd(stack) <=> HasEnd(Front(stack)) \/ (MidPush(stack[Len(stack)]) /\ stack[Len(stack)].chunk = Null)
      BY <1>10, PushFront
  <2>5. Carried(stack) = IF x = "mid" THEN c ELSE <<>>
      BY <1>10, <2>1, <2>2 DEF Carried
  <2> QED BY <1>2, <2>1, <2>2, <2>3, <2>4, <2>5
<1>13. Typed'
    BY <1>4, <1>7, <1>8, <1>11, SameChain DEF Typed
<1>14. FlowsAreHeard'
    BY <1>4, <1>7, <1>9, FlowsStay
<1>15. EndsHold'
  <2>1. \A y \in Halves : r'[y].endEmitted => r'[y].ended /\ (r'[y].buf = <<>> \/ "late" \in log'.meddled)
      BY <1>7, <1>8 DEF Inv, EndsHold
  <2> QED BY <1>4, <1>7, <2>1 DEF Inv, EndsHold
<1>16. SinkHolds' /\ HeardHolds'
    BY <1>4, <1>7, <1>8, <1>9, JobsSame, OutletIs, SinkStays, HeardStays
<1>17. ToldHolds'
    BY <1>4, <1>8, <1>9, ToldStays
<1>18. MiddleHolds'
  <2>1. ASSUME Outlet = "mid", Quiet'
        PROVE MiddleEnds' /\ CollectWaits' /\ MiddleKeeps' /\ (chain.middle # "later" => held.mid = <<>>)
    <3>1. Quiet
        BY <1>8, <2>1 DEF Quiet
    <3>2. MiddleEnds /\ CollectWaits /\ MiddleKeeps /\ (chain.middle # "later" => held.mid = <<>>)
        BY <2>1, <3>1 DEF Inv, MiddleHolds
    <3>3. "mid" \in Halves /\ "src" \in Halves
        BY DEF Halves
    <3>4. MiddleEnds'
        BY <1>4, <1>7, <1>11, <1>12, <3>2, <3>3 DEF MiddleEnds
    <3>5. CollectWaits'
      <4>1. /\ chain' = chain /\ jobs' = jobs
            /\ r'["src"].endEmitted = r["src"].endEmitted /\ r'["mid"].ended = r["mid"].ended
          BY <1>4, <1>7, <3>3
      <4>2. x = "mid" => HasPush(stack)
          BY <1>12
      <4>3. x # "mid" => log'.made["mid"] = log.made["mid"] /\ (HasPush(stack') => HasPush(stack))
          BY <1>8, <1>11, <1>12, <3>3
      <4> QED BY <3>2, <4>1, <4>2, <4>3 DEF CollectWaits
    <3>6. MiddleKeeps'
      <4>1. CASE x = "mid"
        <5>1. log'.made["mid"] = log.made["mid"] \o c /\ Carried(stack) = c /\ HasPush(stack)
            BY <1>8, <1>12, <4>1
        <5>2. log'.made["mid"] \in Bytes
            BY <1>8, <3>3 DEF Log
        <5>3. log'.made["mid"] \o <<>> = log'.made["mid"]
            BY <5>2, ConcatEmptySeq DEF Bytes
        <5>4. chain.middle \in {"map", "collect"} => log.wrote.mid = log'.made["mid"]
            BY <3>2, <5>1 DEF MiddleKeeps
        <5>5. chain' = chain /\ log'.wrote = log.wrote /\ Carried(stack') = <<>>
            BY <1>4, <1>8, <1>11
        <5> QED BY <5>3, <5>4, <5>5 DEF MiddleKeeps
      <4>2. CASE x # "mid"
        <5>1. log'.made["mid"] = log.made["mid"] /\ Carried(stack) = <<>>
            BY <1>8, <1>12, <3>3, <4>2
        <5>2. (HasPush(stack') => HasPush(stack)) /\ r'["mid"].ended = r["mid"].ended
            BY <1>7, <1>11, <1>12, <3>3
        <5>3. chain' = chain /\ log'.wrote = log.wrote /\ Carried(stack') = <<>>
            BY <1>4, <1>8, <1>11
        <5> QED BY <3>2, <5>1, <5>2, <5>3 DEF MiddleKeeps
      <4> QED BY <4>1, <4>2
    <3> QED BY <3>2, <3>4, <3>5, <3>6
  <2> QED BY <1>4, <1>11, <2>1, SameChain DEF MiddleHolds
<1>19. EveryByteOnce'
  <2>1. ASSUME NEW a \in Bytes, NEW y \in Halves, log.made[y] = a \o Buffered(y)
        PROVE  log'.made[y] = a \o Buffered(y)'
    <3>1. CASE y = x
      <4>1. Joined(log.made[x], a, FlattenSeq(r[x].buf)) /\ Joined(log'.made[x], log.made[x], c)
          BY <1>8, <2>1, <3>1 DEF Joined, Buffered
      <4>2. Joined(log'.made[x], a, FlattenSeq(Append(r[x].buf, c)))
          BY <1>5, <4>1, KeptByPush
      <4> QED BY <1>6, <1>7, <3>1, <4>2 DEF Joined, Buffered
    <3>2. CASE y # x
        BY <1>7, <1>8, <2>1, <3>2 DEF Buffered
    <3> QED BY <3>1, <3>2
  <2>2. log.wrote.mid \in Bytes /\ log.wrote.dst \in Bytes /\ Ate \in Bytes
      BY <1>5, LogIs, AteMore DEF Ate
  <2>3. Ate' = Ate /\ Outlet' = Outlet /\ Piping' = Piping /\ Outlet \in Halves /\ "src" \in Halves
      BY <1>4, <1>8, SameChain, OutletIs DEF Ate, Halves
  <2>4. (Outlet = "mid" /\ "unpipe" \notin log.meddled => log.made.src = log.wrote.mid \o Buffered("src"))'
    <3>1. PICK a \in Bytes, y \in Halves : a = log.wrote.mid /\ y = "src"
        BY <2>2, <2>3
    <3>2. log.made[y] = a \o Buffered(y) => log'.made[y] = a \o Buffered(y)'
        BY <2>1
    <3> QED BY <1>8, <2>3, <3>1, <3>2 DEF Inv, EveryByteOnce
  <2>5. (Piping /\ log.meddled \cap {"unpipe", "late", "end", "destroy"} = {} =>
             log.made[Outlet] = log.wrote.dst \o Buffered(Outlet))'
    <3>1. PICK a \in Bytes, y \in Halves : a = log.wrote.dst /\ y = Outlet
        BY <2>2, <2>3
    <3>2. log.made[y] = a \o Buffered(y) => log'.made[y] = a \o Buffered(y)'
        BY <2>1
    <3> QED BY <1>8, <2>3, <3>1, <3>2 DEF Inv, EveryByteOnce
  <2>6. (chain.sink \in {"listener", "reader", "lines"} => log.made[Outlet] = Ate \o Buffered(Outlet))'
    <3>1. PICK a \in Bytes, y \in Halves : a = Ate /\ y = Outlet
        BY <2>2, <2>3
    <3>2. log.made[y] = a \o Buffered(y) => log'.made[y] = a \o Buffered(y)'
        BY <2>1
    <3> QED BY <1>4, <2>3, <3>1, <3>2 DEF Inv, EveryByteOnce
  <2> QED BY <2>4, <2>5, <2>6 DEF EveryByteOnce
<1> QED BY <1>13, <1>14, <1>15, <1>16, <1>17, <1>18, <1>19 DEF Inv

LEMMA PushesStep == ASSUME Typed, Inv, Pushes, UNCHANGED lineVars PROVE Typed' /\ Inv'
<1>1. GoodCall(Top, chain.sink) /\ Top.do = "push" /\ Sound(stack, chain.sink) /\ stack # <<>> /\ IsSeq(stack)
    BY SoundTop DEF Typed, Pushes, Running, Top, Sound
<1>2. PICK x \in Halves : x = Top.at
    BY <1>1 DEF GoodCall
<1>3. UNCHANGED rest
    BY DEF lineVars
<1>4. CASE Top.chunk # Null
    BY <1>2, <1>3, <1>4, ChunkIsPushed
<1>5. CASE Top.chunk = Null
  <2>1. PICK p : p = [r[x] EXCEPT !.ended = TRUE]
      OBVIOUS
  <2>2. p \in Half /\ r[x] \in Half
      BY <2>1, HalfIs DEF Typed
  <2>3. p.buf = r[x].buf /\ p.ended = TRUE /\ p.endEmitted = r[x].endEmitted /\ p.flowing = r[x].flowing
      BY <2>1, <2>2 DEF Half
  <2>4. /\ r' = [r EXCEPT ![x] = MaybeEnded(p)] /\ jobs' = jobs \o EndJob(x, p) /\ stack' = Front(stack)
        /\ UNCHANGED <<chain, held, sink, listening, watching, log, rest>>
      BY <1>2, <1>3, <1>5, <2>1 DEF Pushes
  <2>5. Ending(x, p)
      BY <2>3, <2>4 DEF Ending
  <2>6. Plain(stack, Front(stack), chain.sink)
    <3>1. Idle(Front(stack), chain.sink)
        BY <1>1, SoundFront
    <3>2. Carried(stack) = <<>>
        BY <1>5 DEF Carried, Top, Null
    <3> QED BY <1>1, <3>1, <3>2, PushFront, IdleIsSound, IdleCarries DEF Plain
  <2>7. x = "mid" => HasEnd(stack)
      BY <1>1, <1>2, <1>5, PushFront DEF MidPush, Top
  <2>8. HasEnd(stack) \/ x = "src"
      BY <2>7 DEF Halves
  <2> QED BY <2>2, <2>3, <2>4, <2>5, <2>6, <2>8, EndingKeeps
<1> QED BY <1>4, <1>5

-----------------------------------------------------------------------------
(* Chunks that flow.                                                       *)

(* A chunk is taken out of a buffer.                                       *)
Takes(x) ==
    /\ r[x].buf # <<>>
    /\ \/ r' = [r EXCEPT ![x] = [r[x] EXCEPT !.buf = Tail(@)]]
       \/ r' = [r EXCEPT ![x] = [r[x] EXCEPT !.buf = Tail(@), !.flowing = FALSE]]

LEMMA TakenIs ==
    ASSUME Typed, Inv, NEW x \in Halves, Takes(x)
    PROVE  /\ r' \in [Halves -> Half]
           /\ r'[x].buf = Tail(r[x].buf)
           /\ \A y \in Halves : y # x => r'[y] = r[y]
           /\ \A y \in Halves : /\ r'[y].endEmitted = r[y].endEmitted /\ r'[y].ended = r[y].ended
                                /\ r'[y].flowing => r[y].flowing
                                /\ r[y].buf = <<>> => r'[y].buf = <<>>
           /\ r[x].endEmitted => "late" \in log.meddled
           /\ Chunk(x) \in Chunks /\ Chunk(x) \in Bytes /\ Chunk(x) # Null /\ Chunk(x) # Failed
<1>1. r \in [Halves -> Half] /\ r[x] \in Half /\ r[x].buf \in Seq(Chunks) /\ r[x].buf # <<>>
    BY HalfIs DEF Typed, Takes
<1>2. Tail(r[x].buf) \in Seq(Chunks) /\ Head(r[x].buf) \in Chunks
    BY <1>1
<1>3. PICK q \in Half : /\ r' = [r EXCEPT ![x] = q]
                        /\ q.buf = Tail(r[x].buf) /\ q.endEmitted = r[x].endEmitted /\ q.ended = r[x].ended
                        /\ q.flowing => r[x].flowing
  <2>1. PICK p : p = [r[x] EXCEPT !.buf = Tail(@)]
      OBVIOUS
  <2>2. PICK s : s = [r[x] EXCEPT !.buf = Tail(@), !.flowing = FALSE]
      OBVIOUS
  <2>3. /\ p \in Half /\ p.buf = Tail(r[x].buf) /\ p.endEmitted = r[x].endEmitted
        /\ p.ended = r[x].ended /\ (p.flowing => r[x].flowing)
      BY <1>1, <1>2, <2>1 DEF Half
  <2>4. /\ s \in Half /\ s.buf = Tail(r[x].buf) /\ s.endEmitted = r[x].endEmitted
        /\ s.ended = r[x].ended /\ (s.flowing => r[x].flowing)
      BY <1>1, <1>2, <2>2 DEF Half
  <2>5. r' = [r EXCEPT ![x] = p] \/ r' = [r EXCEPT ![x] = s]
      BY <2>1, <2>2 DEF Takes
  <2> QED BY <2>3, <2>4, <2>5
<1>4. r' \in [Halves -> Half] /\ r'[x] = q /\ \A y \in Halves : y # x => r'[y] = r[y]
    BY <1>1, <1>3
<1>5. r[x].endEmitted => "late" \in log.meddled
    BY <1>1 DEF Inv, EndsHold
<1> QED BY <1>1, <1>2, <1>3, <1>4, <1>5, BytesOf DEF Chunk, Chunks

LEMMA FlowTakes ==
    ASSUME Typed, NEW x \in Halves, Flows(x), r' = Taken(x)
    PROVE  Takes(x) /\ Idle(stack, chain.sink) /\ Plain(stack, stack, chain.sink) /\ IsSeq(stack)
<1>1. Idle(stack, chain.sink)
    BY RunsIdle DEF Flows
<1> QED BY <1>1, PlainSame DEF Takes, Taken, Flows, Idle

LEMMA TakenBytes ==
    ASSUME Typed, Inv, NEW x \in Halves, Takes(x), NEW a \in Bytes, NEW b, NEW m \in Bytes,
           m = a \o Buffered(x), Joined(b, a, Chunk(x))
    PROVE  m = b \o Buffered(x)'
<1>1. r[x].buf \in Seq(Chunks) /\ r[x].buf # <<>> /\ r'[x].buf = Tail(r[x].buf)
    BY TakenIs, HalfIs DEF Typed, Takes
<1>2. Joined(m, a, FlattenSeq(r[x].buf)) /\ Joined(b, a, Head(r[x].buf))
    BY DEF Joined, Buffered, Chunk
<1>3. Joined(m, b, FlattenSeq(Tail(r[x].buf)))
    BY <1>1, <1>2, KeptByTake
<1> QED BY <1>1, <1>3 DEF Joined, Buffered

(* What the invariants say of a step that takes a chunk of x.              *)
LEMMA TakeStays ==
    ASSUME Typed, Inv, NEW x \in Halves, Takes(x), Grows, sink' = sink, JobsCalm(jobs, jobs'),
           listening' = listening \/ listening' = StillListening
    PROVE  FlowsAreHeard' /\ EndsHold' /\ SinkHolds'
<1>1. \A y \in Halves : /\ r'[y].endEmitted = r[y].endEmitted /\ r'[y].ended = r[y].ended
                        /\ r'[y].flowing => r[y].flowing
                        /\ r[y].buf = <<>> => r'[y].buf = <<>>
    BY TakenIs
<1> QED BY <1>1, OutletIs, FlowsStay, EndsStay, SinkStays

(* Once the sink has ended, nothing is taken unless the script is at fault. *)
LEMMA OpenTakes ==
    ASSUME Typed, Inv, Takes(Outlet), sink # "open"
    PROVE  log.meddled \cap {"late", "end", "destroy"} # {}
BY TakenIs, OutletIs DEF Inv, SinkHolds

LEMMA DataToTransformStep == ASSUME Typed, Inv, DataToTransform, UNCHANGED lineVars PROVE Typed' /\ Inv'
<1>1. /\ Outlet = "mid" /\ "src" \in Halves /\ "mid" \in Halves
      /\ UNCHANGED <<chain, sink, listening, watching, jobs, rest>>
      /\ Takes("src") /\ Idle(stack, chain.sink)
    BY FlowTakes DEF DataToTransform, Halves, lineVars
<1>2. PICK c \in Chunks : c = Chunk("src") /\ c \in Bytes /\ c # Null
    BY <1>1, TakenIs
<1>3. /\ log \in Log /\ log.wrote.mid \in Bytes /\ log.wrote.dst \in Bytes /\ log.made \in [Halves -> Bytes]
      /\ held \in [mid : Seq(Chunks), dst : Seq(Chunks)] /\ r \in [Halves -> Half]
    BY LogIs DEF Typed
<1>4. /\ log' \in Log /\ Joined(log'.wrote.mid, log.wrote.mid, c) /\ log'.wrote.dst = log.wrote.dst
      /\ log'.made = log.made /\ log'.heard = log.heard /\ log'.told = log.told /\ log'.settled = log.settled
      /\ log'.meddled = log.meddled
  <2>1. log.wrote.mid \o c \in Bytes
      BY <1>2, <1>3, BytesJoin
  <2>2. log' = [log EXCEPT !.wrote.mid = log.wrote.mid \o c]
      BY <1>2 DEF DataToTransform
  <2>3. log' \in Log
      BY <1>3, <2>1, <2>2, LogIs
  <2> QED BY <1>3, <2>2, <2>3 DEF Log, Joined
<1>5. Grows
    BY <1>1, <1>4 DEF Grows
<1>6. held' \in [mid : Seq(Chunks), dst : Seq(Chunks)] /\ (chain.middle # "later" => held' = held)
  <2>1. held.mid \in Seq(Chunks)
      BY <1>3
  <2>2. Append(held.mid, c) \in Seq(Chunks)
      BY <2>1
  <2>3. held' = held \/ (held' = [held EXCEPT !.mid = Append(held.mid, c)] /\ chain.middle = "later")
      BY <1>2 DEF DataToTransform
  <2> QED BY <1>3, <2>2, <2>3
<1>7. /\ Sound(stack', chain.sink) /\ (HasEnd(stack') => HasEnd(stack))
      /\ chain.middle = "map" => Carried(stack') = c
      /\ chain.middle # "map" => stack' = stack
    BY <1>1, <1>2, PushesOnTop, IdleIsSound DEF DataToTransform
<1>8. Typed'
    BY <1>1, <1>4, <1>6, <1>7, TakenIs, SameChain DEF Typed
<1>9. FlowsAreHeard' /\ EndsHold' /\ SinkHolds' /\ HeardHolds' /\ ToldHolds'
    BY <1>1, <1>4, <1>5, JobsSame, OutletIs, TakenIs, TakeStays, HeardStays, ToldStays
<1>10. MiddleHolds'
  <2>1. ASSUME Quiet PROVE /\ MiddleEnds' /\ CollectWaits' /\ MiddleKeeps' /\ ~r'["mid"].ended
                           /\ (chain.middle # "later" => held'.mid = <<>>)
    <3>1. MiddleEnds /\ CollectWaits /\ MiddleKeeps /\ (chain.middle # "later" => held.mid = <<>>)
        BY <1>1, <2>1 DEF Inv, MiddleHolds
    <3>2. ~r["src"].endEmitted
        BY <1>1, <2>1, TakenIs DEF Quiet
    <3>3. r'["mid"].ended = r["mid"].ended /\ r'["src"].endEmitted = r["src"].endEmitted
        BY <1>1, TakenIs
    <3>4. ~r["mid"].ended /\ MiddleEnds'
        BY <1>1, <1>7, <3>1, <3>2, <3>3 DEF MiddleEnds
    <3>5. CollectWaits'
        BY <1>1, <1>4, <1>7, <3>1, <3>2, <3>3 DEF CollectWaits
    <3>6. MiddleKeeps'
      <4>1. CASE chain.middle = "map"
        <5>1. Carried(stack) = <<>>
            BY <1>1, IdleCarries
        <5>2. log.made["mid"] \in Bytes
            BY <1>1, <1>3
        <5>3. log.made["mid"] \o <<>> = log.made["mid"]
            BY <5>2, ConcatEmptySeq DEF Bytes
        <5>4. log.wrote.mid = log.made["mid"]
            BY <3>1, <4>1, <5>1, <5>3 DEF MiddleKeeps
        <5> QED BY <1>1, <1>4, <1>7, <4>1, <5>4 DEF MiddleKeeps, Joined
      <4>2. CASE chain.middle # "map"
          BY <1>1, <1>7, <3>1, <3>2, <3>3, <3>4, <4>2 DEF MiddleKeeps, CollectWaits
      <4> QED BY <4>1, <4>2
    <3> QED BY <1>6, <3>1, <3>3, <3>4, <3>5, <3>6
  <2> QED BY <1>1, <1>4, <2>1, SameChain DEF MiddleHolds, Quiet
<1>11. EveryByteOnce'
  <2>1. Ate' = Ate /\ Outlet' = Outlet /\ Piping' = Piping
      BY <1>1, <1>4, SameChain DEF Ate
  <2>2. Buffered("mid")' = Buffered("mid")
      BY <1>1, TakenIs DEF Buffered
  <2>3. log.made["src"] = log.wrote.mid \o Buffered("src") => log.made["src"] = log'.wrote.mid \o Buffered("src")'
    <3>1. PICK a \in Bytes, m \in Bytes : a = log.wrote.mid /\ m = log.made["src"]
        BY <1>1, <1>3
    <3>2. PICK b : b = log'.wrote.mid
        OBVIOUS
    <3>3. Joined(b, a, Chunk("src"))
        BY <1>2, <1>4, <3>1, <3>2
    <3>4. m = a \o Buffered("src") => m = b \o Buffered("src")'
        BY <1>1, <3>3, TakenBytes
    <3> QED BY <3>1, <3>2, <3>4
  <2> QED BY <1>1, <1>4, <2>1, <2>2, <2>3 DEF Inv, EveryByteOnce
<1> QED BY <1>8, <1>9, <1>10, <1>11 DEF Inv

Writes == log' = [log EXCEPT !.wrote.dst = @ \o Chunk(Outlet)]
Hears == log' = [log EXCEPT !.heard = Append(@, Chunk(Outlet))]

LEMMA WriteKeeps ==
    ASSUME Typed, Inv, Piping, Takes(Outlet), Plain(stack, stack, chain.sink), stack' = stack,
           Writes, log.settled = <<>> \/ ~Quiet,
           held' \in [mid : Seq(Chunks), dst : Seq(Chunks)], held'.mid = held.mid,
           UNCHANGED <<chain, sink, listening, watching, jobs, rest>>
    PROVE  Typed' /\ Inv'
<1>1. PICK x \in Halves : x = Outlet
    BY OutletIs
<1>2. PICK c \in Bytes : c = Chunk(x)
    BY <1>1, TakenIs
<1>3. log \in Log /\ log.wrote.mid \in Bytes /\ log.wrote.dst \in Bytes /\ log.made \in [Halves -> Bytes]
    BY LogIs DEF Typed
<1>4. /\ log' \in Log /\ Joined(log'.wrote.dst, log.wrote.dst, Chunk(x)) /\ log'.wrote.mid = log.wrote.mid
      /\ log'.made = log.made /\ log'.heard = log.heard /\ log'.told = log.told /\ log'.settled = log.settled
      /\ log'.meddled = log.meddled
  <2>1. log.wrote.dst \o c \in Bytes
      BY <1>3, BytesJoin
  <2>2. log' = [log EXCEPT !.wrote.dst = log.wrote.dst \o c]
      BY <1>1, <1>2 DEF Writes
  <2>3. log' \in Log
      BY <1>3, <2>1, <2>2, LogIs
  <2> QED BY <1>2, <1>3, <2>2, <2>3 DEF Log, Joined
<1>5. Grows
    BY <1>4 DEF Grows
<1>6. Typed'
    BY <1>1, <1>4, TakenIs, SameChain DEF Typed
<1>7. \A y \in Halves : r'[y].endEmitted = r[y].endEmitted /\ r'[y].ended = r[y].ended
    BY <1>1, TakenIs
<1>8. FlowsAreHeard' /\ EndsHold' /\ SinkHolds'
    BY <1>1, <1>5, JobsSame, TakeStays
<1>9. HeardHolds' /\ ToldHolds' /\ MiddleHolds'
    BY <1>1, <1>4, <1>5, <1>7, JobsSame, HeardStays, ToldStays, MiddleStays DEF Quiet
<1>10. EveryByteOnce'
  <2>1. Outlet' = Outlet /\ Piping' = Piping
      BY SameChain
  <2>2. Outlet = "mid" => Buffered("src")' = Buffered("src")
      BY <1>1, TakenIs DEF Buffered, Halves
  <2>3. log.made[Outlet] = log.wrote.dst \o Buffered(Outlet) => log.made[Outlet] = log'.wrote.dst \o Buffered(Outlet)'
    <3>1. PICK a \in Bytes, m \in Bytes : a = log.wrote.dst /\ m = log.made[x]
        BY <1>3
    <3>2. PICK b : b = log'.wrote.dst
        OBVIOUS
    <3>3. Joined(b, a, Chunk(x))
        BY <1>4, <3>1, <3>2
    <3>4. m = a \o Buffered(x) => m = b \o Buffered(x)'
        BY <1>1, <3>3, TakenBytes
    <3> QED BY <1>1, <2>1, <3>1, <3>2, <3>4
  <2> QED BY <1>4, <2>1, <2>2, <2>3 DEF Inv, EveryByteOnce, Piping
<1> QED BY <1>6, <1>8, <1>9, <1>10 DEF Inv

LEMMA HearKeeps ==
    ASSUME Typed, Inv, ~Piping, Takes(Outlet), Plain(stack, stack', chain.sink), rest' \in Bytes,
           Hears,
           listening' = listening \/ listening' = StillListening,
           chain.sink = "iterator" => Null \notin ToSet(log.heard),
           UNCHANGED <<chain, held, sink, watching, jobs>>
    PROVE  Typed' /\ Inv'
<1>1. PICK x \in Halves : x = Outlet
    BY OutletIs
<1>2. PICK c \in Bytes : c = Chunk(x) /\ c # Null
    BY <1>1, TakenIs
<1>3. log \in Log /\ log.heard \in Heard /\ log.made \in [Halves -> Bytes]
    BY LogIs DEF Typed
<1>4. /\ log' \in Log /\ log'.heard = Append(log.heard, c) /\ log'.wrote = log.wrote
      /\ log'.made = log.made /\ log'.told = log.told /\ log'.settled = log.settled
      /\ log'.meddled = log.meddled
  <2>1. Append(log.heard, c) \in Heard
      BY <1>3, HeardMore
  <2>2. log' = [log EXCEPT !.heard = Append(log.heard, c)]
      BY <1>1, <1>2 DEF Hears
  <2>3. log' \in Log
      BY <1>3, <2>1, <2>2, LogIs
  <2> QED BY <1>3, <2>2, <2>3 DEF Log
<1>5. Grows
    BY <1>4 DEF Grows
<1>6. Typed'
    BY <1>1, <1>4, TakenIs, StillIs, SameChain DEF Typed, Plain
<1>7. \A y \in Halves : r'[y].endEmitted = r[y].endEmitted /\ r'[y].ended = r[y].ended
    BY <1>1, TakenIs
<1>8. FlowsAreHeard' /\ EndsHold' /\ SinkHolds'
    BY <1>1, <1>5, JobsSame, TakeStays
<1>9. HeardHolds'
  <2>1. c \in Bytes \cup {Failed}
      OBVIOUS
  <2>2. Null \in ToSet(log'.heard) => Null \in ToSet(log.heard)
      BY <1>2, <1>3, <1>4, <2>1, HearMore
  <2>3. Null \in ToSet(log.heard) => "late" \in log.meddled
      BY <1>1, TakenIs DEF Inv, HeardHolds
  <2>4. LastHeard'
    <3>1. ASSUME NEW i \in DOMAIN log'.heard, log'.heard[i] = Null PROVE "late" \in log'.meddled
        BY <1>4, <2>2, <2>3, <3>1 DEF ToSet
    <3> QED BY <3>1 DEF LastHeard
  <2>5. listening' \subseteq listening
      BY DEF StillListening
  <2> QED BY <1>1, <1>4, <1>7, <2>2, <2>4, <2>5, SameChain DEF Inv, HeardHolds
<1>10. ToldHolds' /\ MiddleHolds'
    BY <1>1, <1>4, <1>5, <1>7, JobsSame, ToldStays, MiddleStays
<1>11. EveryByteOnce'
  <2>1. Outlet' = Outlet /\ Piping' = Piping
      BY SameChain
  <2>2. Outlet = "mid" => Buffered("src")' = Buffered("src")
      BY <1>1, TakenIs DEF Buffered, Halves
  <2>3. log.made[Outlet] = Ate \o Buffered(Outlet) => log.made[Outlet] = Ate' \o Buffered(Outlet)'
    <3>1. Ate \in Bytes /\ Joined(Ate', Ate, c)
        BY <1>3, <1>4, AteMore DEF Ate
    <3>2. PICK a \in Bytes, m \in Bytes : a = Ate /\ m = log.made[x]
        BY <1>3, <3>1
    <3>3. PICK b : b = Ate'
        OBVIOUS
    <3>4. Joined(b, a, Chunk(x))
        BY <1>2, <3>1, <3>2, <3>3
    <3>5. m = a \o Buffered(x) => m = b \o Buffered(x)'
        BY <1>1, <3>4, TakenBytes
    <3> QED BY <1>1, <2>1, <3>2, <3>3, <3>5
  <2>4. (Outlet = "mid" /\ "unpipe" \notin log.meddled => log.made.src = log.wrote.mid \o Buffered("src"))'
      BY <1>4, <2>1, <2>2 DEF Inv, EveryByteOnce
  <2>5. (chain.sink \in {"listener", "reader", "lines"} => log.made[Outlet] = Ate \o Buffered(Outlet))'
    <3>1. PICK a, b, d, e : a = Ate /\ b = Ate' /\ d = Buffered(Outlet) /\ e = Buffered(Outlet)'
        OBVIOUS
    <3> QED BY <1>4, <2>1, <2>3, <3>1 DEF Inv, EveryByteOnce
  <2> QED BY <2>1, <2>4, <2>5 DEF EveryByteOnce
<1> QED BY <1>6, <1>8, <1>9, <1>10, <1>11 DEF Inv

LEMMA DataToWritableStep == ASSUME Typed, Inv, DataToWritable, UNCHANGED lineVars PROVE Typed' /\ Inv'
<1>1. /\ Piping /\ Flows(Outlet) /\ Idle(stack, chain.sink) /\ Plain(stack, stack, chain.sink) /\ stack' = stack
      /\ UNCHANGED <<chain, sink, listening, watching, rest>>
  <2>1. Idle(stack, chain.sink)
      BY RunsIdle DEF DataToWritable, Flows
  <2> QED BY <2>1, PlainSame DEF DataToWritable, Piping, lineVars
<1>2. held \in [mid : Seq(Chunks), dst : Seq(Chunks)] /\ held.dst \in Seq(Chunks) /\ log \in Log /\ jobs \in Seq(AJob)
    BY DEF Typed
<1>3. CASE sink = "open"
  <2>1. r' = Taken(Outlet) /\ held' = [held EXCEPT !.dst = Append(@, Chunk(Outlet))] /\ Writes /\ UNCHANGED jobs
      BY <1>3 DEF DataToWritable, Writes
  <2>2. Takes(Outlet)
      BY <1>1, <2>1, OutletIs, FlowTakes
  <2>3. held' \in [mid : Seq(Chunks), dst : Seq(Chunks)] /\ held'.mid = held.mid
    <3>1. PICK c \in Chunks : c = Chunk(Outlet)
        BY <2>2, OutletIs, TakenIs
    <3>2. Append(held.dst, c) \in Seq(Chunks)
        BY <1>2
    <3>3. held' = [held EXCEPT !.dst = Append(held.dst, c)]
        BY <2>1, <3>1
    <3> QED BY <1>2, <3>2, <3>3
  <2>4. log.settled = <<>>
      BY <1>3 DEF Inv, ToldHolds
  <2> QED BY <1>1, <2>1, <2>2, <2>3, <2>4, WriteKeeps
<1>4. CASE sink # "open"
  <2>1. /\ r' = [Taken(Outlet) EXCEPT ![Outlet].flowing = FALSE] /\ jobs' = Append(jobs, Job("error", "dst"))
        /\ UNCHANGED <<held, log>>
      BY <1>4 DEF DataToWritable
  <2>2. PICK x \in Halves : x = Outlet
      BY OutletIs
  <2>3. r' = [r EXCEPT ![x] = [r[x] EXCEPT !.buf = Tail(@), !.flowing = FALSE]]
    <3>1. r \in [Halves -> Half] /\ r[x] \in Half
        BY <2>2 DEF Typed
    <3> QED BY <2>1, <2>2, <3>1 DEF Taken, Half
  <2>4. Takes(x) /\ Takes(Outlet)
      BY <1>1, <2>2, <2>3 DEF Takes, Flows
  <2>5. JobsCalm(jobs, jobs') /\ jobs' \in Seq(AJob)
    <3>1. Job("error", "dst") \in AJob /\ Job("error", "dst").do = "error"
        BY JobIs
    <3> QED BY <1>2, <2>1, <3>1, JobsMore
  <2>6. Grows /\ log' = log
      BY <1>1, <2>1 DEF Grows
  <2>7. Typed'
      BY <1>1, <2>1, <2>2, <2>4, <2>5, TakenIs, SameChain DEF Typed
  <2>8. \A y \in Halves : r'[y].endEmitted = r[y].endEmitted /\ r'[y].ended = r[y].ended
      BY <2>2, <2>4, TakenIs
  <2>9. FlowsAreHeard' /\ EndsHold' /\ SinkHolds'
      BY <1>1, <2>2, <2>4, <2>5, <2>6, TakeStays
  <2>10. HeardHolds' /\ ToldHolds' /\ MiddleHolds'
      BY <1>1, <2>1, <2>2, <2>5, <2>6, <2>8, HeardStays, ToldStays, MiddleStays
  <2>11. EveryByteOnce'
    <3>1. log.meddled \cap {"late", "end", "destroy"} # {}
        BY <1>4, <2>4, OpenTakes
    <3>2. Outlet' = Outlet /\ Piping' = Piping
        BY <1>1, SameChain
    <3>3. Outlet = "mid" => Buffered("src")' = Buffered("src")
        BY <2>2, <2>4, TakenIs DEF Buffered, Halves
    <3> QED BY <1>1, <2>6, <3>1, <3>2, <3>3 DEF Inv, EveryByteOnce, Piping
  <2> QED BY <2>7, <2>9, <2>10, <2>11 DEF Inv
<1> QED BY <1>3, <1>4

LEMMA DataToResponseStep == ASSUME Typed, Inv, DataToResponse, UNCHANGED lineVars PROVE Typed' /\ Inv'
<1>1. /\ Piping /\ Flows(Outlet) /\ r' = Taken(Outlet) /\ stack' = stack /\ Writes
      /\ UNCHANGED <<chain, held, sink, listening, watching, jobs, rest>>
    BY DEF DataToResponse, Piping, Writes, lineVars
<1>2. Takes(Outlet) /\ Plain(stack, stack, chain.sink)
    BY <1>1, OutletIs, FlowTakes
<1>3. log.settled = <<>> \/ ~Quiet
    BY <1>2, OpenTakes DEF Inv, ToldHolds, Quiet
<1>4. held \in [mid : Seq(Chunks), dst : Seq(Chunks)]
    BY DEF Typed
<1> QED BY <1>1, <1>2, <1>3, <1>4, WriteKeeps

LEMMA DataToConsumerStep == ASSUME Typed, Inv, DataToConsumer, UNCHANGED lineVars PROVE Typed' /\ Inv'
<1>1. /\ ~Piping /\ Flows(Outlet) /\ r' = Taken(Outlet) /\ Hears /\ listening' = StillListening /\ Outlet \in listening
      /\ UNCHANGED <<chain, held, sink, watching, jobs, rest>>
    BY DEF DataToConsumer, Hears, lineVars
<1>2. Takes(Outlet) /\ Plain(stack, stack, chain.sink) /\ Idle(stack, chain.sink)
    BY <1>1, OutletIs, FlowTakes
<1>3. Plain(stack, stack', chain.sink)
  <2>1. Plain(stack, Append(stack, Call("listener", Outlet, Null)), chain.sink)
      BY <1>2, OutletIs, PlainAppend, OtherIs
  <2> QED BY <1>2, <2>1 DEF DataToConsumer
<1>4. rest' \in Bytes
    BY <1>1 DEF Typed
<1>5. chain.sink = "iterator" => Null \notin ToSet(log.heard)
    BY <1>1 DEF Inv, HeardHolds
<1> QED BY <1>1, <1>2, <1>3, <1>4, <1>5, HearKeeps

LEMMA LinesAre ==
    ASSUME NEW bytes \in Bytes
    PROVE  \E n \in Nat : DOMAIN LinesOf(bytes) = 1..n /\ Len(LinesOf(bytes)) = n
<1>1. LinesOf(bytes) \in Seq(Bytes)
    BY LinesType
<1> QED BY <1>1, LenProperties

LEMMA DataToInterfaceStep == ASSUME Typed, Inv, DataToInterface PROVE Typed' /\ Inv'
<1>1. /\ ~Piping /\ Flows(Outlet) /\ r' = Taken(Outlet) /\ Hears /\ chain.sink = "lines"
      /\ UNCHANGED <<chain, held, sink, listening, watching, jobs>>
      /\ rest' = RestOf(Fed(Decoded(Chunk(Outlet))))
      /\ stack' = stack \o LineCalls(LinesOf(Fed(Decoded(Chunk(Outlet)))))
    BY DEF DataToInterface, Hears, Interface, Piping
<1>2. Takes(Outlet) /\ Idle(stack, chain.sink)
    BY <1>1, OutletIs, FlowTakes
<1>3. PICK b \in Bytes : b = Fed(Decoded(Chunk(Outlet)))
  <2>1. Chunk(Outlet) \in Bytes /\ rest \in Bytes
      BY <1>2, OutletIs, TakenIs DEF Typed
  <2>2. Decoded(Chunk(Outlet)) \in Bytes
      BY <2>1, DecodedIs
  <2> QED BY <2>1, <2>2, BytesJoin DEF Fed
<1>4. rest' \in Bytes
    BY <1>1, <1>3, RestType
<1>5. Plain(stack, stack', chain.sink)
  <2>1. PICK q, t : q = LinesOf(b) /\ t = LineCalls(q)
      OBVIOUS
  <2>2. PICK n \in Nat : DOMAIN q = 1..n /\ Len(q) = n
      BY <2>1, LinesAre
  <2>3. Idle(t, chain.sink) /\ ~HasPush(t)
      BY <2>1, <2>2, LineCallsIdle
  <2>4. stack' = stack \o t
      BY <1>1, <1>3, <2>1
  <2> QED BY <1>2, <2>3, <2>4, IdleJoin, PushJoin, IdleIsSound, IdleCarries DEF Plain
<1> QED BY <1>1, <1>2, <1>4, <1>5, HearKeeps

LEMMA DataToNobodyStep == ASSUME Typed, Inv, DataToNobody, UNCHANGED lineVars PROVE Typed' /\ Inv'
<1>1. PICK x \in Parts \ listening : Flows(x) /\ r' = Taken(x)
    BY DEF DataToNobody
<1>2. UNCHANGED <<chain, held, sink, listening, watching, jobs, stack, log, rest>>
    BY DEF DataToNobody, lineVars
<1>3. x \in Halves /\ Takes(x) /\ Plain(stack, stack, chain.sink) /\ Idle(stack, chain.sink)
  <2>1. x \in Halves
      BY OutletIs
  <2> QED BY <1>1, <2>1, FlowTakes
<1>4. Grows
    BY <1>2 DEF Grows
<1>5. Typed'
    BY <1>2, <1>3, TakenIs, SameChain DEF Typed
<1>6. \A y \in Halves : r'[y].endEmitted = r[y].endEmitted /\ r'[y].ended = r[y].ended
    BY <1>3, TakenIs
<1>7. FlowsAreHeard' /\ EndsHold' /\ SinkHolds'
    BY <1>2, <1>3, <1>4, JobsSame, TakeStays
<1>8. HeardHolds' /\ ToldHolds' /\ MiddleHolds'
    BY <1>2, <1>3, <1>4, <1>6, JobsSame, OutletIs, HeardStays, ToldStays, MiddleStays
<1>9. EveryByteOnce'
  <2>1. Outlet' = Outlet /\ Piping' = Piping /\ Ate' = Ate
      BY <1>2, SameChain DEF Ate
  <2>2. r[x].flowing /\ x \notin listening
      BY <1>1 DEF Flows
  <2>3. \A y \in Halves : y # x => Buffered(y)' = Buffered(y)
      BY <1>3, TakenIs DEF Buffered
  <2>4. CASE x = Outlet
    <3>1. Piping => "unpipe" \in log.meddled
        BY <2>2, <2>4 DEF Inv, FlowsAreHeard, Piping
    <3>2. chain.sink \notin {"listener", "reader", "lines"}
        BY <2>2, <2>4 DEF Inv, FlowsAreHeard, Piping
    <3>3. Outlet = "mid" => Buffered("src")' = Buffered("src")
        BY <2>3, <2>4 DEF Halves
    <3> QED BY <1>2, <2>1, <3>1, <3>2, <3>3 DEF Inv, EveryByteOnce
  <2>5. CASE x # Outlet
    <3>1. x = "src" /\ Outlet = "mid"
        BY <2>5, OutletIs DEF Parts
    <3>2. "unpipe" \in log.meddled
        BY <2>2, <3>1 DEF Inv, FlowsAreHeard
    <3>3. Buffered(Outlet)' = Buffered(Outlet)
        BY <2>1, <2>3, <2>5, OutletIs
    <3> QED BY <1>2, <2>1, <3>2, <3>3 DEF Inv, EveryByteOnce
  <2> QED BY <2>4, <2>5
<1> QED BY <1>5, <1>7, <1>8, <1>9 DEF Inv

-----------------------------------------------------------------------------
(* read().                                                                 *)

(* read() gives bytes: chunks are not empty.                               *)
LEMMA BufferedIs ==
    ASSUME NEW q \in Seq(Chunks), q # <<>>
    PROVE  FlattenSeq(q) \in Bytes /\ FlattenSeq(q) # Null
<1>1. Joined(FlattenSeq(q), Head(q), FlattenSeq(Tail(q)))
    BY ChunkSeqs, FlattenTail
<1>2. Tail(q) \in Seq(Chunks) /\ Head(q) \in Chunks
    BY DEF Chunks
<1>3. PICK a \in Seq(Byte), b \in Seq(Byte) : a = Head(q) /\ b = FlattenSeq(Tail(q)) /\ a # <<>>
  <2>1. Head(q) \in Seq(Byte) /\ Head(q) # <<>>
      BY <1>2 DEF Chunks, Bytes, Null
  <2>2. FlattenSeq(Tail(q)) \in Seq(Byte)
      BY <1>2, FlattenBytes DEF Bytes
  <2> QED BY <2>1, <2>2
<1>4. a \o b # <<>>
  <2>1. Len(a \o b) = Len(a) + Len(b) /\ Len(a) \in Nat /\ Len(b) \in Nat
      OBVIOUS
  <2>2. Len(a) # 0
      BY <1>3
  <2>3. Len(a \o b) # 0
      BY <2>1, <2>2
  <2> QED BY <2>3
<1> QED BY <1>1, <1>3, <1>4, FlattenBytes DEF Joined, Null

LEMMA ReadReturnsStep == ASSUME Typed, Inv, ReadReturns, UNCHANGED lineVars PROVE Typed' /\ Inv'
<1>1. /\ chain.sink = "reader" /\ Plain(stack, stack', chain.sink)
      /\ UNCHANGED <<chain, held, sink, listening, watching, rest>>
  <2>1. GoodCall(Top, chain.sink) /\ Top.do = "take"
      BY SoundTop DEF Typed, ReadReturns, Running, Top
  <2>2. Plain(stack, Front(stack), chain.sink)
      BY RunsIdle DEF ReadReturns
  <2> QED BY <2>1, <2>2 DEF GoodCall, ReadReturns, lineVars
<1>2. PICK x \in Halves : x = Outlet
    BY OutletIs
<1>3. PICK p : p = [r[x] EXCEPT !.buf = <<>>]
    OBVIOUS
<1>4. r[x] \in Half /\ log \in Log /\ log.heard \in Heard /\ log.made \in [Halves -> Bytes] /\ r[x].buf \in Seq(Chunks)
    BY <1>2, LogIs, HalfIs DEF Typed
<1>5. p \in Half /\ p.buf = <<>> /\ p.ended = r[x].ended /\ p.endEmitted = r[x].endEmitted /\ p.flowing = r[x].flowing
  <2>1. <<>> \in Seq(Chunks)
      BY EmptySeq
  <2> QED BY <1>3, <1>4, <2>1 DEF Half
<1>6. /\ r' = [r EXCEPT ![x] = MaybeEnded(p)] /\ jobs' = jobs \o EndJob(x, p)
      /\ log' = IF r[x].buf = <<>> THEN log ELSE [log EXCEPT !.heard = Append(@, FlattenSeq(r[x].buf))]
    BY <1>2, <1>3 DEF ReadReturns
<1>7. /\ log' \in Log /\ log'.wrote = log.wrote /\ log'.made = log.made /\ log'.told = log.told
      /\ log'.settled = log.settled /\ log'.meddled = log.meddled
      /\ log'.heard = IF r[x].buf = <<>> THEN log.heard ELSE Append(log.heard, FlattenSeq(r[x].buf))
  <2>1. CASE r[x].buf = <<>>
      BY <1>4, <1>6, <2>1
  <2>2. CASE r[x].buf # <<>>
    <3>1. PICK c \in Bytes : c = FlattenSeq(r[x].buf)
        BY <1>4, FlattenBytes
    <3>2. Append(log.heard, c) \in Heard
        BY <1>4, HeardMore
    <3>3. log' = [log EXCEPT !.heard = Append(log.heard, c)]
        BY <1>6, <2>2, <3>1
    <3>4. log' \in Log
        BY <1>4, <3>2, <3>3, LogIs
    <3> QED BY <1>4, <2>2, <3>1, <3>3, <3>4 DEF Log
  <2> QED BY <2>1, <2>2
<1>8. Ended(x, p) /\ EndsHold'
  <2>1. Ending(x, p)
      BY <1>5, <1>6 DEF Ending
  <2> QED BY <1>5, <1>7, <2>1, EndingSays DEF Typed, Inv
<1>9. Grows
    BY <1>1, <1>7 DEF Grows
<1>10. Typed'
    BY <1>1, <1>7, <1>8, SameChain DEF Typed, Ended, Plain
<1>11. FlowsAreHeard'
    BY <1>1, <1>8, <1>9, FlowsStay DEF Ended
<1>12. SinkHolds'
    BY <1>1, <1>2, <1>7, <1>8, SameChain DEF Ended, Inv, SinkHolds
<1>13. HeardHolds'
  <2>1. Null \in ToSet(log'.heard) => Null \in ToSet(log.heard)
    <3>1. CASE r[x].buf = <<>>
        BY <1>7, <3>1
    <3>2. CASE r[x].buf # <<>>
      <4>1. PICK c \in Bytes \cup {Failed} : c = FlattenSeq(r[x].buf) /\ c # Null
          BY <1>4, <3>2, BufferedIs
      <4> QED BY <1>4, <1>7, <3>2, <4>1, HearMore
    <3> QED BY <3>1, <3>2
  <2>2. LastHeard'
    <3>1. CASE r[x].buf = <<>>
        BY <1>7, <3>1 DEF LastHeard, Inv, HeardHolds
    <3>2. CASE r[x].buf # <<>>
      <4>1. Null \in ToSet(log.heard) => "late" \in log.meddled
          BY <1>1, <1>2, <3>2 DEF Inv, HeardHolds, EndsHold
      <4>2. ASSUME NEW i \in DOMAIN log'.heard, log'.heard[i] = Null PROVE "late" \in log'.meddled
          BY <1>7, <2>1, <4>1, <4>2 DEF ToSet
      <4> QED BY <4>2 DEF LastHeard
    <3> QED BY <3>1, <3>2
  <2>3. Outlet' = Outlet /\ Piping' = Piping
      BY <1>1, SameChain
  <2>4. /\ r[x].endEmitted => r'[x].endEmitted
        /\ Waits(jobs', Job("end", x)) => Waits(jobs, Job("end", x)) \/ ~r[x].endEmitted
      BY <1>8 DEF Ended
  <2> QED BY <1>1, <1>2, <2>1, <2>2, <2>3, <2>4 DEF Inv, HeardHolds
<1>14. ToldHolds'
    BY <1>1, <1>7, <1>9, ToldStays
<1>15. MiddleHolds'
  <2>1. ASSUME Outlet = "mid", Quiet PROVE (MiddleEnds /\ CollectWaits /\ MiddleKeeps)'
    <3>1. MiddleEnds /\ CollectWaits /\ MiddleKeeps
        BY <2>1 DEF Inv, MiddleHolds
    <3>2. /\ Carried(stack) = <<>> /\ Carried(stack') = <<>>
          /\ HasPush(stack') => HasPush(stack)
          /\ HasEnd(stack') => HasEnd(stack)
        BY <1>1 DEF Plain
    <3>3. r'["mid"].ended = r["mid"].ended /\ r'["src"] = r["src"] /\ x = "mid" /\ "src" \in Halves
        BY <1>2, <1>5, <1>8, <2>1 DEF Ended, Halves
    <3>4. /\ Waits(jobs', Job("finish", "mid")) => Waits(jobs, Job("finish", "mid"))
          /\ Waits(jobs', Job("end", "src")) => Waits(jobs, Job("end", "src"))
        BY <1>8, <3>3 DEF Ended
    <3>5. MiddleEnds'
        BY <1>1, <3>1, <3>2, <3>3, <3>4 DEF MiddleEnds
    <3>6. CollectWaits'
        BY <1>1, <1>7, <3>1, <3>2, <3>3, <3>4 DEF CollectWaits
    <3>7. MiddleKeeps'
        BY <1>1, <1>7, <3>1, <3>2, <3>3 DEF MiddleKeeps
    <3> QED BY <3>5, <3>6, <3>7
  <2>2. Carried(stack') = <<>>
      BY <1>1 DEF Plain
  <2> QED BY <1>1, <1>7, <2>1, <2>2, SameChain DEF Inv, MiddleHolds, Quiet
<1>16. EveryByteOnce'
  <2>1. Outlet' = Outlet /\ Piping' = Piping /\ ~Piping
      BY <1>1, SameChain DEF Piping
  <2>2. Outlet = "mid" => Buffered("src")' = Buffered("src")
      BY <1>2, <1>8 DEF Buffered, Halves, Ended
  <2>3. log.made[x] = Ate' \o Buffered(x)'
    <3>1. PICK a \in Bytes, m \in Bytes : a = Ate /\ m = log.made[x]
      <4>1. Ate \in Bytes
          BY <1>4, AteMore DEF Ate
      <4> QED BY <1>4, <4>1
    <3>2. m = a \o Buffered(x)
        BY <1>1, <1>2, <3>1 DEF Inv, EveryByteOnce
    <3>3. Buffered(x)' = <<>>
        BY <1>5, <1>8, FlattenNone DEF Buffered, Ended
    <3>4. m \o <<>> = m
        BY ConcatEmptySeq DEF Bytes
    <3>5. Ate' = m
      <4>1. CASE r[x].buf = <<>>
        <5>1. Buffered(x) = <<>> /\ Ate' = Ate
            BY <1>7, <4>1, FlattenNone DEF Buffered, Ate
        <5>2. a \o <<>> = a
            BY ConcatEmptySeq DEF Bytes
        <5> QED BY <3>1, <3>2, <5>1, <5>2
      <4>2. CASE r[x].buf # <<>>
        <5>1. PICK c \in Bytes : c = FlattenSeq(r[x].buf)
            BY <1>4, FlattenBytes
        <5>2. Joined(Ate', Ate, c)
            BY <1>4, <1>7, <4>2, <5>1, AteMore DEF Ate
        <5> QED BY <3>1, <3>2, <5>1, <5>2 DEF Joined, Buffered
      <4> QED BY <4>1, <4>2
    <3> QED BY <3>1, <3>3, <3>4, <3>5
  <2> QED BY <1>2, <1>7, <2>1, <2>2, <2>3 DEF Inv, EveryByteOnce
<1> QED BY <1>8, <1>10, <1>11, <1>12, <1>13, <1>14, <1>15, <1>16 DEF Inv

-----------------------------------------------------------------------------
(* The script.                                                             *)

LEMMA DrainsAre ==
    ASSUME jobs \in Seq(AJob), r \in [Halves -> Half], NEW X, jobs' = jobs \o DrainJobs(X)
    PROVE  jobs' \in Seq(AJob) /\ JobsCalm(jobs, jobs')
<1>1. PICK a \in BOOLEAN : a = ("src" \in X /\ ~r["src"].flowing)
    OBVIOUS
<1>2. PICK b \in BOOLEAN : b = ("mid" \in X /\ ~r["mid"].flowing)
    OBVIOUS
<1>3. DrainJobs(X) = (IF a THEN <<Job("drain", "src")>> ELSE <<>>) \o (IF b THEN <<Job("drain", "mid")>> ELSE <<>>)
    BY <1>1, <1>2 DEF DrainJobs, DrainJobOf
<1>4. Drained(jobs, jobs')
    BY <1>3, DrainTwo
<1> QED BY <1>4 DEF Drained, JobsCalm

LEMMA ResumeKeeps ==
    ASSUME Typed, Inv, NEW X \in SUBSET Halves, jobs' = jobs \o DrainJobs(X),
           r' = [x \in Halves |-> IF x \in X THEN Resumed(r[x]) ELSE r[x]],
           X \cup listening \subseteq listening', listening' \subseteq Parts,
           chain.sink = "iterator" /\ Outlet \in listening' => Null \notin ToSet(log.heard),
           log' \in Log, LogCalm(log, log'), watching' \in SUBSET {"end", "finish", "error"}, ToldHolds',
           Idle(stack, chain.sink), UNCHANGED <<chain, held, sink, stack, rest>>
    PROVE  Typed' /\ Inv'
<1>1. jobs' \in Seq(AJob) /\ JobsCalm(jobs, jobs')
    BY DrainsAre DEF Typed
<1>2. \A x \in Halves : Resumed(r[x]) \in Half /\ r[x] \in Half
    BY HalfIs DEF Typed
<1>3. r' \in [Halves -> Half]
    BY <1>2
<1>4. \A x \in Halves : /\ r'[x].buf = r[x].buf /\ r'[x].ended = r[x].ended /\ r'[x].endEmitted = r[x].endEmitted
                        /\ r'[x].flowing => r[x].flowing \/ x \in X
    BY <1>2 DEF Resumed, Half
<1>5. Grows
    BY DEF Grows, LogCalm
<1>6. Typed'
    BY <1>1, <1>3, SameChain DEF Typed
<1>7. Plain(stack, stack', chain.sink)
    BY PlainSame
<1>8. Outlet' = Outlet /\ Piping' = Piping /\ Outlet \in Halves /\ "src" \in Halves
    BY SameChain, OutletIs DEF Halves
<1>9. FlowsAreHeard'
    BY <1>4, <1>5, <1>8 DEF Inv, FlowsAreHeard, Grows
<1>10. EndsHold' /\ SinkHolds' /\ MiddleHolds'
    BY <1>1, <1>4, <1>5, <1>7, <1>8, EndsStay, SinkStays, MiddleStays DEF LogCalm
<1>11. HeardHolds'
  <2>1. Waits(jobs', Job("end", Outlet)) => Waits(jobs, Job("end", Outlet))
      BY <1>1, <1>8, JobParts DEF JobsCalm
  <2> QED BY <1>4, <1>5, <1>8, <2>1 DEF Inv, HeardHolds, LastHeard, LogCalm, Grows
<1>12. EveryByteOnce'
    BY <1>4, <1>5, BytesStay DEF LogCalm, Ate
<1> QED BY <1>6, <1>9, <1>10, <1>11, <1>12 DEF Inv

LEMMA ConnectsStep == ASSUME Typed, Inv, Connects, UNCHANGED lineVars PROVE Typed' /\ Inv'
<1>1. PICK X \in SUBSET Halves : /\ X \subseteq Parts
                                 /\ X = IF chain.sink = "reader" THEN Parts \ {Outlet} ELSE Parts
  <2>1. Parts \subseteq Halves
      BY OutletIs
  <2> QED BY <2>1
<1>2. /\ r' = [x \in Halves |-> IF x \in X THEN Resumed(r[x]) ELSE r[x]]
      /\ jobs' = jobs \o DrainJobs(X) /\ listening' = Parts
      /\ watching' \in SUBSET {"end", "finish", "error"} /\ "connected" \notin log.meddled
      /\ log' = [log EXCEPT !.meddled = @ \cup {"connected"}] /\ chain.sink # "iterator"
      /\ UNCHANGED <<chain, held, sink, stack, rest>>
    BY <1>1 DEF Connects, lineVars
<1>3. log \in Log /\ log.meddled \in SUBSET Words /\ listening \subseteq Parts
    BY LogIs DEF Typed
<1>4. LogCalm(log, log') /\ log' \in Log /\ "connected" \in log'.meddled
  <2>1. log.meddled \cup {"connected"} \in SUBSET Words
      BY <1>3 DEF Words
  <2>2. log' \in Log
      BY <1>2, <1>3, <2>1, LogIs
  <2> QED BY <1>2, <1>3, <2>2 DEF LogCalm, Log
<1>5. ToldHolds'
    BY <1>2, <1>4 DEF Inv, ToldHolds, LogCalm, Quiet
<1>6. Idle(stack, chain.sink)
    BY ScriptIdle DEF Connects
<1> QED BY <1>1, <1>2, <1>3, <1>4, <1>5, <1>6, ResumeKeeps

LEMMA ResumesStep == ASSUME Typed, Inv, NEW x \in Parts, Resumes(x), UNCHANGED lineVars PROVE Typed' /\ Inv'
<1>1. x \in Halves /\ r \in [Halves -> Half] /\ listening \subseteq Parts
    BY OutletIs DEF Typed
<1>2. PICK X \in SUBSET Halves : X = {x}
    BY <1>1
<1>3. /\ jobs' = jobs \o DrainJobs(X) /\ x \in listening
      /\ UNCHANGED <<chain, held, sink, listening, watching, stack, log, rest>>
    BY <1>2 DEF Resumes, lineVars
<1>4. r' = [y \in Halves |-> IF y \in X THEN Resumed(r[y]) ELSE r[y]]
    BY <1>1, <1>2 DEF Resumes
<1>5. log' \in Log /\ LogCalm(log, log') /\ watching' \in SUBSET {"end", "finish", "error"}
    BY <1>3, LogSame DEF Typed
<1>6. ToldHolds'
    BY <1>3 DEF Inv, ToldHolds, Quiet
<1>7. Idle(stack, chain.sink)
    BY ScriptIdle DEF Resumes
<1>8. chain.sink = "iterator" /\ Outlet \in listening' => Null \notin ToSet(log.heard)
    BY <1>3 DEF Inv, HeardHolds
<1> QED BY <1>1, <1>2, <1>3, <1>4, <1>5, <1>6, <1>7, <1>8, ResumeKeeps

LEMMA NextIsCalledStep == ASSUME Typed, Inv, NextIsCalled, UNCHANGED lineVars PROVE Typed' /\ Inv'
<1>1. /\ chain.sink = "iterator" /\ ~Piping /\ Outlet \notin listening /\ Null \notin ToSet(log.heard)
      /\ UNCHANGED <<chain, held, sink, watching, stack, rest>>
    BY DEF NextIsCalled, Piping, lineVars
<1>2. Idle(stack, chain.sink) /\ Plain(stack, stack, chain.sink)
    BY ScriptIdle DEF NextIsCalled
<1>3. /\ Outlet \in Halves /\ r \in [Halves -> Half] /\ listening \subseteq Parts /\ Parts \subseteq Halves
      /\ log \in Log /\ log.heard \in Heard /\ rest \in Bytes /\ jobs \in Seq(AJob)
    BY OutletIs, LogIs DEF Typed
<1>4. CASE r[Outlet].buf # <<>>
  <2>1. r' = Taken(Outlet) /\ Hears /\ UNCHANGED <<listening, jobs>>
      BY <1>4 DEF NextIsCalled, Hears
  <2>2. Takes(Outlet)
      BY <1>4, <2>1 DEF Takes, Taken
  <2>3. rest' \in Bytes /\ Plain(stack, stack', chain.sink)
      BY <1>1, <1>2, <1>3
  <2> QED BY <1>1, <2>1, <2>2, <2>3, HearKeeps
<1>5. CASE r[Outlet].buf = <<>> /\ r[Outlet].ended
  <2>1. log' = [log EXCEPT !.heard = Append(@, Null)] /\ UNCHANGED <<r, listening, jobs>>
      BY <1>5 DEF NextIsCalled
  <2>2. log' \in Log
    <3>1. Append(log.heard, Null) \in Heard
        BY <1>3, BytesNone, HeardMore
    <3> QED BY <1>3, <2>1, <3>1, LogIs
  <2>3. /\ log'.heard = Append(log.heard, Null) /\ log'.told = log.told /\ log'.settled = log.settled
        /\ log'.made = log.made /\ log'.wrote = log.wrote /\ Grows
      BY <1>1, <1>3, <2>1 DEF Log, Grows
  <2>4. Typed'
      BY <1>1, <2>1, <2>2, SameChain DEF Typed
  <2>5. HeardHolds'
    <3>1. LastHeard'
      <4>1. DOMAIN log'.heard = DOMAIN Append(log.heard, Null) /\ Null \in Bytes \cup {Failed}
          BY <2>3, BytesNone
      <4>2. \A i \in DOMAIN log.heard : log.heard[i] # Null
          BY <1>1 DEF ToSet
      <4> QED BY <1>3, <2>3, <4>1, <4>2, HearMore DEF LastHeard
    <3> QED BY <1>1, <2>1, <3>1, SameChain DEF HeardHolds
  <2>6. FlowsAreHeard' /\ EndsHold' /\ SinkHolds' /\ ToldHolds' /\ MiddleHolds'
      BY <1>1, <1>2, <2>1, <2>3, JobsSame, FlowsStay, EndsStay, SinkStays, ToldStays, MiddleStays
  <2>7. EveryByteOnce'
    <3>1. Ate' = Ate
        BY <1>3, <2>3, AteMore DEF Ate
    <3> QED BY <2>1, <2>3, <3>1, BytesStay
  <2> QED BY <2>4, <2>5, <2>6, <2>7 DEF Inv
<1>6. CASE r[Outlet].buf = <<>> /\ ~r[Outlet].ended
  <2>1. PICK X \in SUBSET Halves : X = Parts
      BY <1>3
  <2>2. /\ r' = [x \in Halves |-> IF x \in X THEN Resumed(r[x]) ELSE r[x]]
        /\ jobs' = jobs \o DrainJobs(X) /\ listening' = listening \cup Parts /\ log' = log
      BY <1>6, <2>1 DEF NextIsCalled
  <2>3. X \cup listening \subseteq listening' /\ listening' \subseteq Parts
      BY <1>3, <2>1, <2>2
  <2>4. log' \in Log /\ LogCalm(log, log') /\ watching' \in SUBSET {"end", "finish", "error"}
      BY <1>1, <1>3, <2>2, LogSame DEF Typed
  <2>5. ToldHolds'
      BY <1>1, <2>2 DEF Inv, ToldHolds, Quiet
  <2> QED BY <1>1, <1>2, <2>2, <2>3, <2>4, <2>5, ResumeKeeps
<1> QED BY <1>4, <1>5, <1>6

LEMMA UnpipesStep == ASSUME Typed, Inv, NEW x \in Parts, Unpipes(x), UNCHANGED lineVars PROVE Typed' /\ Inv'
<1>1. /\ Piping \/ x # Outlet
      /\ listening' = listening \ {x} /\ log' = Meddled("unpipe")
      /\ UNCHANGED <<chain, r, held, sink, watching, jobs, stack, rest>>
    BY DEF Unpipes, lineVars
<1>2. LogCalm(log, log') /\ log' \in Log /\ "unpipe" \in log'.meddled
  <2>1. log \in Log /\ "unpipe" \in Words
      BY DEF Typed, Words
  <2> QED BY <1>1, <2>1, LogMeddled
<1>3. Idle(stack, chain.sink) /\ Plain(stack, stack', chain.sink)
    BY <1>1, ScriptIdle DEF Unpipes, MayMeddle
<1>4. Grows
    BY <1>1, <1>2 DEF Grows, LogCalm
<1>5. Typed'
    BY <1>1, <1>2, SameChain DEF Typed
<1>6. FlowsAreHeard'
    BY <1>1, <1>2, <1>4, SameChain DEF Inv, FlowsAreHeard, Grows
<1>7. EndsHold' /\ SinkHolds' /\ HeardHolds' /\ ToldHolds' /\ MiddleHolds'
    BY <1>1, <1>2, <1>3, <1>4, JobsSame, EndsStay, SinkStays, HeardStays, ToldStays, MiddleStays DEF LogCalm
<1>8. EveryByteOnce'
    BY <1>1, <1>2, <1>4, BytesStay DEF LogCalm, Ate
<1> QED BY <1>5, <1>6, <1>7, <1>8 DEF Inv

LEMMA DestroysStep ==
    ASSUME Typed, Inv, NEW x \in Parts \cup (IF Piping THEN {"dst"} ELSE {}), NEW withError \in BOOLEAN,
           Destroys(x, withError), UNCHANGED lineVars
    PROVE  Typed' /\ Inv'
<1>1. /\ jobs' = jobs \o IF withError THEN <<Job("error", x)>> ELSE <<>>
      /\ sink' = IF x = "dst" /\ sink = "open" /\ chain.sink # "response" THEN "ended" ELSE sink
      /\ log' = [Meddled("destroy") EXCEPT !.destroyed = @ \cup {x}]
      /\ UNCHANGED <<chain, r, held, listening, watching, stack, rest>>
    BY DEF Destroys, lineVars
<1>2. x \in Places /\ (x = "dst" => Piping) /\ x \in {"src", "mid", "dst"}
    BY DEF Parts, Outlet, Places
<1>3. LogCalm(log, log') /\ log' \in Log /\ "destroy" \in log'.meddled
  <2>1. PICK lg \in Log : lg = Meddled("destroy") /\ LogCalm(log, lg) /\ "destroy" \in lg.meddled
    <3>1. log \in Log /\ "destroy" \in Words
        BY DEF Typed, Words
    <3> QED BY <3>1, LogMeddled
  <2>2. PICK d \in SUBSET Places : d = lg.destroyed \cup {x}
    <3>1. lg.destroyed \in SUBSET Places
        BY LogIs
    <3> QED BY <1>2, <3>1
  <2>3. log' = [lg EXCEPT !.destroyed = d]
      BY <1>1, <2>1, <2>2
  <2>4. log' \in Log
      BY <2>3, LogIs
  <2>5. LogCalm(lg, log') /\ log'.meddled = lg.meddled
      BY <2>3 DEF LogCalm, Log
  <2> QED BY <2>1, <2>4, <2>5 DEF LogCalm
<1>4. jobs' \in Seq(AJob) /\ JobsCalm(jobs, jobs')
  <2>1. PICK c \in AJob : c = Job("error", x) /\ c.do = "error"
      BY <1>2, JobIs
  <2>2. jobs \in Seq(AJob)
      BY DEF Typed
  <2>3. jobs' = jobs \/ jobs' = Append(jobs, c)
      BY <1>1, <2>1, <2>2, JobsJoinNone, JobsJoinOne
  <2> QED BY <2>1, <2>2, <2>3, JobsMore, JobsSame
<1>5. Idle(stack, chain.sink) /\ Plain(stack, stack', chain.sink)
    BY <1>1, ScriptIdle DEF Destroys, MayMeddle
<1>6. Grows
    BY <1>1, <1>3 DEF Grows, LogCalm
<1>7. Typed'
    BY <1>1, <1>3, <1>4, SameChain DEF Typed
<1>8. SinkHolds'
  <2>1. Waits(jobs', Job("finish", "dst")) => Waits(jobs, Job("finish", "dst"))
      BY <1>4, JobParts DEF JobsCalm
  <2> QED BY <1>1, <1>2, <1>3, <1>6, <2>1, SameChain DEF Inv, SinkHolds, Grows
<1>9. FlowsAreHeard' /\ EndsHold' /\ HeardHolds' /\ MiddleHolds'
    BY <1>1, <1>3, <1>4, <1>5, <1>6, FlowsStay, EndsStay, HeardStays, MiddleStays DEF LogCalm
<1>10. ToldHolds'
    BY <1>1, <1>3, <1>6, ToldStays DEF LogCalm
<1>11. EveryByteOnce'
    BY <1>1, <1>3, <1>6, BytesStay DEF LogCalm, Ate
<1> QED BY <1>7, <1>8, <1>9, <1>10, <1>11 DEF Inv

-----------------------------------------------------------------------------
(* The theorems.                                                           *)

(* Nothing has happened yet. *)
LEMMA Starts == ASSUME LinesInit PROVE Typed /\ Inv
<1>1. Readable \in Half
  <2>1. <<>> \in Seq(Chunks)
      BY EmptySeq
  <2> QED BY <2>1 DEF Readable, Half
<1>2. log \in Log
  <2>1. <<>> \in Bytes /\ <<>> \in Heard /\ <<>> \in Tellings /\ <<>> \in Seq(Bytes)
      BY BytesNone, EmptySeq DEF Null, Heard, Tellings
  <2> QED BY <2>1 DEF LinesInit, Init, Log
<1>3. Typed
  <2>1. <<>> \in Seq(Chunks) /\ <<>> \in Bytes
      BY BytesNone, EmptySeq DEF Null
  <2>2. Sound(stack, chain.sink)
      BY IdleNone, IdleIsSound DEF LinesInit, Init
  <2> QED BY <1>1, <1>2, <2>1, <2>2, JobsNone DEF LinesInit, Init, Typed
<1>4. /\ \A x \in Halves : r[x].buf = <<>> /\ ~r[x].ended /\ ~r[x].endEmitted /\ ~r[x].flowing
      /\ \A j : ~Waits(jobs, j)
      /\ Once(jobs) /\ stack = <<>> /\ sink = "open" /\ watching = {} /\ held.mid = <<>>
      /\ log.heard = <<>> /\ log.told = <<>> /\ log.settled = <<>> /\ log.wrote.mid = <<>> /\ log.wrote.dst = <<>>
      /\ \A x \in Halves : log.made[x] = <<>>
    BY JobsNone DEF LinesInit, Init, Readable
<1>5. Outlet \in Halves /\ "src" \in Halves /\ "mid" \in Halves
    BY OutletIs DEF Halves
<1>6. FlowsAreHeard /\ EndsHold /\ SinkHolds
    BY <1>4, <1>5 DEF FlowsAreHeard, EndsHold, SinkHolds
<1>7. HeardHolds /\ ToldHolds
  <2>1. ToSet(<<>>) = {} /\ DOMAIN <<>> = {} /\ Len(<<>>) = 0
      BY NoneOf DEF ToSet
  <2> QED BY <1>4, <2>1 DEF HeardHolds, LastHeard, ToldHolds
<1>8. <<>> \o <<>> = <<>>
    BY BytesNone, ConcatEmptySeq DEF Bytes, Null
<1>9. MiddleHolds
    BY <1>4, <1>5, <1>8, PushNone DEF MiddleHolds, MiddleEnds, CollectWaits, MiddleKeeps
<1>10. EveryByteOnce
  <2>1. Ate = <<>>
    <3>1. Data(<<>>) = <<>>
        BY DEF Data
    <3> QED BY <1>4, <3>1, FlattenNone DEF Ate
  <2>2. Buffered("src") = <<>> /\ Buffered(Outlet) = <<>>
      BY <1>4, <1>5, FlattenNone DEF Buffered
  <2> QED BY <1>4, <1>5, <1>8, <2>1, <2>2 DEF EveryByteOnce
<1> QED BY <1>3, <1>6, <1>7, <1>9, <1>10 DEF Inv

(* One step for each operation of the streams and of the readline interface. *)
LEMMA Stays == ASSUME Typed, Inv, [LinesNext]_allVars PROVE Typed' /\ Inv'
<1>1. CASE UNCHANGED allVars
  <2>1. UNCHANGED <<chain, r, held, sink, listening, watching, jobs, stack, log, rest>>
      BY <1>1 DEF allVars, vars, lineVars
  <2>2. Typed'
      BY <2>1, SameChain DEF Typed
  <2>3. Grows /\ Outlet' = Outlet /\ Piping' = Piping
      BY <2>1, SameChain DEF Grows
  <2>4. FlowsAreHeard' /\ EndsHold' /\ SinkHolds' /\ HeardHolds' /\ ToldHolds'
      BY <2>1, <2>3, JobsSame, FlowsStay, EndsStay, SinkStays, HeardStays, ToldStays
  <2>5. MiddleHolds'
      BY <2>1, <2>3 DEF Inv, MiddleHolds, MiddleEnds, CollectWaits, MiddleKeeps, Quiet
  <2>6. EveryByteOnce'
      BY <2>1, <2>3, BytesStay DEF Ate
  <2> QED BY <2>2, <2>4, <2>5, <2>6 DEF Inv
<1>2. CASE Calls /\ UNCHANGED lineVars
    BY <1>2, PushesStep, DrainEndsStep, DataToTransformStep, DataToWritableStep, DataToResponseStep,
       DataToConsumerStep, DataToNobodyStep, ReadReturnsStep DEF Calls
<1>3. CASE Jobs /\ UNCHANGED lineVars
    BY <1>3, DrainJobCalm, CalmKeeps, ErrorJobStep, EndOfSourceStep, FlushFailsStep, TransformFinishesStep,
       EndOfOutletStep, WritableFinishesStep DEF Jobs
<1>4. CASE Source /\ UNCHANGED lineVars
    BY <1>4, SourcePushesCalm, PullSettlesCalm, CalmKeeps, SourceFailsStep DEF Source
<1>5. CASE Callbacks /\ UNCHANGED lineVars
    BY <1>5, TransformAnswersStep, WriteIsDoneCalm, CalmKeeps, CallbackFailsStep, FinalCallsStep DEF Callbacks
<1>6. CASE Script /\ UNCHANGED lineVars
    BY <1>6, ConnectsStep, ListenerReturnsCalm, ReadsCalm, CalmKeeps, NextIsCalledStep, ScriptEndsStep,
       PausesCalm, ResumesStep, UnpipesStep, DestroysStep DEF Script
<1>7. CASE DataToInterface \/ EndOfInput
    BY <1>7, DataToInterfaceStep, EndOfInputStep
<1>8. CASE LineCall
    BY <1>8, LineAnswersCalm, LineEmittedCalm, ClosesCalm, CalmKeeps DEF LineCall
<1>9. CASE LineScript
    BY <1>9, AsksCalm, NextLineCalm, ScriptClosesCalm, IteratesCalm, CalmKeeps DEF LineScript
<1> QED BY <1>1, <1>2, <1>3, <1>4, <1>5, <1>6, <1>7, <1>8, <1>9 DEF LinesNext, Streams, Next

(* Past an end that was told nothing is held back: all bytes came out.      *)
LEMMA EndOfAll ==
    ASSUME Typed, Inv, Quiet, r[Outlet].endEmitted
    PROVE  Whole(log.made[Outlet]) /\ r[Outlet].buf = <<>>
<1>1. \A x \in Halves : r[x].endEmitted => r[x].ended /\ r[x].buf = <<>>
    BY DEF Inv, EndsHold, Quiet
<1>2. CASE Outlet = "src"
    BY <1>1, <1>2 DEF Whole, Halves
<1>3. CASE Outlet = "mid"
  <2>1. r["mid"].ended /\ r["mid"].buf = <<>> /\ r["src"].endEmitted
      BY <1>1, <1>3 DEF Inv, MiddleHolds, MiddleEnds, Halves
  <2>2. r["src"].ended /\ Buffered("src") = <<>>
      BY <1>1, <2>1, FlattenNone DEF Halves, Buffered
  <2>3. log.wrote.mid \in Bytes /\ log.made["mid"] \in Bytes
      BY LogIs DEF Typed, Halves
  <2>4. PICK a \in Bytes, b \in Bytes : a = log.wrote.mid /\ b = log.made["mid"]
      BY <2>3
  <2>5. a \o <<>> = a /\ b \o <<>> = b
      BY ConcatEmptySeq DEF Bytes
  <2>6. log.made.src = a
      BY <1>3, <2>2, <2>4, <2>5 DEF Inv, EveryByteOnce, Quiet
  <2>7. ASSUME chain.middle # "later" PROVE a = b
    <3>1. chain.middle = "map" \/ chain.middle = "collect"
        BY <1>3, <2>7, ChainIs DEF Outlet, Typed
    <3>2. Carried(stack) = <<>> /\ MiddleKeeps
        BY <1>3, <2>1, <2>7 DEF Inv, MiddleHolds
    <3> QED BY <2>1, <2>4, <2>5, <3>1, <3>2 DEF MiddleKeeps
  <2> QED BY <1>3, <2>1, <2>2, <2>4, <2>6, <2>7 DEF Whole
<1> QED BY <1>2, <1>3, OutletIs

(* An end of the chain, wherever it shows, means that nothing is on the way. *)
LEMMA EndIsWhole == ASSUME Typed, Inv PROVE EndMeansWhole
<1>1. log \in Log /\ log.wrote.dst \in Bytes /\ log.heard \in Heard /\ log.settled \in Seq(Bytes)
    BY LogIs DEF Typed
<1>2. ASSUME Quiet, sink # "open" PROVE Whole(log.wrote.dst)
  <2>1. Piping /\ r[Outlet].endEmitted
      BY <1>2 DEF Inv, SinkHolds, Quiet
  <2>2. Whole(log.made[Outlet]) /\ Buffered(Outlet) = <<>>
      BY <1>2, <2>1, EndOfAll, FlattenNone DEF Buffered
  <2>3. log.wrote.dst \o <<>> = log.wrote.dst
      BY <1>1, ConcatEmptySeq DEF Bytes
  <2>4. log.made[Outlet] = log.wrote.dst
      BY <1>2, <2>1, <2>2, <2>3 DEF Inv, EveryByteOnce, Quiet
  <2> QED BY <2>2, <2>4
<1>3. ASSUME Quiet, Null \in ToSet(log.heard), chain.sink # "iterator" PROVE Whole(Ate)
  <2>1. ~Piping /\ r[Outlet].endEmitted
      BY <1>3 DEF Inv, HeardHolds
  <2>2. Whole(log.made[Outlet]) /\ Buffered(Outlet) = <<>>
      BY <1>3, <2>1, EndOfAll, FlattenNone DEF Buffered
  <2>3. chain.sink \in {"listener", "reader", "lines"}
      BY <1>3, <2>1, ChainIs DEF Piping, Typed
  <2>4. PICK a \in Bytes : a = Ate
      BY <1>1, AteMore DEF Ate
  <2>5. a \o <<>> = a
      BY ConcatEmptySeq DEF Bytes
  <2>6. log.made[Outlet] = a
      BY <2>2, <2>3, <2>4, <2>5 DEF Inv, EveryByteOnce
  <2> QED BY <2>2, <2>4, <2>6
<1>4. ASSUME Quiet, NEW body \in ToSet(log.settled) PROVE Whole(body)
  <2>1. Len(log.settled) \in Nat /\ Len(log.settled) <= 1 /\ DOMAIN log.settled = 1..Len(log.settled)
      BY <1>1 DEF Inv, ToldHolds
  <2>2. PICK i \in 1..Len(log.settled) : body = log.settled[i]
      BY <1>4, <2>1 DEF ToSet
  <2>3. i = 1 /\ log.settled # <<>>
      BY <2>1, <2>2
  <2>4. body = log.wrote.dst /\ sink # "open"
      BY <1>4, <2>2, <2>3 DEF Inv, ToldHolds
  <2> QED BY <1>2, <1>4, <2>4
<1>5. "finish" \in ToSet(log.told) => sink # "open"
    BY DEF Inv, ToldHolds
<1> QED BY <1>2, <1>3, <1>4, <1>5 DEF EndMeansWhole, Quiet, Inv, HeardHolds, LastHeard, ToldHolds

(* No byte is lost, repeated or overtaken, over any chain: what a stream    *)
(* was given by push() is, in its order, what its consumer was handed and   *)
(* what its buffer still holds (Readable.push and read(), pipe()).          *)
THEOREM BytesAreKept == Spec => []EveryByteOnce
<1>1. LinesInit => Typed /\ Inv
    BY Starts
<1>2. Typed /\ Inv /\ [LinesNext]_allVars => (Typed /\ Inv)'
    BY Stays
<1>3. Typed /\ Inv => EveryByteOnce
    BY DEF Inv
<1> QED BY <1>1, <1>2, <1>3, PTL DEF Spec

(* Where no script takes the streams apart, "finish" of the sink, the end   *)
(* that a consumer hears and the body that a response settles with come     *)
(* after the last byte the source made: pipe() ends its destination on      *)
(* "end" only, and endReadable waits for an empty buffer.                   *)
THEOREM EndsAreWhole == Spec => []EndMeansWhole
<1>1. LinesInit => Typed /\ Inv
    BY Starts
<1>2. Typed /\ Inv /\ [LinesNext]_allVars => (Typed /\ Inv)'
    BY Stays
<1>3. Typed /\ Inv => EndMeansWhole
    BY EndIsWhole
<1> QED BY <1>1, <1>2, <1>3, PTL DEF Spec

-----------------------------------------------------------------------------
(* The lines of a text, and what one byte more makes of them.              *)
LineBy(left, x) == IF x \in Newlines THEN <<left>> ELSE <<>>
RestBy(left, x) == IF x \in Newlines THEN <<>> ELSE Append(left, x)

Longer(u, a, x, n) ==
    /\ u \in Bytes /\ Len(u) = n + 1 /\ u[n + 1] = x /\ \A i \in 1..n : u[i] = a[i]
    /\ Cuts(u) = Cuts(a) \cup {i \in {n + 1} : x \in Newlines}
    /\ \A i \in 1..(n + 1) : {j \in Cuts(u) : j < i} = {j \in Cuts(a) : j < i}
    /\ {j \in Cuts(u) : j < n + 1} = Cuts(a)

LEMMA CutsAppend ==
    ASSUME NEW a \in Bytes, NEW x \in Byte
    PROVE  Longer(Append(a, x), a, x, Len(a))
<1>0. PICK n \in Nat, u \in {Append(a, x)} : n = Len(a) /\ u = Append(a, x)
    BY CutsOf
<1>1. u \in Bytes /\ Len(u) = n + 1 /\ u[n + 1] = x /\ \A i \in 1..n : u[i] = a[i]
    BY <1>0, AppendProperties DEF Bytes
<1>2. DOMAIN u = 1..(n + 1) /\ DOMAIN a = 1..n
    BY <1>0, <1>1, CutsOf
<1>3. Cuts(u) = Cuts(a) \cup {i \in {n + 1} : x \in Newlines}
  <2>1. 1..(n + 1) = 1..n \cup {n + 1}
      OBVIOUS
  <2>2. Cuts(u) = {0} \cup {i \in 1..(n + 1) : u[i] \in Newlines}
      BY <1>2, Zenon DEF Cuts
  <2>3. Cuts(a) = {0} \cup {i \in 1..n : a[i] \in Newlines}
      BY <1>2, Zenon DEF Cuts
  <2>4. {i \in 1..n \cup {n + 1} : u[i] \in Newlines} = {i \in 1..n : a[i] \in Newlines} \cup {i \in {n + 1} : x \in Newlines}
      BY <1>1
  <2> QED BY <2>1, <2>2, <2>3, <2>4
<1>4. Cuts(a) \subseteq 0..n
    BY <1>0, CutsOf
<1>5. PICK A, U : A = Cuts(a) /\ U = Cuts(u)
    OBVIOUS
<1>6. U = A \cup {i \in {n + 1} : x \in Newlines} /\ A \subseteq 0..n
    BY <1>3, <1>4, <1>5
<1>7. ASSUME NEW i \in 1..(n + 1) PROVE {j \in U : j < i} = {j \in A : j < i}
  <2>1. ~(n + 1 < i)
      OBVIOUS
  <2> QED BY <1>6, <2>1
<1>8. {j \in U : j < n + 1} = A
  <2>1. \A j \in A : j < n + 1
      BY <1>6
  <2>2. ~(n + 1 < n + 1)
      OBVIOUS
  <2> QED BY <1>6, <2>1, <2>2
<1>9. Longer(u, a, x, n)
    BY <1>1, <1>3, <1>5, <1>7, <1>8 DEF Longer
<1> QED BY <1>0, <1>9

LEMMA LinesAppend ==
    ASSUME NEW a \in Bytes, NEW x \in Byte
    PROVE  /\ LinesOf(Append(a, x)) = LinesOf(a) \o LineBy(RestOf(a), x)
           /\ RestOf(Append(a, x)) = RestBy(RestOf(a), x)
<1>1. PICK n \in Nat, u \in {Append(a, x)} : n = Len(a) /\ u = Append(a, x)
    BY CutsOf
<1>2. /\ u \in Bytes /\ Len(u) = n + 1 /\ u[n + 1] = x /\ \A i \in 1..n : u[i] = a[i]
      /\ Cuts(u) = Cuts(a) \cup {i \in {n + 1} : x \in Newlines}
      /\ \A i \in 1..(n + 1) : {j \in Cuts(u) : j < i} = {j \in Cuts(a) : j < i}
      /\ {j \in Cuts(u) : j < n + 1} = Cuts(a)
  <2>1. Longer(u, a, x, n)
      BY <1>1, CutsAppend
  <2> QED BY <2>1 DEF Longer
<1>3. PICK m \in 0..n : m = Max(Cuts(a))
    BY <1>1, CutsOf
<1>4. RestOf(a) = SubSeq(a, m + 1, n) /\ RestOf(a) \in Bytes
    BY <1>1, <1>3, RestType DEF RestOf
<1>5. ASSUME NEW i \in 1..n PROVE PieceAt(u, i) = PieceAt(a, i)
  <2>1. i \in 1..(n + 1) /\ i \in 1..(Len(a) + 1)
      BY <1>1
  <2>2. PICK k \in 0..(i - 1) : k = Max({j \in Cuts(a) : j < i})
      BY <2>1, CutsOf
  <2>3. k = Max({j \in Cuts(u) : j < i})
      BY <1>2, <2>1, <2>2, Zenon
  <2>4. k + 1 \in Nat /\ k + 1 >= 1 /\ i - 1 \in Nat /\ i - 1 <= n
      OBVIOUS
  <2>5. SubSeq(u, k + 1, i - 1) = SubSeq(a, k + 1, i - 1)
      BY <1>1, <2>4, SubSeqOfAppend DEF Bytes
  <2>6. LineAt(u, i) = LineAt(a, i)
      BY <2>2, <2>3, <2>5, Zenon DEF LineAt
  <2> QED BY <1>2, <2>6, Zenon DEF PieceAt
<1>6. PieceAt(u, n + 1) = LineBy(RestOf(a), x)
  <2>1. SubSeq(u, m + 1, n) = SubSeq(a, m + 1, n)
    <3>1. m + 1 \in Nat /\ m + 1 >= 1 /\ n \in Nat /\ n <= Len(a)
        BY <1>1
    <3> QED BY <1>1, <3>1, SubSeqOfAppend DEF Bytes
  <2>2. LineAt(u, n + 1) = SubSeq(u, m + 1, (n + 1) - 1)
      BY <1>2, <1>3, Zenon DEF LineAt
  <2>3. (n + 1) - 1 = n
      OBVIOUS
  <2>4. LineAt(u, n + 1) = RestOf(a)
      BY <1>4, <2>1, <2>2, <2>3, Zenon
  <2> QED BY <1>2, <2>4, Zenon DEF PieceAt, LineBy
<1>7. LinesOf(u) = LinesOf(a) \o LineBy(RestOf(a), x)
  <2>1. PICK p, q, e : p = Pieces(a) /\ q = Pieces(u) /\ e = LineBy(RestOf(a), x)
      OBVIOUS
  <2>2. /\ p \in Seq(Seq(Bytes)) /\ Len(p) = n
        /\ \A i \in 1..n : p[i] = PieceAt(a, i)
      BY <1>1, <2>1, PiecesAre
  <2>3. /\ q \in Seq(Seq(Bytes)) /\ Len(q) = n + 1
        /\ \A i \in 1..(n + 1) : q[i] = PieceAt(u, i)
      BY <1>2, <2>1, PiecesAre
  <2>4. e \in Seq(Bytes) /\ q[n + 1] = e
    <3>1. n + 1 \in 1..(n + 1)
        OBVIOUS
    <3>2. q[n + 1] = e
        BY <1>6, <2>1, <2>3, <3>1
    <3> QED BY <2>3, <3>1, <3>2, ElementOfSeq
  <2>5. \A i \in 1..n : q[i] = p[i]
    <3>1. \A i \in 1..n : i \in 1..(n + 1)
        OBVIOUS
    <3> QED BY <1>5, <2>2, <2>3, <3>1
  <2>6. q = Append(p, e)
    <3>1. PICK w : w = Append(p, e)
        OBVIOUS
    <3>2. /\ w \in Seq(Seq(Bytes)) /\ Len(w) = n + 1 /\ w[n + 1] = e
          /\ \A i \in 1..n : w[i] = p[i]
        BY <2>2, <2>4, <3>1, AppendProperties
    <3>3. \A i \in 1..(n + 1) : i \in 1..n \/ i = n + 1
        OBVIOUS
    <3>4. \A i \in 1..(n + 1) : q[i] = w[i]
        BY <2>4, <2>5, <3>2, <3>3
    <3>5. q = w
        BY <2>3, <3>2, <3>4, SeqEqual
    <3> QED BY <3>1, <3>5
  <2>7. Joined(FlattenSeq(Append(p, e)), FlattenSeq(p), e)
      BY <2>2, <2>4, FlattenAppend
  <2> QED BY <2>1, <2>6, <2>7, LinesOfIs DEF Joined
<1>8. RestOf(u) = RestBy(RestOf(a), x)
  <2>1. CASE x \in Newlines
    <3>1. Cuts(u) = Cuts(a) \cup {n + 1} /\ Cuts(a) \subseteq 0..n
        BY <1>1, <1>2, <2>1, CutsOf
    <3>2. Cuts(u) \subseteq 0..(n + 1) /\ n + 1 \in Cuts(u) /\ \A y \in Cuts(u) : y <= n + 1
        BY <3>1
    <3>3. Max(Cuts(u)) = n + 1
      <4>1. n + 1 \in Nat
          OBVIOUS
      <4> QED BY <3>2, <4>1, MaxUnique
    <3>4. SubSeq(u, (n + 1) + 1, n + 1) = <<>>
      <4>1. (n + 1) + 1 \in Int /\ n + 1 \in Int /\ n + 1 < (n + 1) + 1
          OBVIOUS
      <4> QED BY <4>1, SubSeqEmpty
    <3> QED BY <1>2, <2>1, <3>3, <3>4, Zenon DEF RestOf, RestBy
  <2>2. CASE x \notin Newlines
    <3>1. Cuts(u) = Cuts(a)
        BY <1>2, <2>2
    <3>2. RestOf(u) = SubSeq(u, m + 1, n + 1)
        BY <1>2, <1>3, <3>1, Zenon DEF RestOf
    <3>3. m + 1 \in 1..Len(u) /\ n + 1 \in (m + 1)..Len(u) /\ (n + 1) - 1 = n
        BY <1>2
    <3>4. SubSeq(u, m + 1, n + 1) = SubSeq(u, m + 1, (n + 1) - 1) \o <<u[n + 1]>>
      <4>1. u \in Seq(Byte)
          BY <1>2 DEF Bytes
      <4> QED BY <3>3, <4>1, SubSeqRecursiveSecond
    <3>5. SubSeq(u, m + 1, n) = SubSeq(a, m + 1, n)
      <4>1. m + 1 \in Nat /\ m + 1 >= 1 /\ n \in Nat /\ n <= Len(a)
          BY <1>1
      <4> QED BY <1>1, <4>1, SubSeqOfAppend DEF Bytes
    <3>6. RestOf(u) = RestOf(a) \o <<x>>
        BY <1>2, <1>4, <3>2, <3>3, <3>4, <3>5, Zenon
    <3>7. Append(RestOf(a), x) = RestOf(a) \o <<x>>
        BY <1>4, AppendIsConcat DEF Bytes
    <3> QED BY <2>2, <3>6, <3>7, Zenon DEF RestBy
  <2> QED BY <2>1, <2>2
<1> QED BY <1>1, <1>7, <1>8

LEMMA LinesNone == LinesOf(<<>>) = <<>> /\ RestOf(<<>>) = <<>>
<1>1. <<>> \in Bytes /\ Len(<<>>) = 0
    BY EmptySeq DEF Bytes
<1>2. Pieces(<<>>) = <<>>
  <2>1. Pieces(<<>>) \in Seq(Seq(Bytes)) /\ Len(Pieces(<<>>)) = 0
      BY <1>1, PiecesAre
  <2> QED BY <2>1, EmptySeq
<1>3. Max(Cuts(<<>>)) \in 0..0
    BY <1>1, CutsOf
<1>4. SubSeq(<<>>, Max(Cuts(<<>>)) + 1, 0) = <<>>
  <2>1. PICK m \in Nat : m = Max(Cuts(<<>>))
      BY <1>3
  <2>2. m + 1 \in Int /\ 0 \in Int /\ 0 < m + 1
      OBVIOUS
  <2>3. SubSeq(<<>>, m + 1, 0) = <<>>
      BY <2>2, SubSeqEmpty
  <2> QED BY <2>1, <2>3
<1> QED BY <1>1, <1>2, <1>4, FlattenNone, LinesOfIs DEF RestOf

(* What is left has no line in it.                                         *)
LEMMA RestRests ==
    ASSUME NEW a \in Bytes
    PROVE  LinesOf(RestOf(a)) = <<>> /\ RestOf(RestOf(a)) = RestOf(a)
<1> DEFINE T == {c \in Bytes : LinesOf(RestOf(c)) = <<>> /\ RestOf(RestOf(c)) = RestOf(c)}
<1>1. <<>> \in T
    BY LinesNone, BytesNone DEF Null
<1>2. ASSUME NEW d \in Seq(Byte), NEW x \in Byte, d \in T PROVE Append(d, x) \in T
  <2>1. d \in Bytes /\ Append(d, x) \in Bytes /\ RestOf(d) \in Bytes
      BY AppendProperties, RestType DEF Bytes
  <2>2. RestOf(Append(d, x)) = RestBy(RestOf(d), x)
      BY <2>1, LinesAppend
  <2>3. CASE x \in Newlines
      BY <2>1, <2>2, <2>3, LinesNone DEF RestBy
  <2>4. CASE x \notin Newlines
    <3>1. RestOf(Append(d, x)) = Append(RestOf(d), x)
        BY <2>2, <2>4 DEF RestBy
    <3>2. /\ LinesOf(Append(RestOf(d), x)) = LinesOf(RestOf(d)) \o LineBy(RestOf(RestOf(d)), x)
          /\ RestOf(Append(RestOf(d), x)) = RestBy(RestOf(RestOf(d)), x)
        BY <2>1, LinesAppend
    <3>3. LinesOf(RestOf(d)) = <<>> /\ RestOf(RestOf(d)) = RestOf(d)
        BY <1>2
    <3>4. <<>> \o <<>> = <<>>
        BY <2>1, ConcatEmptySeq DEF Bytes
    <3> QED BY <2>1, <2>4, <3>1, <3>2, <3>3, <3>4 DEF LineBy, RestBy
  <2> QED BY <2>3, <2>4
<1>3. Seq(Byte) \subseteq T
  <2> HIDE DEF T
  <2> QED BY <1>1, <1>2, SeqGrows
<1> QED BY <1>3 DEF Bytes

(* The chunks of a text can be split one after the other.                  *)
FedBy(a, c) ==
    /\ LinesOf(a \o c) = LinesOf(a) \o LinesOf(RestOf(a) \o c)
    /\ RestOf(a \o c) = RestOf(RestOf(a) \o c)

LEMMA FeedsLines == ASSUME NEW a \in Bytes, NEW c \in Bytes PROVE FedBy(a, c)
<1>0. PICK left \in Bytes : left = RestOf(a)
    BY RestType
<1>1. LinesOf(a) \in Seq(Bytes) /\ LinesOf(left) = <<>> /\ RestOf(left) = left
    BY <1>0, LinesType, RestRests
<1> DEFINE T == {d \in Bytes : FedBy(a, d)}
<1>2. <<>> \in T
  <2>1. a \o <<>> = a /\ left \o <<>> = left /\ LinesOf(a) \o <<>> = LinesOf(a)
      BY <1>1, ConcatEmptySeq DEF Bytes
  <2> QED BY <1>0, <1>1, <2>1, BytesNone DEF FedBy, Null
<1>3. ASSUME NEW d \in Seq(Byte), NEW x \in Byte, d \in T PROVE Append(d, x) \in T
  <2>1. d \in Bytes /\ Append(d, x) \in Bytes
      BY AppendProperties DEF Bytes
  <2>2. PICK u \in Bytes, w \in Bytes : u = a \o d /\ w = left \o d
      BY <2>1, BytesJoin
  <2>3. a \o Append(d, x) = Append(u, x) /\ left \o Append(d, x) = Append(w, x)
    <3>1. <<x>> \in Seq(Byte)
        OBVIOUS
    <3>2. Associates(a, d, <<x>>) /\ Associates(left, d, <<x>>)
        BY <3>1, SeqsAssociate DEF Bytes
    <3>3. Append(d, x) = d \o <<x>> /\ Append(u, x) = u \o <<x>> /\ Append(w, x) = w \o <<x>>
        BY AppendIsConcat DEF Bytes
    <3> QED BY <2>2, <3>2, <3>3, Zenon DEF Associates
  <2>4. /\ LinesOf(Append(u, x)) = LinesOf(u) \o LineBy(RestOf(u), x)
        /\ RestOf(Append(u, x)) = RestBy(RestOf(u), x)
      BY LinesAppend
  <2>5. /\ LinesOf(Append(w, x)) = LinesOf(w) \o LineBy(RestOf(w), x)
        /\ RestOf(Append(w, x)) = RestBy(RestOf(w), x)
      BY LinesAppend
  <2>6. LinesOf(u) = LinesOf(a) \o LinesOf(w) /\ RestOf(u) = RestOf(w)
      BY <1>0, <1>3, <2>2 DEF FedBy
  <2>7. PICK e \in Seq(Bytes) : e = LineBy(RestOf(w), x)
    <3>1. RestOf(w) \in Bytes
        BY RestType
    <3>2. <<RestOf(w)>> \in Seq(Bytes)
        BY <3>1
    <3>3. <<>> \in Seq(Bytes)
        OBVIOUS
    <3> QED BY <3>2, <3>3 DEF LineBy
  <2>8. (LinesOf(a) \o LinesOf(w)) \o e = LinesOf(a) \o (LinesOf(w) \o e)
    <3>1. LinesOf(w) \in Seq(Bytes)
        BY LinesType
    <3>2. Associates(LinesOf(a), LinesOf(w), e)
        BY <1>1, <3>1, SeqsAssociate
    <3> QED BY <3>2 DEF Associates
  <2>9. /\ LinesOf(Append(u, x)) = LinesOf(a) \o LinesOf(Append(w, x))
        /\ RestOf(Append(u, x)) = RestOf(Append(w, x))
      BY <2>4, <2>5, <2>6, <2>7, <2>8, Zenon
  <2>10. FedBy(a, Append(d, x))
      BY <1>0, <2>3, <2>9, Zenon DEF FedBy
  <2> QED BY <2>1, <2>10
<1>4. Seq(Byte) \subseteq T
  <2> HIDE DEF T
  <2> QED BY <1>2, <1>3, SeqGrows
<1> QED BY <1>4 DEF Bytes

-----------------------------------------------------------------------------
(* The lines under way: the calls for them, the innermost first.           *)
IsLine(c) == c.do = "line"
Lined(s) == IsSeq(s) /\ \A i \in 1..Len(s) : LineIn(s[i]) \in Seq(Bytes)
Turned(s) == [i \in 1..Len(s) |-> LineIn(s[(Len(s) - i) + 1])]
UnderOf(s) == FlattenSeq(Turned(s))

LEMMA UnderIs == ASSUME IsSeq(stack) PROVE LinesUnderWay = UnderOf(stack)
<1>1. PICK n \in Nat : n = Len(stack) /\ DOMAIN stack = 1..n
    BY LenProperties DEF IsSeq
<1>2. \A i \in 1..n : Reverse(stack)[i] = stack[(n - i) + 1]
    BY <1>1 DEF Reverse
<1>3. [i \in DOMAIN stack |-> LineIn(Reverse(stack)[i])] = Turned(stack)
    BY <1>1, <1>2 DEF Turned
<1> QED BY <1>3 DEF LinesUnderWay, UnderOf

LEMMA LineInIs ==
    ASSUME NEW c
    PROVE  /\ ~IsLine(c) => LineIn(c) = <<>> /\ LineIn(c) \in Seq(Bytes)
           /\ IsLine(c) => LineIn(c) = <<c.chunk>>
           /\ IsLine(c) /\ LineIn(c) \in Seq(Bytes) => c.chunk \in Bytes
           /\ c.chunk \in Bytes => LineIn(c) \in Seq(Bytes)
<1>1. <<>> \in Seq(Bytes)
    OBVIOUS
<1>2. ASSUME <<c.chunk>> \in Seq(Bytes) PROVE c.chunk \in Bytes
  <2>1. Len(<<c.chunk>>) = 1 /\ <<c.chunk>>[1] = c.chunk
      OBVIOUS
  <2> QED BY <1>2, <2>1, ElementOfSeq
<1>3. c.chunk \in Bytes => <<c.chunk>> \in Seq(Bytes)
    OBVIOUS
<1> QED BY <1>1, <1>2, <1>3 DEF LineIn, IsLine

LEMMA TurnedIs ==
    ASSUME NEW s, Lined(s)
    PROVE  /\ Turned(s) \in Seq(Seq(Bytes)) /\ Len(Turned(s)) = Len(s) /\ Len(s) \in Nat
           /\ UnderOf(s) \in Seq(Bytes)
<1>1. PICK n \in Nat : n = Len(s)
    BY LenProperties DEF Lined, IsSeq
<1>2. \A i \in 1..n : (n - i) + 1 \in 1..n
    OBVIOUS
<1>3. \A i \in 1..n : LineIn(s[(n - i) + 1]) \in Seq(Bytes)
    BY <1>1, <1>2 DEF Lined
<1>4. Turned(s) \in [1..n -> Seq(Bytes)]
    BY <1>1, <1>3 DEF Turned
<1>5. Turned(s) \in Seq(Seq(Bytes)) /\ Len(Turned(s)) = n
    BY <1>4
<1>6. UnderOf(s) \in Seq(Bytes)
    BY <1>5, FlattenType DEF UnderOf
<1> QED BY <1>1, <1>5, <1>6

LEMMA UnderAppend ==
    ASSUME NEW s, Lined(s), NEW c, LineIn(c) \in Seq(Bytes)
    PROVE  Lined(Append(s, c)) /\ UnderOf(Append(s, c)) = LineIn(c) \o UnderOf(s)
<1>1. PICK n \in Nat, u \in {Append(s, c)} : n = Len(s) /\ u = Append(s, c)
    BY TurnedIs
<1>2. /\ IsSeq(u) /\ Len(u) = n + 1 /\ u[n + 1] = c
      /\ \A i \in 1..n : u[i] = s[i]
    BY <1>1, AppendOf DEF Lined
<1>3. Lined(u)
  <2>1. \A i \in 1..(n + 1) : i \in 1..n \/ i = n + 1
      OBVIOUS
  <2> QED BY <1>1, <1>2, <2>1 DEF Lined
<1>4. PICK q, p : q = Turned(u) /\ p = Turned(s)
    OBVIOUS
<1>5. /\ q \in Seq(Seq(Bytes)) /\ Len(q) = n + 1
      /\ p \in Seq(Seq(Bytes)) /\ Len(p) = n
    BY <1>1, <1>2, <1>3, <1>4, TurnedIs
<1>6. q # <<>>
    BY <1>5, EmptySeq
<1>7. Head(q) = LineIn(c)
  <2>1. 1 \in 1..(n + 1) /\ ((n + 1) - 1) + 1 = n + 1
      OBVIOUS
  <2>2. q[1] = LineIn(u[((n + 1) - 1) + 1])
      BY <1>2, <1>4, <2>1, Zenon DEF Turned
  <2>3. Head(q) = q[1]
      BY <1>5, <1>6
  <2> QED BY <1>2, <2>1, <2>2, <2>3
<1>8. Tail(q) = p
  <2>1. /\ Tail(q) \in Seq(Seq(Bytes)) /\ Len(Tail(q)) = (n + 1) - 1
        /\ \A i \in 1..Len(Tail(q)) : Tail(q)[i] = q[i + 1]
      BY <1>5, <1>6, HeadTailProperties
  <2>2. (n + 1) - 1 = n
      OBVIOUS
  <2>3. ASSUME NEW i \in 1..n PROVE q[i + 1] = p[i]
    <3>1. i + 1 \in 1..(n + 1) /\ (n - i) + 1 \in 1..n /\ ((n + 1) - (i + 1)) + 1 = (n - i) + 1
        OBVIOUS
    <3>2. q[i + 1] = LineIn(u[((n + 1) - (i + 1)) + 1])
        BY <1>2, <1>4, <3>1, Zenon DEF Turned
    <3>3. p[i] = LineIn(s[(n - i) + 1])
        BY <1>1, <1>4, Zenon DEF Turned
    <3> QED BY <1>2, <3>1, <3>2, <3>3
  <2>4. \A i \in 1..n : Tail(q)[i] = p[i]
      BY <2>1, <2>2, <2>3
  <2> QED BY <1>5, <2>1, <2>2, <2>4, SeqEqual
<1>9. Joined(FlattenSeq(q), Head(q), FlattenSeq(Tail(q)))
    BY <1>5, <1>6, FlattenTail
<1> QED BY <1>1, <1>3, <1>4, <1>7, <1>8, <1>9 DEF Joined, UnderOf

LEMMA FrontAppends == ASSUME NEW s, IsSeq(s), s # <<>> PROVE s = Append(Front(s), s[Len(s)])
<1>1. PICK S : s \in Seq(S)
    BY DEF IsSeq
<1>2. PICK n \in Nat : n + 1 = Len(s)
  <2>1. Len(s) \in Nat \ {0}
      BY <1>1, EmptySeq
  <2>2. Len(s) - 1 \in Nat /\ (Len(s) - 1) + 1 = Len(s)
      BY <2>1
  <2> QED BY <2>2
<1>3. \A i \in 1..(n + 1) : s[i] \in S
    BY <1>1, <1>2, ElementOfSeq
<1>4. Front(s) = SubSeq(s, 1, n)
  <2>1. Len(s) - 1 = n
      BY <1>2
  <2> QED BY <2>1 DEF Front
<1>5. PICK t : t = Front(s)
    OBVIOUS
<1>6. t \in Seq(S) /\ Len(t) = n /\ \A i \in 1..n : t[i] = s[i]
  <2>1. 1 \in Int /\ n \in Int /\ \A i \in 1..n : s[i] \in S
      BY <1>3
  <2>2. /\ SubSeq(s, 1, n) \in Seq(S)
        /\ Len(SubSeq(s, 1, n)) = IF 1 <= n THEN (n - 1) + 1 ELSE 0
        /\ \A i \in 1..((n - 1) + 1) : SubSeq(s, 1, n)[i] = s[(1 + i) - 1]
      BY <2>1, SubSeqProperties
  <2>3. t = SubSeq(s, 1, n)
      BY <1>4, <1>5
  <2> QED BY <2>2, <2>3
<1>7. PICK e \in S : e = s[n + 1]
    BY <1>3
<1>8. PICK w : w = Append(t, e)
    OBVIOUS
<1>9. w \in Seq(S) /\ Len(w) = n + 1 /\ w[n + 1] = e /\ \A i \in 1..n : w[i] = t[i]
    BY <1>6, <1>8, AppendProperties
<1>10. \A i \in 1..(n + 1) : s[i] = w[i]
  <2>1. \A i \in 1..(n + 1) : i \in 1..n \/ i = n + 1
      OBVIOUS
  <2> QED BY <1>6, <1>7, <1>9, <2>1
<1>11. s = w
    BY <1>1, <1>2, <1>9, <1>10, SeqEqual
<1> QED BY <1>2, <1>5, <1>7, <1>8, <1>11

LEMMA UnderFront ==
    ASSUME NEW s, Lined(s), s # <<>>
    PROVE  /\ Lined(Front(s)) /\ LineIn(s[Len(s)]) \in Seq(Bytes)
           /\ UnderOf(s) = LineIn(s[Len(s)]) \o UnderOf(Front(s))
<1>1. IsSeq(s)
    BY DEF Lined
<1>2. /\ IsSeq(Front(s)) /\ Len(s) \in Nat /\ Len(s) > 0 /\ Len(Front(s)) = Len(s) - 1
      /\ \A i \in 1..(Len(s) - 1) : Front(s)[i] = s[i]
    BY <1>1, FrontOf
<1>3. Len(s) \in 1..Len(s) /\ \A i \in 1..(Len(s) - 1) : i \in 1..Len(s)
    BY <1>2
<1>4. Lined(Front(s)) /\ LineIn(s[Len(s)]) \in Seq(Bytes)
    BY <1>2, <1>3 DEF Lined
<1>5. PICK t, e : t = Front(s) /\ e = s[Len(s)]
    OBVIOUS
<1>6. s = Append(t, e)
    BY <1>1, <1>5, FrontAppends
<1>7. UnderOf(Append(t, e)) = LineIn(e) \o UnderOf(t)
    BY <1>4, <1>5, UnderAppend
<1> QED BY <1>4, <1>5, <1>6, <1>7

LEMMA LineCallsAre ==
    ASSUME NEW q \in Seq(Bytes)
    PROVE  /\ IsSeq(LineCalls(q)) /\ Len(LineCalls(q)) = Len(q)
           /\ \A i \in 1..Len(q) : LineCalls(q)[i] = Call("line", Outlet, q[(Len(q) - i) + 1])
<1>1. PICK n \in Nat : n = Len(q) /\ DOMAIN q = 1..n
    BY LenProperties
<1> DEFINE t == [k \in 1..n |-> Call("line", Outlet, q[k])]
           T == {Call("line", Outlet, q[k]) : k \in 1..n}
           u == [i \in 1..n |-> t[(n - i) + 1]]
<1>2. t \in Seq(T) /\ Len(t) = n
  <2>1. t \in [1..n -> T]
      OBVIOUS
  <2> HIDE DEF t, T
  <2> QED BY <2>1
<1>3. LineCalls(q) = u
    BY <1>1, <1>2 DEF LineCalls, Reverse
<1>4. \A i \in 1..n : (n - i) + 1 \in 1..n
    OBVIOUS
<1>5. u \in [1..n -> T]
    BY <1>4
<1>6. \A i \in 1..n : u[i] = Call("line", Outlet, q[(n - i) + 1])
    BY <1>4
<1> HIDE DEF u, T
<1>7. u \in Seq(T) /\ Len(u) = n
    BY <1>5
<1> QED BY <1>1, <1>3, <1>6, <1>7 DEF IsSeq

LEMMA UnderJoin ==
    ASSUME NEW s, Lined(s), NEW q \in Seq(Bytes)
    PROVE  Lined(s \o LineCalls(q)) /\ UnderOf(s \o LineCalls(q)) = q \o UnderOf(s)
<1>1. PICK m \in Nat, n \in Nat, t \in {LineCalls(q)}, u \in {s \o LineCalls(q)} : m = Len(s) /\ n = Len(q) /\ t = LineCalls(q) /\ u = s \o t
    BY TurnedIs, LenProperties
<1>2. /\ IsSeq(t) /\ Len(t) = n
      /\ \A i \in 1..n : t[i] = Call("line", Outlet, q[(n - i) + 1])
    BY <1>1, LineCallsAre
<1>3. /\ IsSeq(u) /\ Len(u) = m + n
      /\ \A i \in 1..m : u[i] = s[i]
      /\ \A i \in 1..n : u[m + i] = t[i]
  <2>1. IsSeq(s) /\ IsSeq(t)
      BY <1>2 DEF Lined
  <2>2. /\ IsSeq(s \o t) /\ Len(s \o t) = Len(s) + Len(t)
        /\ \A i \in 1..Len(s) : (s \o t)[i] = s[i]
        /\ \A i \in 1..Len(t) : (s \o t)[Len(s) + i] = t[i]
      BY <2>1, JoinOf
  <2> QED BY <1>1, <1>2, <2>2
<1>4. \A i \in 1..n : q[i] \in Bytes
    BY <1>1, ElementOfSeq
<1>5. \A i \in 1..n : LineIn(t[i]) = <<q[(n - i) + 1]>> /\ LineIn(t[i]) \in Seq(Bytes)
  <2>1. \A i \in 1..n : t[i].do = "line" /\ t[i].chunk = q[(n - i) + 1]
      BY <1>2, CallIs
  <2>2. \A i \in 1..n : (n - i) + 1 \in 1..n
      OBVIOUS
  <2> QED BY <1>4, <2>1, <2>2, LineInIs DEF IsLine
<1>6. Lined(u)
  <2>1. ASSUME NEW i \in 1..(m + n) PROVE LineIn(u[i]) \in Seq(Bytes)
    <3>1. i \in 1..m \/ (i - m \in 1..n /\ m + (i - m) = i)
        OBVIOUS
    <3>2. CASE i \in 1..m
        BY <1>1, <1>3, <3>2 DEF Lined
    <3>3. CASE i - m \in 1..n /\ m + (i - m) = i
      <4>1. u[m + (i - m)] = t[i - m]
          BY <1>3, <3>3
      <4> QED BY <1>5, <3>3, <4>1
    <3> QED BY <3>1, <3>2, <3>3
  <2> QED BY <1>3, <2>1 DEF Lined
<1>7. PICK p, a, b : p = Turned(u) /\ a = Singles(q) /\ b = Turned(s)
    OBVIOUS
<1>8. /\ p \in Seq(Seq(Bytes)) /\ Len(p) = m + n
      /\ a \in Seq(Seq(Bytes)) /\ Len(a) = n
      /\ b \in Seq(Seq(Bytes)) /\ Len(b) = m
    BY <1>1, <1>3, <1>6, <1>7, TurnedIs, SinglesAre
<1>9. p = a \o b
  <2>1. PICK w : w = a \o b
      OBVIOUS
  <2>2. /\ w \in Seq(Seq(Bytes)) /\ Len(w) = n + m
        /\ \A i \in 1..(n + m) : w[i] = IF i <= n THEN a[i] ELSE b[i - n]
    <3>1. /\ a \o b \in Seq(Seq(Bytes)) /\ Len(a \o b) = Len(a) + Len(b)
          /\ \A i \in 1..(Len(a) + Len(b)) : (a \o b)[i] = IF i <= Len(a) THEN a[i] ELSE b[i - Len(a)]
      <4>1. a \in Seq(Seq(Bytes)) /\ b \in Seq(Seq(Bytes))
          BY <1>8
      <4> QED BY <4>1, ConcatProperties
    <3> QED BY <1>8, <2>1, <3>1
  <2>3. ASSUME NEW i \in 1..(n + m) PROVE p[i] = w[i]
    <3>1. p[i] = LineIn(u[((m + n) - i) + 1])
      <4>1. i \in 1..(m + n)
          OBVIOUS
      <4> QED BY <1>3, <1>7, <4>1, Zenon DEF Turned
    <3>2. CASE i <= n
      <4>1. i \in 1..n /\ (n - i) + 1 \in 1..n /\ ((m + n) - i) + 1 = m + ((n - i) + 1) /\ (n - ((n - i) + 1)) + 1 = i
          BY <3>2
      <4>2. LineIn(t[(n - i) + 1]) = <<q[(n - ((n - i) + 1)) + 1]>>
          BY <1>5, <4>1
      <4>3. u[m + ((n - i) + 1)] = t[(n - i) + 1]
          BY <1>3, <4>1
      <4>4. p[i] = <<q[i]>>
          BY <3>1, <4>1, <4>2, <4>3
      <4>5. a[i] = <<q[i]>>
          BY <1>1, <1>7, <4>1 DEF Singles
      <4>6. w[i] = a[i]
          BY <2>2, <3>2
      <4> QED BY <4>4, <4>5, <4>6
    <3>3. CASE ~(i <= n)
      <4>1. i - n \in 1..m /\ (m - (i - n)) + 1 \in 1..m /\ ((m + n) - i) + 1 = (m - (i - n)) + 1
          BY <3>3
      <4>2. p[i] = LineIn(s[(m - (i - n)) + 1])
          BY <1>3, <3>1, <4>1
      <4>3. b[i - n] = LineIn(s[(m - (i - n)) + 1])
          BY <1>1, <1>7, <4>1, Zenon DEF Turned
      <4>4. w[i] = b[i - n]
          BY <2>2, <3>3
      <4> QED BY <4>2, <4>3, <4>4
    <3> QED BY <3>2, <3>3
  <2>4. m + n = n + m
      OBVIOUS
  <2>5. p = w
      BY <1>8, <2>2, <2>3, <2>4, SeqEqual
  <2> QED BY <2>1, <2>5
<1>10. FlattenSeq(p) = FlattenSeq(a) \o FlattenSeq(b)
    BY <1>8, <1>9, FlattenConcat
<1>11. FlattenSeq(a) = q
    BY <1>7, FlattenSingles
<1> QED BY <1>1, <1>6, <1>7, <1>10, <1>11, Zenon DEF UnderOf

LEMMA StayNone == Lined(<<>>) /\ UnderOf(<<>>) = <<>>
<1>1. IsSeq(<<>>) /\ Len(<<>>) = 0
    BY NoneOf
<1>2. Lined(<<>>)
    BY <1>1 DEF Lined
<1>3. PICK q : q = Turned(<<>>)
    OBVIOUS
<1>4. q \in Seq(Seq(Bytes)) /\ Len(q) = 0
    BY <1>1, <1>2, <1>3, TurnedIs
<1>5. q = <<>>
    BY <1>4, EmptySeq
<1> QED BY <1>2, <1>3, <1>5, FlattenNone DEF UnderOf

(* A change of the stack that leaves the lines on it alone.                *)
LinesStay(s, t) == Lined(t) /\ UnderOf(t) = UnderOf(s)

LEMMA StaySame == ASSUME NEW s, Lined(s) PROVE LinesStay(s, s)
BY DEF LinesStay

LEMMA StayFront ==
    ASSUME NEW s, Lined(s), s # <<>>, ~IsLine(s[Len(s)])
    PROVE  LinesStay(s, Front(s))
<1>1. Lined(Front(s)) /\ UnderOf(s) = <<>> \o UnderOf(Front(s))
    BY UnderFront, LineInIs
<1>2. <<>> \o UnderOf(Front(s)) = UnderOf(Front(s))
    BY <1>1, TurnedIs, ConcatEmptySeq
<1> QED BY <1>1, <1>2 DEF LinesStay

LEMMA StayAppend ==
    ASSUME NEW s, Lined(s), NEW c, ~IsLine(c)
    PROVE  LinesStay(s, Append(s, c))
<1>1. LineIn(c) = <<>> /\ LineIn(c) \in Seq(Bytes)
    BY LineInIs
<1>2. Lined(Append(s, c)) /\ UnderOf(Append(s, c)) = LineIn(c) \o UnderOf(s)
    BY <1>1, UnderAppend
<1>3. <<>> \o UnderOf(s) = UnderOf(s)
    BY TurnedIs, ConcatEmptySeq
<1> QED BY <1>1, <1>2, <1>3 DEF LinesStay

LEMMA StayTwice ==
    ASSUME NEW s, NEW t, NEW u, LinesStay(s, t), LinesStay(t, u)
    PROVE  LinesStay(s, u)
BY DEF LinesStay

LEMMA StayCall ==
    ASSUME NEW s, Lined(s), NEW do, do # "line", NEW x, NEW c
    PROVE  LinesStay(s, Append(s, Call(do, x, c)))
<1>1. ~IsLine(Call(do, x, c))
    BY CallIs DEF IsLine
<1> QED BY <1>1, StayAppend

LEMMA StayReads == ASSUME NEW s, Lined(s), NEW x PROVE LinesStay(s, s \o ReadCalls(x))
<1>0. IsSeq(s)
    BY DEF Lined
<1>1. CASE x = "src" /\ chain.source = "body" /\ ~r[x].busy
  <2>1. PICK c, d : c = Call("push", x, Null) /\ d = Call("push", x, [i \in 1..chain.most |-> i])
      OBVIOUS
  <2>2. ~IsLine(c) /\ ~IsLine(d)
      BY <2>1, CallIs DEF IsLine
  <2>3. ReadCalls(x) = <<c, d>>
      BY <1>1, <2>1 DEF ReadCalls
  <2>4. LinesStay(s, Append(s, c))
      BY <2>2, StayAppend
  <2>5. PICK t : t = Append(s, c)
      OBVIOUS
  <2>6. Lined(t)
      BY <2>4, <2>5 DEF LinesStay
  <2>7. LinesStay(t, Append(t, d))
      BY <2>2, <2>6, StayAppend
  <2>8. LinesStay(s, Append(t, d))
      BY <2>4, <2>5, <2>7, StayTwice
  <2>9. s \o <<c, d>> = Append(Append(s, c), d)
      BY <1>0, JoinsTwo
  <2> QED BY <2>3, <2>5, <2>8, <2>9
<1>2. CASE ~(x = "src" /\ chain.source = "body" /\ ~r[x].busy)
  <2>1. ReadCalls(x) = <<>>
      BY <1>2 DEF ReadCalls
  <2> QED BY <1>0, <2>1, JoinsNone, StaySame
<1> QED BY <1>1, <1>2

-----------------------------------------------------------------------------
(* No operation of the streams below touches a line.                       *)

(* A step that nothing is heard in, and one that no line is told in.       *)
Unheard == log'.heard = log.heard /\ log.meddled \subseteq log'.meddled
Silent == LinesStay(stack, stack') /\ Unheard

LEMMA ErrorUnheard ==
    ASSUME chain.sink = "lines", NEW x, NEW lg \in Log, lg.heard = log.heard, log.meddled \subseteq lg.meddled,
           ErrorEmitted(x, lg)
    PROVE  Unheard
<1>1. \A t : [lg EXCEPT !.told = t].heard = lg.heard /\ [lg EXCEPT !.told = t].meddled = lg.meddled
    BY DEF Log
<1> QED BY <1>1 DEF ErrorEmitted, DestEmits, Unheard

LEMMA MeddledUnheard == ASSUME log \in Log, NEW how, log' = Meddled(how) PROVE Unheard
BY DEF Meddled, Log, Unheard

LEMMA DestUnheard == ASSUME log \in Log, NEW event, DestEmits(event, log) PROVE Unheard
BY DEF DestEmits, Log, Unheard

LEMMA CallsUnheard == ASSUME Typed, chain.sink = "lines", Calls PROVE Unheard
<1>0. log \in Log
    BY DEF Typed
<1>1. ~DataToWritable /\ ~DataToResponse /\ ~DataToConsumer
    BY DEF DataToWritable, DataToResponse, DataToConsumer
<1>2. ~ReadReturns
    BY SoundTop DEF Typed, ReadReturns, Running, GoodCall
<1>3. CASE Pushes
  <2>1. CASE Top.chunk = Null
      BY <1>3, <2>1 DEF Pushes, Unheard
  <2>2. CASE Top.chunk # Null
    <3>1. PICK late : late = r[Top.at].ended
        OBVIOUS
    <3>2. PICK m : m = (IF late THEN log.meddled \cup {"late"} ELSE log.meddled) /\ log.meddled \subseteq m
        OBVIOUS
    <3>3. [r[Top.at] EXCEPT !.buf = Append(@, Top.chunk)].ended = r[Top.at].ended
      <4>1. r[Top.at] \in Half
          BY <1>3, SoundTop DEF Typed, Pushes, Running, Top, GoodCall
      <4> QED BY <4>1 DEF Half
    <3>4. log' = [log EXCEPT !.made[Top.at] = @ \o Top.chunk, !.meddled = m]
        BY <1>3, <2>2, <3>1, <3>2, <3>3 DEF Pushes
    <3> QED BY <1>0, <3>2, <3>4 DEF Log, Unheard
  <2> QED BY <2>1, <2>2
<1>4. CASE DataToTransform
    BY <1>0, <1>4 DEF DataToTransform, Log, Unheard
<1>5. CASE DrainEnds \/ DataToNobody
    BY <1>5 DEF DrainEnds, DataToNobody, Unheard
<1> QED BY <1>1, <1>2, <1>3, <1>4, <1>5 DEF Calls

LEMMA JobsUnheard == ASSUME Typed, chain.sink = "lines", Jobs PROVE Unheard
<1>0. log \in Log
    BY DEF Typed
<1>1. CASE ErrorJob \/ FlushFails
  <2>1. \E x : ErrorEmitted(x, log)
      BY <1>1 DEF ErrorJob, FlushFails
  <2> QED BY <1>0, <2>1, ErrorUnheard
<1>2. CASE WritableFinishes
    BY <1>0, <1>2, DestUnheard DEF WritableFinishes
<1>3. CASE DrainJob \/ EndOfSource \/ TransformFinishes \/ EndOfOutlet
    BY <1>3 DEF DrainJob, EndOfSource, TransformFinishes, EndOfOutlet, Unheard
<1> QED BY <1>1, <1>2, <1>3 DEF Jobs

LEMMA SourceUnheard == ASSUME Typed, chain.sink = "lines", Source PROVE Unheard
<1>0. log \in Log
    BY DEF Typed
<1>1. CASE SourceFails
  <2>1. PICK lg : lg = [log EXCEPT !.meddled = @ \cup {"failed"}] /\ ErrorEmitted("src", lg)
      BY <1>1 DEF SourceFails
  <2>2. lg \in Log
    <3>1. log.meddled \cup {"failed"} \in SUBSET Words
        BY <1>0, LogIs DEF Words
    <3> QED BY <1>0, <2>1, <3>1, LogIs
  <2>3. lg.heard = log.heard /\ log.meddled \subseteq lg.meddled
      BY <1>0, <2>1 DEF Log
  <2> QED BY <2>1, <2>2, <2>3, ErrorUnheard
<1>2. CASE SourcePushes
    BY <1>2 DEF SourcePushes, Unheard
<1>3. CASE PullSettles
    BY <1>0, <1>3 DEF PullSettles, Log, Unheard
<1> QED BY <1>1, <1>2, <1>3 DEF Source

LEMMA CallbacksUnheard == ASSUME Typed, chain.sink = "lines", Callbacks PROVE Unheard
<1>0. log \in Log
    BY DEF Typed
<1>1. CASE TransformAnswers \/ WriteIsDone
    BY <1>1 DEF TransformAnswers, WriteIsDone, Unheard
<1>2. CASE \E y \in {"mid", "dst"} : CallbackFails(y)
  <2>1. \E x : ErrorEmitted(x, log)
      BY <1>2 DEF CallbackFails
  <2> QED BY <1>0, <2>1, ErrorUnheard
<1>3. CASE \E event \in {"finish", "error"} : FinalCalls(event)
    BY <1>0, <1>3, DestUnheard DEF FinalCalls
<1> QED BY <1>1, <1>2, <1>3 DEF Callbacks

LEMMA ScriptUnheard == ASSUME Typed, chain.sink = "lines", Script PROVE Unheard
<1>0. log \in Log
    BY DEF Typed
<1>1. ~Reads /\ ~NextIsCalled /\ ~ScriptEnds
    BY DEF Reads, NextIsCalled, ScriptEnds, Piping
<1>2. CASE Connects
    BY <1>0, <1>2 DEF Connects, Log, Unheard
<1>3. CASE ListenerReturns \/ \E x \in Parts : Resumes(x)
    BY <1>3 DEF ListenerReturns, Resumes, Unheard
<1>4. CASE \E x \in Parts : Pauses(x) \/ Unpipes(x)
  <2>1. \E how : log' = Meddled(how)
      BY <1>4 DEF Pauses, Unpipes
  <2> QED BY <1>0, <2>1, MeddledUnheard
<1>5. ASSUME NEW x, NEW withError, Destroys(x, withError) PROVE Unheard
  <2>1. log' = [Meddled("destroy") EXCEPT !.destroyed = @ \cup {x}]
      BY <1>5 DEF Destroys
  <2>2. PICK lg \in Log : lg = Meddled("destroy")
    <3>1. "destroy" \in Words
        BY DEF Words
    <3> QED BY <1>0, <3>1, MeddledIs
  <2>3. lg.heard = log.heard /\ log.meddled \subseteq lg.meddled
      BY <1>0, <2>2 DEF Meddled, Log
  <2>4. log'.heard = lg.heard /\ log'.meddled = lg.meddled
      BY <2>1, <2>2 DEF Log
  <2> QED BY <2>3, <2>4 DEF Unheard
<1> QED BY <1>1, <1>2, <1>3, <1>4, <1>5 DEF Script

LEMMA CallsStay == ASSUME Typed, Lined(stack), chain.sink = "lines", Calls PROVE LinesStay(stack, stack')
<1>1. ~DataToWritable /\ ~DataToResponse /\ ~DataToConsumer
    BY DEF DataToWritable, DataToResponse, DataToConsumer
<1>2. ~ReadReturns
    BY SoundTop DEF Typed, ReadReturns, Running, GoodCall
<1>3. ASSUME stack # <<>>, ~IsLine(Top) PROVE LinesStay(stack, Front(stack)) /\ Lined(Front(stack))
  <2>1. LinesStay(stack, Front(stack))
      BY <1>3, StayFront DEF Top
  <2> QED BY <2>1 DEF LinesStay
<1>4. CASE Pushes
  <2>1. stack # <<>> /\ ~IsLine(Top)
      BY <1>4 DEF Pushes, Running, Top, IsLine
  <2>2. PICK s : s = Front(stack) /\ LinesStay(stack, s) /\ Lined(s)
      BY <1>3, <2>1
  <2>3. IsSeq(s)
      BY <2>2 DEF Lined
  <2>4. PICK t : t = Append(s, Call("drain", Top.at, Null))
      OBVIOUS
  <2>5. s \o <<Call("drain", Top.at, Null)>> = t /\ s \o <<>> = s
      BY <2>3, <2>4, JoinsOne, JoinsNone
  <2>6. stack' = s \/ stack' = t
      BY <1>4, <2>2, <2>5 DEF Pushes
  <2>7. LinesStay(s, t)
      BY <2>2, <2>4, StayCall
  <2>8. LinesStay(stack, t)
      BY <2>2, <2>7, StayTwice
  <2> QED BY <2>2, <2>6, <2>8
<1>5. CASE DrainEnds
  <2>1. stack # <<>> /\ ~IsLine(Top)
      BY <1>5 DEF DrainEnds, Running, Top, IsLine
  <2>2. PICK s : s = Front(stack) /\ LinesStay(stack, s) /\ Lined(s)
      BY <1>3, <2>1
  <2>3. IsSeq(s)
      BY <2>2 DEF Lined
  <2>4. PICK t : t = s \o ReadCalls(Top.at)
      OBVIOUS
  <2>5. s \o <<>> = s
      BY <2>3, JoinsNone
  <2>6. stack' = t \/ stack' = s
      BY <1>5, <2>2, <2>4, <2>5 DEF DrainEnds
  <2>7. LinesStay(s, t)
      BY <2>2, <2>4, StayReads
  <2>8. LinesStay(stack, t)
      BY <2>2, <2>7, StayTwice
  <2> QED BY <2>2, <2>6, <2>8
<1>6. CASE DataToTransform
  <2>1. stack' = stack \/ stack' = Append(stack, Call("push", "mid", Chunk("src")))
      BY <1>6 DEF DataToTransform
  <2> QED BY <2>1, StaySame, StayCall
<1>7. CASE DataToNobody
    BY <1>7, StaySame DEF DataToNobody
<1> QED BY <1>1, <1>2, <1>4, <1>5, <1>6, <1>7 DEF Calls

LEMMA OthersStay ==
    ASSUME Typed, Lined(stack), chain.sink = "lines", Jobs \/ Source \/ Callbacks \/ Script
    PROVE  LinesStay(stack, stack')
<1>1. ~Reads /\ ~NextIsCalled /\ ~ScriptEnds
    BY DEF Reads, NextIsCalled, ScriptEnds, Piping
<1>2. ASSUME NEW do, do # "line", NEW x, NEW c, stack = <<>> PROVE LinesStay(stack, <<Call(do, x, c)>>)
  <2>1. LinesStay(stack, Append(stack, Call(do, x, c)))
      BY <1>2, StayCall
  <2> QED BY <1>2, <2>1, OneIs
<1>3. CASE DrainJob \/ TransformFinishes
  <2>1. stack = <<>>
      BY <1>3 DEF DrainJob, TransformFinishes, JobComes
  <2>2. stack' = <<Call("drain", Head(jobs).at, Null)>> \/ stack' = <<Call("push", "mid", Null)>>
      BY <1>3 DEF DrainJob, TransformFinishes
  <2> QED BY <1>2, <2>1, <2>2
<1>4. CASE EndOfSource
  <2>1. stack = <<>>
      BY <1>4 DEF EndOfSource, JobComes
  <2>2. PICK c, d : c = Call("push", "mid", Null) /\ d = Call("push", "mid", log.wrote.mid)
      OBVIOUS
  <2>3. stack' = stack \/ stack' = <<c, d>>
      BY <1>4, <2>2 DEF EndOfSource
  <2>4. PICK s : s = Append(stack, c) /\ LinesStay(stack, s)
      BY <2>2, StayCall
  <2>5. Lined(s)
      BY <2>4 DEF LinesStay
  <2>6. PICK t : t = Append(s, d)
      OBVIOUS
  <2>7. LinesStay(s, t)
      BY <2>2, <2>5, <2>6, StayCall
  <2>8. LinesStay(stack, t)
      BY <2>4, <2>7, StayTwice
  <2>9. <<c, d>> = t
      BY <2>1, <2>4, <2>6, TwoAre
  <2> QED BY <2>3, <2>8, <2>9, StaySame
<1>5. CASE ErrorJob \/ FlushFails \/ EndOfOutlet \/ WritableFinishes
    BY <1>5, StaySame DEF ErrorJob, FlushFails, EndOfOutlet, WritableFinishes
<1>6. CASE SourcePushes
  <2>1. \E c : stack' = Append(stack, Call("push", "src", c))
      BY <1>6 DEF SourcePushes
  <2> QED BY <2>1, StayCall
<1>7. CASE PullSettles
  <2>1. stack = <<>> /\ (stack' = stack \/ \E c : stack' = <<Call("push", "src", c)>>)
      BY <1>7 DEF PullSettles
  <2> QED BY <1>2, <2>1, StaySame
<1>8. CASE SourceFails
    BY <1>8, StaySame DEF SourceFails
<1>9. CASE TransformAnswers
  <2>1. \E c : stack' = Append(stack, Call("push", "mid", c))
      BY <1>9 DEF TransformAnswers
  <2> QED BY <2>1, StayCall
<1>10. CASE WriteIsDone \/ (\E y \in {"mid", "dst"} : CallbackFails(y)) \/ \E event \in {"finish", "error"} : FinalCalls(event)
    BY <1>10, StaySame DEF WriteIsDone, CallbackFails, FinalCalls
<1>11. CASE ListenerReturns
  <2>1. stack # <<>> /\ ~IsLine(stack[Len(stack)]) /\ stack' = Front(stack)
      BY <1>11 DEF ListenerReturns, Running, IsLine
  <2> QED BY <2>1, StayFront
<1>12. CASE Connects \/ (\E x \in Parts : Pauses(x) \/ Resumes(x) \/ Unpipes(x)) \/ \E x, withError : Destroys(x, withError)
    BY <1>12, StaySame DEF Connects, Pauses, Resumes, Unpipes, Destroys
<1> QED BY <1>1, <1>3, <1>4, <1>5, <1>6, <1>7, <1>8, <1>9, <1>10, <1>11, <1>12 DEF Jobs, Source, Callbacks, Script

LEMMA StreamsLines == ASSUME Typed, Lined(stack), chain.sink = "lines", Next PROVE Silent
BY CallsUnheard, JobsUnheard, SourceUnheard, CallbacksUnheard, ScriptUnheard, CallsStay, OthersStay DEF Next, Silent

-----------------------------------------------------------------------------
(* The steps of the interface, on the stack.                               *)

(* _feed: the lines of a chunk go on the stack, over others that wait.     *)
LEMMA DataToInterfaceLines ==
    ASSUME Typed, Lined(stack), NEW q \in Seq(Bytes), stack' = stack \o LineCalls(q)
    PROVE  Lined(stack') /\ UnderOf(stack') = q \o UnderOf(stack) /\ UnderOf(stack) \in Seq(Bytes)
BY UnderJoin, TurnedIs

(* _end: the last line over the close.                                     *)
LEMMA EndOfInputLines ==
    ASSUME Typed, Lined(stack), EndOfInput
    PROVE  /\ Lined(stack') /\ UnderOf(stack) = <<>>
           /\ UnderOf(stack') = IF rest = <<>> THEN <<>> ELSE <<rest>>
<1>1. stack = <<>>
    BY DEF EndOfInput, JobComes
<1>2. UnderOf(stack) = <<>>
    BY <1>1, StayNone
<1>3. PICK c : c = Call("close", Outlet, Null) /\ ~IsLine(c)
    BY CallIs DEF IsLine
<1>4. PICK s : s = Append(stack, c)
    OBVIOUS
<1>5. s = <<c>>
    BY <1>1, <1>4, OneIs
<1>6. Lined(s) /\ UnderOf(s) = <<>>
    BY <1>2, <1>3, <1>4, StayAppend DEF LinesStay
<1>7. PICK q \in Seq(Bytes) : q = (IF rest = <<>> THEN <<>> ELSE <<rest>>)
  <2>1. rest \in Bytes
      BY DEF Typed
  <2>2. <<>> \in Seq(Bytes) /\ <<rest>> \in Seq(Bytes)
      BY <2>1
  <2>3. PICK e, o : e = <<>> /\ o = <<rest>> /\ e \in Seq(Bytes) /\ o \in Seq(Bytes)
      BY <2>2
  <2>4. CASE rest = <<>>
      BY <2>3, <2>4, Zenon
  <2>5. CASE rest # <<>>
      BY <2>3, <2>5, Zenon
  <2> QED BY <2>4, <2>5
<1>8. stack' = s \o LineCalls(q)
  <2>1. CASE rest = <<>>
    <3>1. Len(LineCalls(q)) = 0 /\ IsSeq(LineCalls(q))
        BY <1>7, <2>1, LineCallsAre, NoneOf
    <3>2. PICK S : LineCalls(q) \in Seq(S)
        BY <3>1 DEF IsSeq
    <3>3. LineCalls(q) = <<>>
        BY <3>1, <3>2, EmptySeq
    <3> QED BY <1>3, <1>5, <2>1, <3>3 DEF EndOfInput
  <2>2. CASE rest # <<>>
      BY <1>3, <1>5, <1>7, <2>2 DEF EndOfInput
  <2> QED BY <2>1, <2>2
<1>9. Lined(s \o LineCalls(q)) /\ UnderOf(s \o LineCalls(q)) = q \o UnderOf(s)
    BY <1>6, UnderJoin
<1>10. q \o <<>> = q
    BY ConcatEmptySeq
<1> QED BY <1>2, <1>6, <1>7, <1>8, <1>9, <1>10

(* A line goes out, and a callback of the script may run.                  *)
LEMMA LineGoes ==
    ASSUME Lined(stack), Running("line"),
           stack' = Front(stack) \/ stack' = Append(Front(stack), Call("listener", Outlet, Null))
    PROVE  /\ Lined(stack') /\ Top.chunk \in Bytes
           /\ UnderOf(stack) = <<Top.chunk>> \o UnderOf(stack') /\ UnderOf(stack') \in Seq(Bytes)
<1>1. stack # <<>> /\ IsLine(Top)
    BY DEF Running, Top, IsLine
<1>2. PICK s : s = Front(stack)
    OBVIOUS
<1>3. /\ Lined(s) /\ LineIn(Top) \in Seq(Bytes)
      /\ UnderOf(stack) = LineIn(Top) \o UnderOf(s)
    BY <1>1, <1>2, UnderFront DEF Top
<1>4. LineIn(Top) = <<Top.chunk>> /\ Top.chunk \in Bytes
    BY <1>1, <1>3, LineInIs
<1>5. LinesStay(s, stack')
    BY <1>2, <1>3, StaySame, StayCall
<1>6. Lined(stack') /\ UnderOf(stack') = UnderOf(s)
    BY <1>5 DEF LinesStay
<1>7. UnderOf(stack') \in Seq(Bytes)
    BY <1>6, TurnedIs
<1> QED BY <1>3, <1>4, <1>6, <1>7

(* The other steps of the interface.                                       *)
LEMMA InterfaceLines == ASSUME Typed, Lined(stack), Closes \/ LineScript PROVE Silent
<1>0. log \in Log
    BY DEF Typed
<1>1. CASE Closes
  <2>1. stack # <<>> /\ ~IsLine(stack[Len(stack)]) /\ stack' = Front(stack) /\ log' = log
      BY <1>1 DEF Closes, Running, IsLine
  <2> QED BY <2>1, StayFront DEF Silent, Unheard
<1>2. CASE LineScript
  <2>1. stack' = stack /\ (log' = log \/ \E how : log' = Meddled(how))
      BY <1>2 DEF LineScript, Asks, NextLine, ScriptCloses, Iterates, vars
  <2>2. Unheard
      BY <1>0, <2>1, MeddledUnheard DEF Unheard
  <2> QED BY <2>1, <2>2, StaySame DEF Silent
<1> QED BY <1>1, <1>2

-----------------------------------------------------------------------------
(* What went out, and what an iterator heard of it.                        *)
Going == [line : Bytes, to : {"question", "line"}]
LinesGiven(g) == [i \in DOMAIN g |-> g[i].line]
SaidAt(g, n, i) == IF i > n /\ g[i].to = "line" THEN <<g[i].line>> ELSE <<>>
Said(g, n) == [i \in DOMAIN g |-> SaidAt(g, n, i)]

LEMMA GivenIs == GivenLines = LinesGiven(given) /\ Emitted = FlattenSeq(Said(given, iterator.since))
<1>1. [i \in DOMAIN given |-> EmittedAt(i)] = Said(given, iterator.since)
    BY DEF EmittedAt, Said, SaidAt
<1> QED BY <1>1 DEF GivenLines, LinesGiven, Emitted

LEMMA GivenMore ==
    ASSUME NEW g \in Seq(Going), NEW e \in Going
    PROVE  LinesGiven(g) \in Seq(Bytes) /\ LinesGiven(Append(g, e)) = Append(LinesGiven(g), e.line)
<1>1. PICK n \in Nat : n = Len(g) /\ DOMAIN g = 1..n
    BY LenProperties
<1>2. PICK h : h = Append(g, e)
    OBVIOUS
<1>3. Len(h) = n + 1 /\ DOMAIN h = 1..(n + 1) /\ h[n + 1] = e /\ \A i \in 1..n : h[i] = g[i]
  <2>1. h \in Seq(Going) /\ Len(h) = n + 1 /\ h[n + 1] = e /\ \A i \in 1..n : h[i] = g[i]
      BY <1>1, <1>2, AppendProperties
  <2> QED BY <2>1, LenProperties
<1>4. PICK p, q : p = LinesGiven(g) /\ q = LinesGiven(h)
    OBVIOUS
<1>5. PICK b \in Bytes : b = e.line
    BY DEF Going
<1>6. \A i \in 1..n : g[i].line \in Bytes
  <2>1. \A i \in 1..n : g[i] \in Going
      BY <1>1, ElementOfSeq
  <2> QED BY <2>1 DEF Going
<1>7. p \in Seq(Bytes) /\ Len(p) = n /\ \A i \in 1..n : p[i] = g[i].line
  <2>1. p \in [1..n -> Bytes] /\ \A i \in 1..n : p[i] = g[i].line
      BY <1>1, <1>4, <1>6 DEF LinesGiven
  <2> QED BY <2>1
<1>8. \A i \in 1..(n + 1) : i \in 1..n \/ i = n + 1
    OBVIOUS
<1>9. q \in Seq(Bytes) /\ Len(q) = n + 1 /\ \A i \in 1..(n + 1) : q[i] = h[i].line
  <2>1. \A i \in 1..(n + 1) : h[i].line \in Bytes
      BY <1>3, <1>5, <1>6, <1>8
  <2>2. q \in [1..(n + 1) -> Bytes] /\ \A i \in 1..(n + 1) : q[i] = h[i].line
      BY <1>3, <1>4, <2>1 DEF LinesGiven
  <2> QED BY <2>2
<1>10. PICK w : w = Append(p, b)
    OBVIOUS
<1>11. w \in Seq(Bytes) /\ Len(w) = n + 1 /\ w[n + 1] = b /\ \A i \in 1..n : w[i] = p[i]
    BY <1>7, <1>10, AppendProperties
<1>12. \A i \in 1..(n + 1) : q[i] = w[i]
    BY <1>3, <1>5, <1>7, <1>8, <1>9, <1>11
<1>13. q = w
    BY <1>9, <1>11, <1>12, SeqEqual
<1> QED BY <1>2, <1>4, <1>5, <1>7, <1>10, <1>13

LEMMA SaidIs ==
    ASSUME NEW g \in Seq(Going), NEW n \in Nat
    PROVE  /\ Said(g, n) \in Seq(Seq(Bytes)) /\ Len(Said(g, n)) = Len(g)
           /\ \A i \in 1..Len(g) : Said(g, n)[i] = SaidAt(g, n, i)
           /\ FlattenSeq(Said(g, n)) \in Seq(Bytes)
           /\ n = Len(g) => FlattenSeq(Said(g, n)) = <<>>
<1>1. PICK m \in Nat : m = Len(g) /\ DOMAIN g = 1..m
    BY LenProperties
<1>2. \A i \in 1..m : SaidAt(g, n, i) \in Seq(Bytes)
  <2>1. \A i \in 1..m : g[i] \in Going
      BY <1>1, ElementOfSeq
  <2>2. \A i \in 1..m : g[i].line \in Bytes
      BY <2>1 DEF Going
  <2>3. (\A b \in Bytes : <<b>> \in Seq(Bytes)) /\ <<>> \in Seq(Bytes)
      OBVIOUS
  <2> QED BY <2>2, <2>3 DEF SaidAt
<1>3. PICK q : q = Said(g, n)
    OBVIOUS
<1>4. q \in [1..m -> Seq(Bytes)] /\ \A i \in 1..m : q[i] = SaidAt(g, n, i)
    BY <1>1, <1>2, <1>3 DEF Said
<1>5. q \in Seq(Seq(Bytes)) /\ Len(q) = m
    BY <1>4
<1>6. FlattenSeq(q) \in Seq(Bytes)
    BY <1>5, FlattenType
<1>7. ASSUME n = m PROVE FlattenSeq(q) = <<>>
  <2>1. \A i \in 1..m : ~(i > m)
      OBVIOUS
  <2>2. \A i \in 1..Len(q) : q[i] = <<>>
      BY <1>4, <1>5, <1>7, <2>1 DEF SaidAt
  <2> QED BY <1>5, <2>2, FlattenEmpties
<1> QED BY <1>1, <1>3, <1>4, <1>5, <1>6, <1>7

(* One more goes out, after the iterator was begun.                        *)
LEMMA SaidMore ==
    ASSUME NEW g \in Seq(Going), NEW e \in Going, NEW n \in Nat, n <= Len(g)
    PROVE  FlattenSeq(Said(Append(g, e), n)) =
               IF e.to = "line" THEN Append(FlattenSeq(Said(g, n)), e.line) ELSE FlattenSeq(Said(g, n))
<1>1. PICK m \in Nat : m = Len(g)
    BY LenProperties
<1>2. PICK h : h = Append(g, e)
    OBVIOUS
<1>3. h \in Seq(Going) /\ Len(h) = m + 1 /\ h[m + 1] = e /\ \A i \in 1..m : h[i] = g[i]
    BY <1>1, <1>2, AppendProperties
<1>4. PICK p, q : p = Said(g, n) /\ q = Said(h, n)
    OBVIOUS
<1>5. /\ p \in Seq(Seq(Bytes)) /\ Len(p) = m /\ \A i \in 1..m : p[i] = SaidAt(g, n, i)
      /\ FlattenSeq(p) \in Seq(Bytes)
    BY <1>1, <1>4, SaidIs
<1>6. /\ q \in Seq(Seq(Bytes)) /\ Len(q) = m + 1 /\ \A i \in 1..(m + 1) : q[i] = SaidAt(h, n, i)
    BY <1>3, <1>4, SaidIs
<1>7. PICK c : c = (IF e.to = "line" THEN <<e.line>> ELSE <<>>)
    OBVIOUS
<1>8. e.line \in Bytes
    BY DEF Going
<1>9. c \in Seq(Bytes)
  <2>1. (\A b \in Bytes : <<b>> \in Seq(Bytes)) /\ <<>> \in Seq(Bytes)
      OBVIOUS
  <2> QED BY <1>7, <1>8, <2>1
<1>10. \A i \in 1..(m + 1) : i \in 1..m \/ i = m + 1
    OBVIOUS
<1>11. q[m + 1] = c
  <2>1. m + 1 > n /\ m + 1 \in 1..(m + 1)
      BY <1>1
  <2> QED BY <1>3, <1>6, <1>7, <2>1 DEF SaidAt
<1>12. \A i \in 1..m : q[i] = p[i]
  <2>1. \A i \in 1..m : i \in 1..(m + 1)
      OBVIOUS
  <2> QED BY <1>3, <1>5, <1>6, <2>1 DEF SaidAt
<1>13. PICK w : w = Append(p, c)
    OBVIOUS
<1>14. w \in Seq(Seq(Bytes)) /\ Len(w) = m + 1 /\ w[m + 1] = c /\ \A i \in 1..m : w[i] = p[i]
    BY <1>5, <1>9, <1>13, AppendProperties
<1>15. q = w
  <2>1. \A i \in 1..(m + 1) : q[i] = w[i]
      BY <1>10, <1>11, <1>12, <1>14
  <2> QED BY <1>6, <1>14, <2>1, SeqEqual
<1>16. Joined(FlattenSeq(w), FlattenSeq(p), c)
    BY <1>5, <1>9, <1>13, FlattenAppend
<1>17. PICK f \in Seq(Bytes), b \in Bytes : f = FlattenSeq(p) /\ b = e.line
    BY <1>5, <1>8
<1>18. f \o <<>> = f /\ f \o <<b>> = Append(f, b)
    BY ConcatEmptySeq, AppendIsConcat
<1>19. FlattenSeq(q) = IF e.to = "line" THEN Append(f, b) ELSE f
    BY <1>7, <1>15, <1>16, <1>17, <1>18 DEF Joined
<1> QED BY <1>2, <1>4, <1>17, <1>19

LEMMA KeepsOneMore ==
    ASSUME NEW S, NEW a \in Seq(S), NEW b \in Seq(S), NEW c \in S
    PROVE  Joined(Append(a \o b, c), a, Append(b, c))
<1>1. PICK o \in Seq(S) : o = <<c>>
  <2>1. <<c>> \in Seq(S)
      OBVIOUS
  <2> QED BY <2>1
<1>2. a \o b \in Seq(S) /\ Associates(a, b, o)
    BY ConcatProperties, SeqsAssociate
<1>3. Append(b, c) = b \o o /\ Append(a \o b, c) = (a \o b) \o o
    BY <1>1, <1>2, AppendIsConcat
<1> QED BY <1>2, <1>3 DEF Associates, Joined

LEMMA GivesOne ==
    ASSUME NEW S, NEW a \in Seq(S), NEW b \in Seq(S), b # <<>>
    PROVE  Joined(a \o b, Append(a, Head(b)), Tail(b)) /\ Append(a, Head(b)) \in Seq(S) /\ Tail(b) \in Seq(S)
<1>1. PICK n \in Nat : n = Len(b) /\ 1 \in 1..n /\ n \in 1..n
  <2>1. Len(b) \in Nat \ {0}
      BY EmptySeq
  <2> QED BY <2>1
<1>2. PICK h \in S, t \in Seq(S) : h = Head(b) /\ t = Tail(b) /\ h = b[1]
  <2>1. Head(b) \in S /\ Tail(b) \in Seq(S)
      BY HeadTailProperties
  <2>2. Head(b) = b[1]
      OBVIOUS
  <2> QED BY <2>1, <2>2
<1>3. PICK o \in Seq(S) : o = <<h>>
  <2>1. <<h>> \in Seq(S)
      OBVIOUS
  <2> QED BY <2>1
<1>4. b = o \o t
  <2>1. SubSeq(b, 1, n) = b /\ t = SubSeq(b, 2, n)
      BY <1>1, <1>2, SubSeqFull, TailIsSubSeq
  <2>2. SubSeq(b, 1, n) = <<b[1]>> \o SubSeq(b, 1 + 1, n)
      BY <1>1, SubSeqRecursiveFirst
  <2>3. 1 + 1 = 2
      OBVIOUS
  <2> QED BY <1>2, <1>3, <2>1, <2>2, <2>3
<1>5. Append(a, h) = a \o o /\ Append(a, h) \in Seq(S)
    BY <1>3, AppendIsConcat
<1>6. Associates(a, o, t)
    BY SeqsAssociate
<1> QED BY <1>2, <1>4, <1>5, <1>6 DEF Associates, Joined

(* What an iterator of the interface, or of its "line", holds.             *)
Iterator == [kind : {"none", "lines", "on"}, lines : Seq(Bytes), waiting : Nat, done : BOOLEAN,
             gave : Seq(Bytes), since : Nat, late : BOOLEAN]
Heeds(it, g) ==
    /\ it.since <= Len(g)
    /\ it.kind = "none" => it.gave = <<>> /\ it.lines = <<>>
    /\ it.waiting > 0 => it.lines = <<>>
    /\ it.kind # "none" => it.gave \o it.lines = FlattenSeq(Said(g, it.since))
IteratorHolds == given \in Seq(Going) /\ closed \in BOOLEAN /\ iterator \in Iterator /\ Heeds(iterator, given)

LEMMA IteratorIs ==
    ASSUME NEW it \in Iterator
    PROVE  /\ it.lines \in Seq(Bytes) /\ it.gave \in Seq(Bytes) /\ it.since \in Nat /\ it.waiting \in Nat
           /\ it.kind \in {"none", "lines", "on"}
           /\ \A q \in Seq(Bytes) : [it EXCEPT !.lines = q] \in Iterator
           /\ \A n \in Nat, q \in Seq(Bytes) : [it EXCEPT !.waiting = n, !.gave = q] \in Iterator
           /\ \A p \in Seq(Bytes), q \in Seq(Bytes) : [it EXCEPT !.lines = p, !.gave = q] \in Iterator
           /\ \A n \in Nat : [it EXCEPT !.waiting = n] \in Iterator
           /\ [it EXCEPT !.done = TRUE, !.waiting = 0] \in Iterator
           /\ \A k \in {"lines", "on"}, n \in Nat, b \in BOOLEAN :
                  [it EXCEPT !.kind = k, !.since = n, !.late = b] \in Iterator
BY DEF Iterator

(* A line goes out.                                                        *)
LEMMA GivesToQuestion ==
    ASSUME NEW g \in Seq(Going), NEW it \in Iterator, Heeds(it, g), NEW e \in Going, e.to = "question" \/ it.kind = "none"
    PROVE  Append(g, e) \in Seq(Going) /\ Heeds(it, Append(g, e))
<1>1. Append(g, e) \in Seq(Going) /\ Len(Append(g, e)) = Len(g) + 1 /\ Len(g) \in Nat
    BY AppendProperties, LenProperties
<1>2. it.since \in Nat /\ it.since <= Len(g)
    BY IteratorIs DEF Heeds
<1>3. it.since <= Len(Append(g, e))
    BY <1>1, <1>2
<1>4. e.to = "question" => FlattenSeq(Said(Append(g, e), it.since)) = FlattenSeq(Said(g, it.since))
    BY <1>2, SaidMore
<1> QED BY <1>1, <1>3, <1>4 DEF Heeds

LEMMA GivesToIterator ==
    ASSUME NEW g \in Seq(Going), NEW it \in Iterator, Heeds(it, g), NEW e \in Going, e.to = "line", it.kind # "none",
           NEW p \in Iterator, p.since = it.since, p.kind = it.kind,
           \/ it.waiting > 0 /\ p.gave = Append(it.gave, e.line) /\ p.lines = it.lines
           \/ ~(it.waiting > 0) /\ p.waiting = it.waiting /\ p.gave = it.gave /\ p.lines = Append(it.lines, e.line)
    PROVE  Append(g, e) \in Seq(Going) /\ Heeds(p, Append(g, e))
<1>1. Append(g, e) \in Seq(Going) /\ Len(Append(g, e)) = Len(g) + 1 /\ Len(g) \in Nat
    BY AppendProperties, LenProperties
<1>2. it.since \in Nat /\ it.since <= Len(g)
    BY IteratorIs DEF Heeds
<1>3. p.since <= Len(Append(g, e))
    BY <1>1, <1>2
<1>4. FlattenSeq(Said(Append(g, e), it.since)) = Append(FlattenSeq(Said(g, it.since)), e.line)
    BY <1>2, SaidMore
<1>5. PICK a \in Seq(Bytes), b \in Seq(Bytes), c \in Bytes : a = it.gave /\ b = it.lines /\ c = e.line
    BY IteratorIs DEF Going
<1>6. PICK f : f = FlattenSeq(Said(g, it.since)) /\ f = a \o b
    BY <1>5 DEF Heeds
<1>7. p.gave \o p.lines = Append(f, c)
  <2>1. CASE it.waiting > 0
    <3>1. b = <<>>
        BY <1>5, <2>1 DEF Heeds
    <3>2. a \o <<>> = a /\ Append(a, c) \o <<>> = Append(a, c)
      <4>1. Append(a, c) \in Seq(Bytes)
          BY AppendProperties
      <4> QED BY <4>1, ConcatEmptySeq
    <3>3. p.gave = Append(a, c) /\ p.lines = <<>>
        BY <1>5, <2>1, <3>1
    <3>4. f = a
        BY <1>6, <3>1, <3>2
    <3> QED BY <3>2, <3>3, <3>4
  <2>2. CASE ~(it.waiting > 0)
    <3>1. Joined(Append(a \o b, c), a, Append(b, c))
        BY KeepsOneMore
    <3>2. p.gave = a /\ p.lines = Append(b, c)
        BY <1>5, <2>2
    <3> QED BY <1>6, <3>1, <3>2 DEF Joined
  <2> QED BY <2>1, <2>2
<1>8. p.waiting > 0 => p.lines = <<>>
    BY DEF Heeds
<1> QED BY <1>1, <1>3, <1>4, <1>5, <1>6, <1>7, <1>8 DEF Heeds

LEMMA GoingIs ==
    ASSUME NEW l \in Bytes, NEW to \in {"question", "line"}
    PROVE  \E e \in Going : e = [line |-> l, to |-> to] /\ e.line = l /\ e.to = to
<1>1. PICK e : e = [line |-> l, to |-> to]
    OBVIOUS
<1>2. e \in Going /\ e.line = l /\ e.to = to
    BY <1>1 DEF Going
<1> QED BY <1>1, <1>2

LEMMA LineAnswersIterator ==
    ASSUME IteratorHolds, LineAnswers, Top.chunk \in Bytes
    PROVE  IteratorHolds' /\ \E e \in Going : given' = Append(given, e) /\ e.line = Top.chunk
<1>1. PICK e \in Going : e = [line |-> Top.chunk, to |-> "question"] /\ e.line = Top.chunk /\ e.to = "question"
    BY GoingIs
<1>2. given' = Append(given, e) /\ closed' = closed /\ iterator' = iterator
    BY <1>1 DEF LineAnswers
<1>3. Append(given, e) \in Seq(Going) /\ Heeds(iterator, Append(given, e))
    BY <1>1, GivesToQuestion DEF IteratorHolds
<1> QED BY <1>1, <1>2, <1>3 DEF IteratorHolds

LEMMA LineEmittedIterator ==
    ASSUME IteratorHolds, LineEmitted, Top.chunk \in Bytes
    PROVE  IteratorHolds' /\ \E e \in Going : given' = Append(given, e) /\ e.line = Top.chunk
<1>1. PICK e \in Going : e = [line |-> Top.chunk, to |-> "line"] /\ e.line = Top.chunk /\ e.to = "line"
    BY GoingIs
<1>2. given' = Append(given, e) /\ closed' = closed
    BY <1>1 DEF LineEmitted
<1>3. PICK it \in Iterator : it = iterator /\ Heeds(it, given) /\ given \in Seq(Going)
    BY DEF IteratorHolds
<1>4. CASE it.kind = "none"
  <2>1. iterator' = it
      BY <1>3, <1>4 DEF LineEmitted
  <2>2. Append(given, e) \in Seq(Going) /\ Heeds(it, Append(given, e))
      BY <1>3, <1>4, GivesToQuestion
  <2> QED BY <1>1, <1>2, <2>1, <2>2 DEF IteratorHolds
<1>5. CASE it.kind # "none" /\ it.waiting > 0
  <2>1. PICK n \in Nat, q \in Seq(Bytes) : n = it.waiting - 1 /\ q = Append(it.gave, Top.chunk)
    <3>1. it.waiting \in Nat /\ it.gave \in Seq(Bytes)
        BY IteratorIs
    <3>2. it.waiting - 1 \in Nat
        BY <1>5, <3>1
    <3>3. Append(it.gave, Top.chunk) \in Seq(Bytes)
        BY <3>1, AppendProperties
    <3> QED BY <3>2, <3>3
  <2>2. iterator' = [it EXCEPT !.waiting = n, !.gave = q]
      BY <1>3, <1>5, <2>1 DEF LineEmitted
  <2>3. PICK p \in Iterator : p = [it EXCEPT !.waiting = n, !.gave = q]
      BY IteratorIs
  <2>4. p.gave = q /\ p.lines = it.lines /\ p.since = it.since /\ p.kind = it.kind
      BY <2>3 DEF Iterator
  <2>5. p.gave = Append(it.gave, e.line)
      BY <1>1, <2>1, <2>4
  <2>6. Append(given, e) \in Seq(Going) /\ Heeds(p, Append(given, e))
      BY <1>1, <1>3, <1>5, <2>4, <2>5, GivesToIterator
  <2>7. iterator' = p
      BY <2>2, <2>3
  <2> QED BY <1>1, <1>2, <2>6, <2>7 DEF IteratorHolds
<1>6. CASE it.kind # "none" /\ ~(it.waiting > 0)
  <2>1. PICK q \in Seq(Bytes) : q = Append(it.lines, Top.chunk)
    <3>1. it.lines \in Seq(Bytes)
        BY IteratorIs
    <3> QED BY <3>1, AppendProperties
  <2>2. iterator' = [it EXCEPT !.lines = q]
      BY <1>3, <1>6, <2>1 DEF LineEmitted
  <2>3. PICK p \in Iterator : p = [it EXCEPT !.lines = q]
      BY IteratorIs
  <2>4. p.gave = it.gave /\ p.lines = q /\ p.since = it.since /\ p.kind = it.kind /\ p.waiting = it.waiting
      BY <2>3 DEF Iterator
  <2>5. p.lines = Append(it.lines, e.line)
      BY <1>1, <2>1, <2>4
  <2>6. Append(given, e) \in Seq(Going) /\ Heeds(p, Append(given, e))
      BY <1>1, <1>3, <1>6, <2>4, <2>5, GivesToIterator
  <2>7. iterator' = p
      BY <2>2, <2>3
  <2> QED BY <1>1, <1>2, <2>6, <2>7 DEF IteratorHolds
<1> QED BY <1>4, <1>5, <1>6

LEMMA CloseIterator == ASSUME IteratorHolds, CloseHeard, given' = given PROVE IteratorHolds'
<1>1. PICK it \in Iterator : it = iterator /\ Heeds(it, given)
    BY DEF IteratorHolds
<1>2. PICK p : p = [it EXCEPT !.done = TRUE, !.waiting = 0]
    OBVIOUS
<1>3. p \in Iterator
    BY <1>2, IteratorIs
<1>4. p.since = it.since /\ p.kind = it.kind /\ p.gave = it.gave /\ p.lines = it.lines /\ p.waiting = 0
    BY <1>2 DEF Iterator
<1>5. Heeds(p, given)
  <2>1. ~(p.waiting > 0)
      BY <1>4
  <2>2. p.since <= Len(given) /\ p.gave \o p.lines = it.gave \o it.lines
      BY <1>1, <1>4 DEF Heeds
  <2> QED BY <1>1, <1>4, <2>1, <2>2 DEF Heeds
<1>6. iterator' = it \/ iterator' = p
    BY <1>1, <1>2 DEF CloseHeard, Told_Closed
<1> QED BY <1>1, <1>3, <1>5, <1>6 DEF IteratorHolds, CloseHeard

LEMMA IteratesIterator == ASSUME IteratorHolds, NEW kind \in {"lines", "on"}, Iterates(kind) PROVE IteratorHolds'
<1>1. PICK it \in Iterator : it = iterator /\ Heeds(it, given) /\ given \in Seq(Going) /\ closed \in BOOLEAN
    BY DEF IteratorHolds
<1>2. PICK n \in Nat : n = Len(given)
    BY <1>1, LenProperties
<1>3. PICK p \in Iterator : p = [it EXCEPT !.kind = kind, !.since = n, !.late = closed]
    BY <1>1, IteratorIs
<1>4. iterator' = p /\ UNCHANGED <<given, closed>> /\ it.kind = "none"
    BY <1>1, <1>2, <1>3 DEF Iterates
<1>5. p.since = n /\ p.kind = kind /\ p.gave = it.gave /\ p.lines = it.lines
    BY <1>3 DEF Iterator
<1>6. it.gave = <<>> /\ it.lines = <<>>
    BY <1>1, <1>4 DEF Heeds
<1>7. FlattenSeq(Said(given, n)) = <<>>
    BY <1>1, <1>2, SaidIs
<1>8. <<>> \o <<>> = <<>>
  <2>1. <<>> \in Seq(Bytes)
      BY EmptySeq
  <2> QED BY <2>1, ConcatEmptySeq
<1>9. p.gave \o p.lines = FlattenSeq(Said(given, p.since))
    BY <1>5, <1>6, <1>7, <1>8
<1>10. Heeds(p, given)
    BY <1>2, <1>5, <1>6, <1>9 DEF Heeds
<1> QED BY <1>1, <1>4, <1>10 DEF IteratorHolds

LEMMA NextLineIterator == ASSUME IteratorHolds, NextLine PROVE IteratorHolds'
<1>1. PICK it \in Iterator : it = iterator /\ Heeds(it, given)
    BY DEF IteratorHolds
<1>2. /\ it.kind # "none" /\ UNCHANGED <<given, closed>>
      /\ it.lines \in Seq(Bytes) /\ it.gave \in Seq(Bytes) /\ it.waiting \in Nat
    BY <1>1, IteratorIs DEF NextLine
<1>3. CASE it.lines # <<>>
  <2>1. PICK a, b : a = Append(it.gave, Head(it.lines)) /\ b = Tail(it.lines)
      OBVIOUS
  <2>2. a \in Seq(Bytes) /\ b \in Seq(Bytes) /\ Joined(it.gave \o it.lines, a, b)
      BY <1>2, <1>3, <2>1, GivesOne
  <2>3. iterator' = [it EXCEPT !.lines = b, !.gave = a]
      BY <1>1, <1>3, <2>1 DEF NextLine
  <2>4. PICK p \in Iterator : p = [it EXCEPT !.lines = b, !.gave = a]
      BY <2>2, IteratorIs
  <2>5. p.lines = b /\ p.gave = a /\ p.since = it.since /\ p.kind = it.kind /\ p.waiting = it.waiting
      BY <2>4 DEF Iterator
  <2>6. ~(it.waiting > 0)
      BY <1>1, <1>3 DEF Heeds
  <2>7. Heeds(p, given)
      BY <1>1, <1>2, <2>2, <2>5, <2>6 DEF Heeds, Joined
  <2>8. iterator' = p
      BY <2>3, <2>4
  <2> QED BY <1>2, <2>7, <2>8 DEF IteratorHolds
<1>4. CASE it.lines = <<>>
  <2>1. PICK n \in Nat : n = (IF it.kind = "lines" THEN 1 ELSE it.waiting + 1)
    <3>1. it.waiting + 1 \in Nat /\ 1 \in Nat
        BY <1>2
    <3> QED BY <3>1
  <2>2. iterator' = [it EXCEPT !.waiting = n]
      BY <1>1, <1>4, <2>1 DEF NextLine
  <2>3. PICK p \in Iterator : p = [it EXCEPT !.waiting = n]
      BY IteratorIs
  <2>4. p.lines = it.lines /\ p.gave = it.gave /\ p.since = it.since /\ p.kind = it.kind
      BY <2>3 DEF Iterator
  <2>5. Heeds(p, given)
      BY <1>1, <1>2, <1>4, <2>4 DEF Heeds
  <2>6. iterator' = p
      BY <2>2, <2>3
  <2> QED BY <1>2, <2>5, <2>6 DEF IteratorHolds
<1> QED BY <1>3, <1>4

-----------------------------------------------------------------------------
(* What String() makes of the chunks.                                      *)
Spelt(chunks) == [i \in DOMAIN chunks |-> Decoded(chunks[i])]
TextOf(heard) == FlattenSeq(Spelt(Data(heard)))

LEMMA TextIsOf == Text = TextOf(log.heard) /\ Text' = TextOf(log'.heard)
<1>1. \A h : DOMAIN Data(h) = DOMAIN h
    BY DEF Data
<1>2. \A h : TextOf(h) = FlattenSeq([i \in DOMAIN h |-> Decoded(Data(h)[i])])
    BY <1>1 DEF TextOf, Spelt
<1> QED BY <1>2 DEF Text

LEMMA SpeltMore ==
    ASSUME NEW d \in Seq(Bytes), NEW c \in Bytes
    PROVE  Spelt(d) \in Seq(Bytes) /\ Spelt(Append(d, c)) = Append(Spelt(d), Decoded(c))
<1>1. PICK n \in Nat, g \in {Append(d, c)} : n = Len(d) /\ DOMAIN d = 1..n /\ g = Append(d, c)
    BY LenProperties
<1>2. g \in Seq(Bytes) /\ Len(g) = n + 1 /\ g[n + 1] = c /\ DOMAIN g = 1..(n + 1) /\ \A i \in 1..n : g[i] = d[i]
  <2>1. g \in Seq(Bytes) /\ Len(g) = n + 1 /\ g[n + 1] = c /\ \A i \in 1..n : g[i] = d[i]
      BY <1>1, AppendProperties
  <2> QED BY <2>1, LenProperties
<1>3. /\ \A i \in 1..n : d[i] \in Bytes /\ Decoded(d[i]) \in Bytes
      /\ Decoded(c) \in Bytes
    BY <1>1, ElementOfSeq, DecodedIs
<1>4. PICK e : e = Spelt(d)
    OBVIOUS
<1>5. e \in Seq(Bytes) /\ Len(e) = n /\ \A i \in 1..n : e[i] = Decoded(d[i])
  <2>1. e \in [1..n -> Bytes] /\ \A i \in 1..n : e[i] = Decoded(d[i])
      BY <1>1, <1>3, <1>4 DEF Spelt
  <2> QED BY <2>1
<1>6. PICK k, x : x = Decoded(c) /\ k = Append(e, x)
    OBVIOUS
<1>7. k \in Seq(Bytes) /\ Len(k) = n + 1 /\ k[n + 1] = x /\ \A i \in 1..n : k[i] = e[i]
    BY <1>3, <1>5, <1>6, AppendProperties
<1>8. \A i \in 1..(n + 1) : i \in 1..n \/ i = n + 1
    OBVIOUS
<1>9. PICK w : w = Spelt(g)
    OBVIOUS
<1>10. \A i \in 1..(n + 1) : w[i] = Decoded(g[i])
    BY <1>2, <1>9 DEF Spelt
<1>11. \A i \in 1..(n + 1) : Decoded(g[i]) \in Bytes
    BY <1>2, <1>3, <1>8
<1>12. w \in Seq(Bytes) /\ Len(w) = n + 1
  <2>1. w \in [1..(n + 1) -> Bytes]
      BY <1>2, <1>9, <1>11 DEF Spelt
  <2> QED BY <2>1
<1>13. \A i \in 1..(n + 1) : w[i] = k[i]
    BY <1>2, <1>5, <1>6, <1>7, <1>8, <1>10
<1>14. w = k
    BY <1>7, <1>12, <1>13, SeqEqual
<1> QED BY <1>1, <1>4, <1>5, <1>6, <1>9, <1>14

LEMMA TextMore ==
    ASSUME NEW h \in Heard
    PROVE  /\ TextOf(h) \in Bytes
           /\ \A c \in Bytes : TextOf(Append(h, c)) = TextOf(h) \o Decoded(c)
           /\ TextOf(Append(h, Null)) = TextOf(h)
<1>1. PICK d \in Seq(Bytes) : d = Data(h)
    BY BytesNone, DataMore
<1>2. PICK e : e = Spelt(d)
    OBVIOUS
<1>3. e \in Seq(Seq(Byte))
    BY <1>1, <1>2, BytesNone, SpeltMore DEF Bytes
<1>4. FlattenSeq(e) \in Bytes
    BY <1>3, FlattenType DEF Bytes
<1>5. ASSUME NEW c \in Bytes PROVE TextOf(Append(h, c)) = TextOf(h) \o Decoded(c)
  <2>1. Data(Append(h, c)) = Append(d, c)
      BY <1>1, BytesOf, DataMore
  <2>2. Spelt(Append(d, c)) = Append(e, Decoded(c))
      BY <1>2, SpeltMore
  <2>3. Decoded(c) \in Seq(Byte)
      BY DecodedIs DEF Bytes
  <2>4. Joined(FlattenSeq(Append(e, Decoded(c))), FlattenSeq(e), Decoded(c))
      BY <1>3, <2>3, FlattenAppend
  <2> QED BY <1>1, <1>2, <2>1, <2>2, <2>4 DEF TextOf, Joined
<1>6. Decoded(Null) = <<>>
  <2>1. Decoded(Null) \in Bytes /\ Len(Decoded(Null)) = Len(Null)
      BY BytesNone, DecodedIs
  <2> QED BY <2>1, NoneOf, EmptySeq DEF Null, Bytes
<1>7. FlattenSeq(e) \o <<>> = FlattenSeq(e)
    BY <1>4, ConcatEmptySeq DEF Bytes
<1>8. TextOf(h) = FlattenSeq(e)
    BY <1>1, <1>2 DEF TextOf
<1>9. TextOf(Append(h, Null)) = TextOf(h) \o <<>>
    BY <1>5, <1>6, BytesNone
<1> QED BY <1>4, <1>5, <1>7, <1>8, <1>9

(* Texts with their newlines at the same places.                           *)
Marked(a, b) == Len(a) = Len(b) /\ \A i \in 1..Len(b) : a[i] \in Newlines <=> b[i] \in Newlines

LEMMA MarkedJoin ==
    ASSUME NEW a \in Bytes, NEW b \in Bytes, NEW c \in Bytes, NEW d \in Bytes, Marked(a, b), Marked(c, d)
    PROVE  Marked(a \o c, b \o d)
<1>1. PICK m \in Nat, n \in Nat : m = Len(b) /\ n = Len(d)
    BY LenProperties DEF Bytes
<1>2. Len(a) = m /\ Len(c) = n
    BY <1>1 DEF Marked
<1>3. PICK u, w : u = a \o c /\ w = b \o d
    OBVIOUS
<1>4. Len(u) = m + n /\ \A i \in 1..(m + n) : u[i] = IF i <= m THEN a[i] ELSE c[i - m]
  <2>1. /\ Len(a \o c) = Len(a) + Len(c)
        /\ \A i \in 1..(Len(a) + Len(c)) : (a \o c)[i] = IF i <= Len(a) THEN a[i] ELSE c[i - Len(a)]
    <3>1. a \in Seq(Byte) /\ c \in Seq(Byte)
        BY DEF Bytes
    <3> QED BY <3>1, ConcatProperties
  <2> QED BY <1>2, <1>3, <2>1
<1>5. Len(w) = m + n /\ \A i \in 1..(m + n) : w[i] = IF i <= m THEN b[i] ELSE d[i - m]
  <2>1. /\ Len(b \o d) = Len(b) + Len(d)
        /\ \A i \in 1..(Len(b) + Len(d)) : (b \o d)[i] = IF i <= Len(b) THEN b[i] ELSE d[i - Len(b)]
    <3>1. b \in Seq(Byte) /\ d \in Seq(Byte)
        BY DEF Bytes
    <3> QED BY <3>1, ConcatProperties
  <2> QED BY <1>1, <1>3, <2>1
<1>6. /\ \A i \in 1..m : a[i] \in Newlines <=> b[i] \in Newlines
      /\ \A i \in 1..n : c[i] \in Newlines <=> d[i] \in Newlines
    BY <1>1 DEF Marked
<1>7. ASSUME NEW i \in 1..(m + n) PROVE u[i] \in Newlines <=> w[i] \in Newlines
  <2>1. CASE i <= m
    <3>1. i \in 1..m
        BY <2>1
    <3> QED BY <1>4, <1>5, <1>6, <2>1, <3>1
  <2>2. CASE ~(i <= m)
    <3>1. i - m \in 1..n
        BY <2>2
    <3> QED BY <1>4, <1>5, <1>6, <2>2, <3>1
  <2> QED BY <2>1, <2>2
<1> QED BY <1>3, <1>4, <1>5, <1>7 DEF Marked

LEMMA MarkedCuts == ASSUME NEW a \in Bytes, NEW b \in Bytes, Marked(a, b) PROVE Cuts(a) = Cuts(b)
<1>1. PICK n \in Nat : n = Len(b) /\ DOMAIN b = 1..n /\ DOMAIN a = 1..n
  <2>1. Len(a) = Len(b)
      BY DEF Marked
  <2> QED BY <2>1, CutsOf
<1>2. \A i \in 1..n : a[i] \in Newlines <=> b[i] \in Newlines
    BY <1>1 DEF Marked
<1> QED BY <1>1, <1>2 DEF Cuts

(* How often a line is among others.                                       *)
LEMMA TimesIs ==
    ASSUME NEW a \in Seq(Bytes), NEW l
    PROVE  /\ IsFiniteSet({i \in DOMAIN a : a[i] = l}) /\ Times(l, a) \in Nat
           /\ DOMAIN a = 1..Len(a) /\ Len(a) \in Nat
<1>1. DOMAIN a = 1..Len(a) /\ Len(a) \in Nat
    BY LenProperties
<1>2. IsFiniteSet(DOMAIN a)
    BY <1>1, FS_Interval
<1>3. IsFiniteSet({i \in DOMAIN a : a[i] = l})
    BY <1>2, FS_Subset
<1> QED BY <1>1, <1>3, FS_CardinalityType DEF Times

LEMMA ShiftedSet ==
    ASSUME NEW m \in Nat, NEW B, B \subseteq Nat, IsFiniteSet(B)
    PROVE  IsFiniteSet({m + i : i \in B}) /\ Cardinality({m + i : i \in B}) = Cardinality(B)
<1> DEFINE T == {m + i : i \in B}
           f == [i \in B |-> m + i]
<1>1. f \in [B -> T] /\ \A i \in B : f[i] = m + i
    OBVIOUS
<1>2. \A t \in T : \E i \in B : f[i] = t
    OBVIOUS
<1>3. \A i, j \in B : f[i] = f[j] => i = j
  <2>1. \A i, j \in B : i \in Nat /\ j \in Nat
      OBVIOUS
  <2>2. \A i, j \in Nat : m + i = m + j => i = j
      OBVIOUS
  <2> QED BY <1>1, <2>1, <2>2
<1> HIDE DEF f, T
<1>4. f \in Bijection(B, T)
    BY <1>1, <1>2, <1>3 DEF Bijection, Injection, Surjection, IsInjective
<1>5. ExistsBijection(B, T)
    BY <1>4 DEF ExistsBijection
<1>6. IsFiniteSet(T) /\ Cardinality(T) = Cardinality(B)
    BY <1>5, FS_Bijection
<1> QED BY <1>6 DEF T

LEMMA TimesJoin ==
    ASSUME NEW a \in Seq(Bytes), NEW b \in Seq(Bytes), NEW l
    PROVE  Times(l, a \o b) = Times(l, a) + Times(l, b)
<1>1. PICK m \in Nat, n \in Nat, w \in {a \o b} : m = Len(a) /\ n = Len(b) /\ w = a \o b /\ DOMAIN a = 1..m /\ DOMAIN b = 1..n
    BY TimesIs
<1>2. /\ DOMAIN w = 1..(m + n)
      /\ \A i \in 1..(m + n) : w[i] = IF i <= m THEN a[i] ELSE b[i - m]
  <2>1. /\ a \o b \in Seq(Bytes) /\ Len(a \o b) = Len(a) + Len(b)
        /\ \A i \in 1..(Len(a) + Len(b)) : (a \o b)[i] = IF i <= Len(a) THEN a[i] ELSE b[i - Len(a)]
      BY ConcatProperties
  <2>2. w \in Seq(Bytes) /\ Len(w) = m + n
      BY <1>1, <2>1
  <2>3. DOMAIN w = 1..(m + n)
      BY <2>2, LenProperties
  <2> QED BY <1>1, <2>1, <2>3
<1> DEFINE A == {i \in 1..m : a[i] = l}
           B == {i \in 1..n : b[i] = l}
           C == {m + i : i \in B}
<1>3. {i \in 1..(m + n) : w[i] = l} = A \cup C
  <2>1. ASSUME NEW i \in 1..(m + n), w[i] = l PROVE i \in A \cup C
    <3>1. CASE i <= m
      <4>1. i \in 1..m /\ a[i] = l
          BY <1>2, <2>1, <3>1
      <4> QED BY <4>1
    <3>2. CASE ~(i <= m)
      <4>1. i - m \in 1..n /\ m + (i - m) = i
          BY <3>2
      <4>2. b[i - m] = l
          BY <1>2, <2>1, <3>2
      <4>3. i - m \in B
          BY <4>1, <4>2
      <4> QED BY <4>1, <4>3
    <3> QED BY <3>1, <3>2
  <2>2. ASSUME NEW i \in A PROVE i \in 1..(m + n) /\ w[i] = l
    <3>1. i \in 1..(m + n) /\ i <= m
        OBVIOUS
    <3> QED BY <1>2, <3>1
  <2>3. ASSUME NEW i \in B PROVE m + i \in 1..(m + n) /\ w[m + i] = l
    <3>1. m + i \in 1..(m + n) /\ ~(m + i <= m) /\ (m + i) - m = i
        OBVIOUS
    <3> QED BY <1>2, <3>1
  <2> QED BY <2>1, <2>2, <2>3
<1>4. A \cap C = {}
  <2>1. \A i \in B : ~(m + i \in 1..m)
      OBVIOUS
  <2> QED BY <2>1
<1>5. IsFiniteSet(A) /\ Cardinality(A) = Times(l, a) /\ Times(l, a) \in Nat
    BY <1>1, TimesIs DEF Times
<1>6. IsFiniteSet(B) /\ Cardinality(B) = Times(l, b) /\ Times(l, b) \in Nat
    BY <1>1, TimesIs DEF Times
<1>7. B \subseteq Nat
    OBVIOUS
<1> HIDE DEF A, B
<1>8. IsFiniteSet(C) /\ Cardinality(C) = Times(l, b)
    BY <1>6, <1>7, ShiftedSet
<1> HIDE DEF C
<1>9. Cardinality(A \cup C) = Times(l, a) + Times(l, b) - Cardinality({})
    BY <1>4, <1>5, <1>8, FS_Union
<1>10. Cardinality(A \cup C) = Times(l, a) + Times(l, b)
    BY <1>5, <1>6, <1>9, FS_EmptySet
<1> QED BY <1>1, <1>2, <1>3, <1>10 DEF Times

-----------------------------------------------------------------------------
(* The lines that went out, and those under way, are those of the text.    *)
LastOf(b, ended) == IF ended /\ RestOf(b) # <<>> THEN <<RestOf(b)>> ELSE <<>>
EndHeard == Null \in ToSet(log.heard)
SameLines(a, b) == \A l : Times(l, a) = Times(l, b)
TextHolds ==
    /\ Marked(Text, Ate)
    /\ "late" \notin log.meddled =>
           /\ SameLines(GivenLines \o UnderOf(stack), LinesOf(Text) \o LastOf(Text, EndHeard))
           /\ ~overtaken => GivenLines \o UnderOf(stack) = LinesOf(Text) \o LastOf(Text, EndHeard)
           /\ ~EndHeard => rest = RestOf(Text)
LinesHold == chain.sink = "lines" => Lined(stack) /\ IteratorHolds /\ TextHolds

LEMMA TextIs ==
    ASSUME Typed, IteratorHolds
    PROVE  /\ Text \in Bytes /\ Ate \in Bytes /\ GivenLines \in Seq(Bytes) /\ LinesOf(Text) \in Seq(Bytes)
           /\ log.heard \in Heard
<1>1. log.heard \in Heard
    BY LogIs DEF Typed
<1>2. Ate \in Bytes /\ Text \in Bytes
    BY <1>1, AteMore, TextMore, TextIsOf DEF Ate
<1>3. LinesOf(Text) \in Seq(Bytes)
    BY <1>2, LinesType
<1>4. LinesGiven(given) \in Seq(Bytes)
  <2>1. given \in Seq(Going)
      BY DEF IteratorHolds
  <2>2. PICK e : e \in Going
    <3>1. \E e \in Going : e = [line |-> Null, to |-> "line"] /\ e.line = Null /\ e.to = "line"
        BY BytesNone, GoingIs
    <3> QED BY <3>1
  <2> QED BY <2>1, <2>2, GivenMore
<1> QED BY <1>1, <1>2, <1>3, <1>4, GivenIs

LEMMA TextStays == ASSUME TextHolds, Silent, UNCHANGED <<rest, given, overtaken>> PROVE TextHolds'
<1>1. log'.heard = log.heard /\ UnderOf(stack') = UnderOf(stack) /\ log.meddled \subseteq log'.meddled
    BY DEF Silent, LinesStay, Unheard
<1>2. Ate' = Ate /\ Text' = Text /\ EndHeard' = EndHeard /\ GivenLines' = GivenLines
    BY <1>1 DEF Ate, Text, EndHeard, GivenLines
<1>3. /\ (UnderOf(stack))' = UnderOf(stack) /\ (LinesOf(Text))' = LinesOf(Text) /\ (RestOf(Text))' = RestOf(Text)
      /\ (LastOf(Text, EndHeard))' = LastOf(Text, EndHeard) /\ (Marked(Text, Ate))' = Marked(Text, Ate)
    BY <1>1, <1>2 DEF LastOf, Marked
<1> QED BY <1>1, <1>2, <1>3 DEF TextHolds, SameLines

LEMMA IteratorStays == ASSUME IteratorHolds, UNCHANGED <<given, closed, iterator>> PROVE IteratorHolds'
BY DEF IteratorHolds

LEMMA TextGoes ==
    ASSUME Typed, IteratorHolds, TextHolds, NEW e \in Going, given' = Append(given, e),
           UNCHANGED <<log, rest, overtaken>>,
           UnderOf(stack) = <<e.line>> \o UnderOf(stack'), UnderOf(stack') \in Seq(Bytes)
    PROVE  TextHolds'
<1>1. Ate' = Ate /\ Text' = Text /\ EndHeard' = EndHeard
    BY DEF Ate, Text, EndHeard
<1>2. PICK p \in Seq(Bytes), u \in Seq(Bytes), o \in Seq(Bytes) : p = GivenLines /\ u = UnderOf(stack') /\ o = <<e.line>>
  <2>1. e.line \in Bytes
      BY DEF Going
  <2>2. <<e.line>> \in Seq(Bytes)
      BY <2>1
  <2> QED BY <2>2, TextIs
<1>3. GivenLines' = Append(p, e.line)
  <2>1. LinesGiven(Append(given, e)) = Append(LinesGiven(given), e.line)
      BY GivenMore DEF IteratorHolds
  <2>2. GivenLines = LinesGiven(given) /\ GivenLines' = LinesGiven(given')
      BY DEF GivenLines, LinesGiven
  <2> QED BY <1>2, <2>1, <2>2
<1>4. Append(p, e.line) = p \o o
    BY <1>2, AppendIsConcat DEF Going
<1>5. Associates(p, o, u)
    BY SeqsAssociate
<1>6. GivenLines' \o UnderOf(stack') = GivenLines \o UnderOf(stack)
    BY <1>2, <1>3, <1>4, <1>5 DEF Associates
<1> QED BY <1>1, <1>6 DEF TextHolds, LastOf, Marked, SameLines

(* Lines that come before those that wait are no fewer or more for that.   *)
LEMMA SentMore ==
    ASSUME NEW p \in Seq(Bytes), NEW q \in Seq(Bytes), NEW u \in Seq(Bytes), NEW n \in Seq(Bytes),
           SameLines(p \o u, q)
    PROVE  SameLines(p \o (n \o u), q \o n)
<1>1. ASSUME NEW l PROVE Times(l, p \o (n \o u)) = Times(l, q \o n)
  <2>1. PICK v \in Seq(Bytes) : v = n \o u
      BY ConcatProperties
  <2>2. Times(l, p \o v) = Times(l, p) + Times(l, v)
      BY TimesJoin
  <2>3. Times(l, n \o u) = Times(l, n) + Times(l, u)
      BY TimesJoin
  <2>4. Times(l, p \o u) = Times(l, p) + Times(l, u)
      BY TimesJoin
  <2>5. Times(l, q \o n) = Times(l, q) + Times(l, n)
      BY TimesJoin
  <2>6. Times(l, p \o u) = Times(l, q)
      BY DEF SameLines
  <2>7. Times(l, p) \in Nat /\ Times(l, q) \in Nat /\ Times(l, u) \in Nat /\ Times(l, n) \in Nat
      BY TimesIs
  <2> QED BY <2>1, <2>2, <2>3, <2>4, <2>5, <2>6, <2>7
<1> QED BY <1>1 DEF SameLines

(* A chunk is heard: the lines it ends.                                    *)
LEMMA TextFed ==
    ASSUME Typed, Inv, Lined(stack), IteratorHolds, TextHolds, DataToInterface
    PROVE  Lined(stack') /\ TextHolds'
<1>1. /\ Flows(Outlet) /\ r' = Taken(Outlet) /\ chain.sink = "lines" /\ given' = given
      /\ log' = [log EXCEPT !.heard = Append(@, Chunk(Outlet))]
      /\ rest' = RestOf(rest \o Decoded(Chunk(Outlet)))
      /\ stack' = stack \o LineCalls(LinesOf(rest \o Decoded(Chunk(Outlet))))
      /\ overtaken' = (overtaken \/ (LinesUnderWay # <<>> /\ LinesOf(rest \o Decoded(Chunk(Outlet))) # <<>>))
    BY DEF DataToInterface, Interface, Fed
<1>2. Chunk(Outlet) \in Bytes /\ Chunk(Outlet) # Null
  <2>1. Takes(Outlet)
      BY <1>1, OutletIs, FlowTakes
  <2> QED BY <2>1, OutletIs, TakenIs
<1>3. PICK c \in Bytes, t \in Bytes, a \in Bytes, left \in Bytes, h \in Heard :
          c = Chunk(Outlet) /\ t = Text /\ a = Ate /\ left = rest /\ h = log.heard /\ c # Null
    BY <1>2, TextIs DEF Typed
<1>4. PICK d \in Bytes : d = Decoded(c) /\ Marked(d, c)
    BY DecodedIs DEF Marked
<1>5. log'.heard = Append(h, c) /\ log'.meddled = log.meddled
    BY <1>1, <1>3 DEF Typed, Log
<1>6. Ate' = a \o c
  <2>1. Joined(FlattenSeq(Data(Append(h, c))), FlattenSeq(Data(h)), c)
      BY AteMore
  <2>2. Ate' = FlattenSeq(Data(Append(h, c))) /\ a = FlattenSeq(Data(h))
      BY <1>3, <1>5 DEF Ate
  <2> QED BY <2>1, <2>2 DEF Joined
<1>7. Text' = t \o d
  <2>1. TextOf(Append(h, c)) = TextOf(h) \o d
      BY <1>4, TextMore
  <2>2. Text' = TextOf(Append(h, c)) /\ t = TextOf(h)
      BY <1>3, <1>5, TextIsOf
  <2> QED BY <2>1, <2>2
<1>8. EndHeard' <=> EndHeard
  <2>1. \A x : x \in ToSet(Append(h, c)) <=> x \in ToSet(h) \/ x = c
      BY HearMore
  <2> QED BY <1>3, <1>5, <2>1 DEF EndHeard
<1>9. Marked(Text', Ate')
  <2>1. Marked(t, a)
      BY <1>3 DEF TextHolds
  <2> QED BY <1>4, <1>6, <1>7, <2>1, MarkedJoin
<1>10. PICK n \in Seq(Bytes) : n = LinesOf(left \o d)
  <2>1. left \o d \in Bytes
      BY BytesJoin
  <2> QED BY <2>1, LinesType
<1>11. PICK u \in Seq(Bytes) : u = UnderOf(stack) /\ Lined(stack') /\ UnderOf(stack') = n \o u
  <2>1. stack' = stack \o LineCalls(n)
      BY <1>1, <1>3, <1>4, <1>10
  <2> QED BY <2>1, DataToInterfaceLines
<1>12. ASSUME "late" \notin log.meddled
       PROVE  /\ SameLines(GivenLines' \o UnderOf(stack'), LinesOf(Text') \o LastOf(Text', EndHeard'))
              /\ ~overtaken' => GivenLines' \o UnderOf(stack') = LinesOf(Text') \o LastOf(Text', EndHeard')
              /\ ~EndHeard' /\ rest' = RestOf(Text')
  <2>1. ~EndHeard
    <3>1. EndHeard => r[Outlet].endEmitted
        BY <1>1 DEF Inv, HeardHolds, EndHeard
    <3>2. r[Outlet].endEmitted => r[Outlet].buf = <<>>
        BY <1>12, OutletIs DEF Inv, EndsHold
    <3> QED BY <1>1, <3>1, <3>2 DEF Flows
  <2>2. PICK p \in Seq(Bytes), q \in Seq(Bytes) : p = GivenLines /\ q = LinesOf(t)
      BY <1>3, TextIs
  <2>3. q \o <<>> = q
      BY ConcatEmptySeq
  <2>4. LastOf(Text, EndHeard) = <<>> /\ LastOf(Text', EndHeard') = <<>>
      BY <1>8, <2>1 DEF LastOf
  <2>5. SameLines(p \o u, q) /\ (~overtaken => p \o u = q) /\ left = RestOf(t)
    <3>1. /\ SameLines(GivenLines \o UnderOf(stack), LinesOf(Text) \o LastOf(Text, EndHeard))
          /\ ~overtaken => GivenLines \o UnderOf(stack) = LinesOf(Text) \o LastOf(Text, EndHeard)
          /\ ~EndHeard => rest = RestOf(Text)
        BY <1>12 DEF TextHolds
    <3>2. LinesOf(Text) \o LastOf(Text, EndHeard) = q
        BY <1>3, <2>2, <2>3, <2>4
    <3>3. GivenLines \o UnderOf(stack) = p \o u
        BY <1>11, <2>2
    <3> QED BY <1>3, <2>1, <3>1, <3>2, <3>3
  <2>6. FedBy(t, d)
      BY FeedsLines
  <2>7. LinesOf(t \o d) = q \o n /\ RestOf(t \o d) = RestOf(left \o d)
      BY <1>10, <2>2, <2>5, <2>6 DEF FedBy
  <2>8. GivenLines' = p
      BY <1>1, <2>2 DEF GivenLines
  <2>9. GivenLines' \o UnderOf(stack') = p \o (n \o u)
      BY <1>11, <2>8
  <2>10. LinesOf(Text') \o LastOf(Text', EndHeard') = q \o n
    <3>1. (q \o n) \o <<>> = q \o n
      <4>1. q \o n \in Seq(Bytes)
          BY ConcatProperties
      <4> QED BY <4>1, ConcatEmptySeq
    <3> QED BY <1>7, <2>4, <2>7, <3>1
  <2>11. SameLines(p \o (n \o u), q \o n)
      BY <2>5, SentMore
  <2>12. ASSUME ~overtaken' PROVE p \o (n \o u) = q \o n
    <3>1. ~overtaken /\ (u = <<>> \/ n = <<>>)
      <4>1. LinesUnderWay = u
          BY <1>11, UnderIs DEF Lined
      <4> QED BY <1>1, <1>3, <1>4, <1>10, <2>12, <4>1
    <3>2. p \o u = q
        BY <2>5, <3>1
    <3>3. CASE u = <<>>
      <4>1. n \o <<>> = n /\ p \o <<>> = p
          BY ConcatEmptySeq
      <4> QED BY <3>2, <3>3, <4>1
    <3>4. CASE n = <<>>
      <4>1. <<>> \o u = u /\ q \o <<>> = q
          BY ConcatEmptySeq
      <4> QED BY <3>2, <3>4, <4>1
    <3> QED BY <3>1, <3>3, <3>4
  <2>13. rest' = RestOf(Text')
      BY <1>1, <1>3, <1>4, <1>7, <2>7
  <2> QED BY <1>8, <2>1, <2>9, <2>10, <2>11, <2>12, <2>13
<1> QED BY <1>5, <1>9, <1>11, <1>12 DEF TextHolds

(* The end is heard: what is left is a line.                               *)
LEMMA TextEnds ==
    ASSUME Typed, Inv, IteratorHolds, TextHolds, EndOfInput,
           UnderOf(stack) = <<>>, UnderOf(stack') = IF rest = <<>> THEN <<>> ELSE <<rest>>
    PROVE  TextHolds'
<1>1. /\ JobComes("end") /\ Head(jobs).at = Outlet /\ chain.sink = "lines" /\ given' = given
      /\ log' = [log EXCEPT !.heard = Append(@, Null)] /\ overtaken' = overtaken
    BY DEF EndOfInput, Interface
<1>2. PICK t \in Bytes, h \in Heard : t = Text /\ h = log.heard
    BY TextIs
<1>3. log'.heard = Append(h, Null) /\ log'.meddled = log.meddled
    BY <1>1, <1>2 DEF Typed, Log
<1>4. Ate' = Ate /\ Text' = t
  <2>1. FlattenSeq(Data(Append(h, Null))) = FlattenSeq(Data(h)) /\ TextOf(Append(h, Null)) = TextOf(h)
      BY AteMore, TextMore
  <2>2. Text' = TextOf(log'.heard)
      BY TextIsOf
  <2> QED BY <1>2, <1>3, <2>1, <2>2, TextIsOf DEF Ate
<1>5. EndHeard'
  <2>1. \A x : x \in ToSet(Append(h, Null)) <=> x \in ToSet(h) \/ x = Null
      BY BytesNone, HearMore
  <2> QED BY <1>3, <2>1 DEF EndHeard
<1>6. Marked(Text', Ate')
    BY <1>2, <1>4 DEF TextHolds
<1>7. ~EndHeard
  <2>1. Waits(jobs, Job("end", Outlet))
      BY <1>1, EndComes
  <2> QED BY <1>1, <2>1 DEF Inv, HeardHolds, EndHeard
<1>8. ASSUME "late" \notin log.meddled
      PROVE  /\ SameLines(GivenLines' \o UnderOf(stack'), LinesOf(Text') \o LastOf(Text', EndHeard'))
             /\ ~overtaken' => GivenLines' \o UnderOf(stack') = LinesOf(Text') \o LastOf(Text', EndHeard')
  <2>1. PICK p \in Seq(Bytes), q \in Seq(Bytes) : p = GivenLines /\ q = LinesOf(t)
      BY <1>2, TextIs
  <2>2. PICK e \in Seq(Bytes) : e = <<>>
    <3>1. <<>> \in Seq(Bytes)
        OBVIOUS
    <3> QED BY <3>1
  <2>3. p \o e = p /\ q \o e = q
      BY <2>2, ConcatEmptySeq
  <2>4. LastOf(Text, EndHeard) = e
      BY <1>7, <2>2 DEF LastOf
  <2>5. SameLines(p \o e, q) /\ (~overtaken => p = q) /\ rest = RestOf(t)
    <3>1. /\ SameLines(GivenLines \o UnderOf(stack), LinesOf(Text) \o LastOf(Text, EndHeard))
          /\ ~overtaken => GivenLines \o UnderOf(stack) = LinesOf(Text) \o LastOf(Text, EndHeard)
          /\ ~EndHeard => rest = RestOf(Text)
        BY <1>8 DEF TextHolds
    <3>2. LinesOf(Text) \o LastOf(Text, EndHeard) = q
        BY <1>2, <2>1, <2>3, <2>4
    <3>3. GivenLines \o UnderOf(stack) = p \o e
        BY <2>1, <2>2
    <3> QED BY <1>2, <1>7, <2>3, <3>1, <3>2, <3>3
  <2>6. PICK n \in Seq(Bytes) : n = UnderOf(stack')
    <3>1. rest \in Bytes
        BY DEF Typed
    <3>2. <<rest>> \in Seq(Bytes) /\ <<>> \in Seq(Bytes)
        BY <3>1
    <3> QED BY <3>2
  <2>7. LastOf(Text', EndHeard') = n
      BY <1>4, <1>5, <2>5, <2>6 DEF LastOf
  <2>8. GivenLines' = p /\ LinesOf(Text') = q
      BY <1>1, <1>4, <2>1 DEF GivenLines
  <2>9. SameLines(p \o (n \o e), q \o n)
      BY <2>2, <2>5, SentMore
  <2>10. n \o e = n
      BY <2>2, ConcatEmptySeq
  <2>11. SameLines(p \o n, q \o n)
      BY <2>9, <2>10
  <2> QED BY <1>1, <2>5, <2>6, <2>7, <2>8, <2>11
<1> QED BY <1>3, <1>5, <1>6, <1>8 DEF TextHolds

LEMMA ChainStays == ASSUME [LinesNext]_allVars PROVE chain' = chain
<1>1. CASE UNCHANGED allVars
    BY <1>1 DEF allVars, vars
<1>2. CASE Calls
    BY <1>2 DEF Calls, Pushes, DrainEnds, DataToTransform, DataToWritable, DataToResponse, DataToConsumer,
                DataToNobody, ReadReturns
<1>3. CASE Jobs
    BY <1>3 DEF Jobs, DrainJob, ErrorJob, EndOfSource, FlushFails, TransformFinishes, EndOfOutlet, WritableFinishes
<1>4. CASE Source
    BY <1>4 DEF Source, SourcePushes, PullSettles, SourceFails
<1>5. CASE Callbacks
    BY <1>5 DEF Callbacks, TransformAnswers, WriteIsDone, CallbackFails, FinalCalls
<1>6. CASE Script
    BY <1>6 DEF Script, Connects, ListenerReturns, Reads, NextIsCalled, ScriptEnds, Pauses, Resumes, Unpipes, Destroys
<1>7. CASE DataToInterface \/ EndOfInput
    BY <1>7 DEF DataToInterface, EndOfInput
<1>8. CASE LineCall
    BY <1>8 DEF LineCall, LineAnswers, LineEmitted, Closes
<1>9. CASE LineScript
    BY <1>9 DEF LineScript, Asks, NextLine, ScriptCloses, Iterates, vars
<1> QED BY <1>1, <1>2, <1>3, <1>4, <1>5, <1>6, <1>7, <1>8, <1>9 DEF LinesNext, Next

LEMMA LinesStart == ASSUME LinesInit PROVE LinesHold
<1>1. /\ stack = <<>> /\ log.heard = <<>> /\ rest = <<>> /\ given = <<>> /\ closed = FALSE
      /\ iterator = [kind |-> "none", lines |-> <<>>, waiting |-> 0, done |-> FALSE, gave |-> <<>>, since |-> 0, late |-> FALSE]
    BY DEF LinesInit, Init
<1>2. Lined(stack) /\ UnderOf(stack) = <<>>
    BY <1>1, StayNone
<1>3. <<>> \in Seq(Bytes) /\ <<>> \in Seq(Going) /\ Len(<<>>) = 0
    BY EmptySeq
<1>4. <<>> \o <<>> = <<>>
    BY <1>3, ConcatEmptySeq
<1>5. IteratorHolds
  <2>1. iterator \in Iterator
      BY <1>1, <1>3 DEF Iterator
  <2>2. Heeds(iterator, given)
      BY <1>1, <1>3 DEF Heeds
  <2> QED BY <1>1, <1>3, <2>1, <2>2 DEF IteratorHolds
<1>6. TextHolds
  <2>1. GivenLines = <<>>
      BY <1>1 DEF GivenLines
  <2>2. Ate = <<>> /\ Text = <<>>
    <3>1. Data(<<>>) = <<>>
        BY DEF Data
    <3>2. Spelt(<<>>) = <<>>
        BY DEF Spelt
    <3> QED BY <1>1, <3>1, <3>2, FlattenNone, TextIsOf DEF Ate, TextOf
  <2>3. ~EndHeard
    <3>1. ToSet(<<>>) = {}
        BY DEF ToSet
    <3> QED BY <1>1, <3>1 DEF EndHeard
  <2>4. LastOf(Text, EndHeard) = <<>>
      BY <2>3 DEF LastOf
  <2>5. LinesOf(Text) = <<>> /\ RestOf(Text) = <<>>
      BY <2>2, LinesNone
  <2>6. Marked(Text, Ate)
      BY <2>2 DEF Marked
  <2>7. GivenLines \o UnderOf(stack) = LinesOf(Text) \o LastOf(Text, EndHeard)
      BY <1>2, <2>1, <2>4, <2>5
  <2> QED BY <1>1, <2>5, <2>6, <2>7 DEF TextHolds, SameLines
<1> QED BY <1>2, <1>5, <1>6 DEF LinesHold

LEMMA LinesStep ==
    ASSUME Typed, Inv, chain.sink = "lines", Lined(stack), IteratorHolds, TextHolds, [LinesNext]_allVars
    PROVE  Lined(stack') /\ IteratorHolds' /\ TextHolds'
<1>0. Silent => Lined(stack')
    BY DEF Silent, LinesStay
<1>1. CASE UNCHANGED allVars
  <2>1. UNCHANGED <<log, stack, rest, given, closed, overtaken, iterator>>
      BY <1>1 DEF allVars, vars, lineVars
  <2>2. Silent
      BY <2>1, StaySame DEF Silent, Unheard
  <2> QED BY <1>0, <2>1, <2>2, IteratorStays, TextStays
<1>2. CASE Next /\ UNCHANGED lineVars
  <2>1. Silent
      BY <1>2, StreamsLines
  <2> QED BY <1>0, <1>2, <2>1, IteratorStays, TextStays DEF lineVars
<1>3. CASE DataToInterface
  <2>1. UNCHANGED <<given, closed, iterator>>
      BY <1>3 DEF DataToInterface
  <2> QED BY <1>3, <2>1, IteratorStays, TextFed
<1>4. CASE EndOfInput
  <2>1. Lined(stack') /\ UnderOf(stack) = <<>> /\ UnderOf(stack') = IF rest = <<>> THEN <<>> ELSE <<rest>>
      BY <1>4, EndOfInputLines
  <2>2. UNCHANGED <<given, closed, iterator>>
      BY <1>4 DEF EndOfInput
  <2> QED BY <1>4, <2>1, <2>2, IteratorStays, TextEnds
<1>5. CASE LineAnswers \/ LineEmitted
  <2>1. /\ Running("line") /\ UNCHANGED <<log, rest, overtaken>>
        /\ stack' = Front(stack) \/ stack' = Append(Front(stack), Call("listener", Outlet, Null))
      BY <1>5 DEF LineAnswers, LineEmitted, ToQuestion
  <2>2. /\ Lined(stack') /\ Top.chunk \in Bytes
        /\ UnderOf(stack) = <<Top.chunk>> \o UnderOf(stack') /\ UnderOf(stack') \in Seq(Bytes)
      BY <2>1, LineGoes
  <2>3. IteratorHolds' /\ \E e \in Going : given' = Append(given, e) /\ e.line = Top.chunk
      BY <1>5, <2>2, LineAnswersIterator, LineEmittedIterator
  <2>4. PICK e \in Going : given' = Append(given, e) /\ e.line = Top.chunk
      BY <2>3
  <2>5. UnderOf(stack) = <<e.line>> \o UnderOf(stack')
      BY <2>2, <2>4
  <2> QED BY <2>1, <2>2, <2>3, <2>4, <2>5, TextGoes
<1>6. CASE Closes \/ LineScript
  <2>1. Silent
      BY <1>6, InterfaceLines
  <2>2. UNCHANGED <<rest, given, overtaken>>
      BY <1>6 DEF Closes, LineScript, Asks, NextLine, ScriptCloses, Iterates
  <2>3. IteratorHolds'
    <3>1. CASE Closes \/ ScriptCloses
        BY <3>1, <2>2, CloseIterator DEF Closes, ScriptCloses
    <3>2. CASE Asks
        BY <3>2, IteratorStays DEF Asks
    <3>3. CASE NextLine
        BY <3>3, NextLineIterator
    <3>4. CASE \E kind \in {"lines", "on"} : Iterates(kind)
        BY <3>4, IteratesIterator
    <3> QED BY <1>6, <3>1, <3>2, <3>3, <3>4 DEF LineScript
  <2> QED BY <1>0, <2>1, <2>2, <2>3, TextStays
<1> QED BY <1>1, <1>2, <1>3, <1>4, <1>5, <1>6 DEF LinesNext, Streams, LineCall

LEMMA LinesKeep == ASSUME Typed, Inv, LinesHold, [LinesNext]_allVars PROVE LinesHold'
<1>1. chain' = chain
    BY ChainStays
<1> QED BY <1>1, LinesStep DEF LinesHold

(* What the invariant says of the lines.                                   *)
LEMMA LinesAreInOrder == ASSUME Typed, LinesHold PROVE LinesInOrder
<1>1. SUFFICES ASSUME chain.sink = "lines" PROVE LinesInOrder
    BY DEF LinesInOrder
<1>2. Lined(stack) /\ IteratorHolds /\ TextHolds
    BY <1>1 DEF LinesHold
<1>3. LinesUnderWay = UnderOf(stack)
    BY <1>2, UnderIs DEF Lined
<1>4. iterator.kind # "none" => iterator.gave \o iterator.lines = Emitted
    BY <1>2, GivenIs DEF IteratorHolds, Heeds
<1>5. Cuts(Text) = Cuts(Ate)
    BY <1>2, TextIs, MarkedCuts DEF TextHolds
<1>6. PICK sent, lines : /\ sent = GivenLines \o LinesUnderWay
                         /\ lines = LinesOf(Text) \o LastOf(Text, EndHeard)
    OBVIOUS
<1>7. "late" \notin log.meddled =>
          /\ \A line : Times(line, sent) = Times(line, lines)
          /\ ~overtaken => sent = lines
          /\ ~EndHeard => rest = RestOf(Text)
    BY <1>2, <1>3, <1>6 DEF TextHolds, SameLines
<1> QED BY <1>4, <1>5, <1>6, <1>7 DEF LinesInOrder, EndHeard, LastOf

(* The text is what String() makes of each chunk (node_compat.js:1926), and *)
(* has its newlines where the bytes have theirs.  However it is cut into    *)
(* chunks, and whether or not a newline ends the last: each line goes out   *)
(* once, to one question or to the listeners, and in order, unless a        *)
(* listener has had a chunk pushed while other lines waited (_feed, _end);  *)
(* and an iterator gives those it has heard, in order.                      *)
THEOREM LinesAlways == Spec => []LinesInOrder
<1>1. LinesInit => Typed /\ Inv /\ LinesHold
    BY Starts, LinesStart
<1>2. Typed /\ Inv /\ LinesHold /\ [LinesNext]_allVars => (Typed /\ Inv /\ LinesHold)'
    BY Stays, LinesKeep
<1>3. Typed /\ LinesHold => LinesInOrder
    BY LinesAreInOrder
<1> QED BY <1>1, <1>2, <1>3, PTL DEF Spec
=============================================================================
