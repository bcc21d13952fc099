-------------------------- MODULE EventLoop_proofs --------------------------
(***************************************************************************)
(* Memory safety of the runtime's timers, for any number of timers and any *)
(* loop that honours the contract; and that the loop in the program does,  *)
(* whatever its callbacks set, clear and re-arm while it walks its list.   *)
(* Then the pump that polls the loop: no rejection is lost or hidden from  *)
(* its report, for any promises, jobs and handles.  And the connections of *)
(* Sxn.serve: replies come once and in order, an open one has one thing    *)
(* that moves it on, stop() takes every open one, and only what stop() cut *)
(* is used after it is closed, for any connections and any requests.       *)
(***************************************************************************)
EXTENDS BuiltinLoop, RuntimePump, ServeConn, SequenceTheorems, WellFoundedInduction, TLAPS

-----------------------------------------------------------------------------
(* Lists of timers: which comes before which.                               *)
Before(q, x, y) == \E i, j \in DOMAIN q : i < j /\ q[i] = x /\ q[j] = y
Sorted(q, lf) == \A x, y \in ToSet(q) : Before(q, x, y) => lf[x] <= lf[y]

LEMMA RemoveAtPosition ==
    ASSUME NEW S, NEW s \in Seq(S), NEW k \in 1..Len(s)
    PROVE  /\ RemoveAt(s, k) \in Seq(S)
           /\ DOMAIN RemoveAt(s, k) = 1..(Len(s) - 1)
           /\ \A i \in 1..(k - 1) : RemoveAt(s, k)[i] = s[i]
           /\ \A i \in k..(Len(s) - 1) : RemoveAt(s, k)[i] = s[i + 1]
<1> DEFINE a == SubSeq(s, 1, k - 1)
           b == SubSeq(s, k + 1, Len(s))
           n == Len(s)
<1>1. n \in Nat /\ k \in Int /\ 1 <= k /\ k <= n /\ \A i \in 1..n : s[i] \in S
    OBVIOUS
<1> HIDE DEF n
<1>2. a \in Seq(S) /\ Len(a) = k - 1 /\ \A i \in 1..(k - 1) : a[i] = s[i]
    BY <1>1 DEF n
<1>3. /\ b \in Seq(S) /\ Len(b) = IF k + 1 <= n THEN n - (k + 1) + 1 ELSE 0
      /\ \A i \in 1..(n - (k + 1) + 1) : b[i] = s[(k + 1) + i - 1]
  <2>1. k + 1 \in Int /\ n \in Int /\ \A i \in (k + 1)..n : s[i] \in S
      BY <1>1
  <2> QED BY <2>1, SubSeqProperties DEF n
<1>4. RemoveAt(s, k) = a \o b
    BY DEF RemoveAt
<1> HIDE DEF a, b
<1>5. Len(b) = n - k
    BY <1>1, <1>3
<1>6. /\ a \o b \in Seq(S) /\ Len(a \o b) = n - 1
      /\ \A i \in 1..(n - 1) : (a \o b)[i] = IF i <= k - 1 THEN a[i] ELSE b[i - (k - 1)]
  <2>1. Len(a) + Len(b) = n - 1
      BY <1>1, <1>2, <1>5
  <2> QED BY <1>2, <1>3, <2>1, ConcatProperties
<1>7. DOMAIN (a \o b) = 1..(n - 1)
    BY <1>6
<1>8. \A i \in 1..(k - 1) : (a \o b)[i] = s[i]
    BY <1>1, <1>2, <1>6
<1>9. ASSUME NEW i \in k..(n - 1) PROVE (a \o b)[i] = s[i + 1]
  <2>1. /\ i \in 1..(n - 1) /\ ~(i <= k - 1)
        /\ i - (k - 1) \in 1..(n - (k + 1) + 1)
        /\ (k + 1) + (i - (k - 1)) - 1 = i + 1
      BY <1>1
  <2>2. (a \o b)[i] = b[i - (k - 1)]
      BY <1>6, <2>1
  <2>3. b[i - (k - 1)] = s[(k + 1) + (i - (k - 1)) - 1]
      BY <1>3, <2>1
  <2> QED BY <2>1, <2>2, <2>3
<1> QED BY <1>4, <1>6, <1>7, <1>8, <1>9 DEF n

LEMMA InsertAtPosition ==
    ASSUME NEW S, NEW s \in Seq(S), NEW k \in 1..(Len(s) + 1), NEW e \in S
    PROVE  /\ InsertAt(s, k, e) \in Seq(S)
           /\ DOMAIN InsertAt(s, k, e) = 1..(Len(s) + 1)
           /\ \A i \in 1..(k - 1) : InsertAt(s, k, e)[i] = s[i]
           /\ InsertAt(s, k, e)[k] = e
           /\ \A i \in (k + 1)..(Len(s) + 1) : InsertAt(s, k, e)[i] = s[i - 1]
<1> DEFINE a == SubSeq(s, 1, k - 1)
           b == SubSeq(s, k, Len(s))
           c == <<e>>
           n == Len(s)
<1>1. n \in Nat /\ k \in Int /\ 1 <= k /\ k <= n + 1 /\ \A i \in 1..n : s[i] \in S
    OBVIOUS
<1>0. c \in Seq(S) /\ Len(c) = 1 /\ c[1] = e
    OBVIOUS
<1> HIDE DEF n, c
<1>2. a \in Seq(S) /\ Len(a) = k - 1 /\ \A i \in 1..(k - 1) : a[i] = s[i]
    BY <1>1 DEF n
<1>3. /\ b \in Seq(S) /\ Len(b) = IF k <= n THEN n - k + 1 ELSE 0
      /\ \A i \in 1..(n - k + 1) : b[i] = s[k + i - 1]
  <2>1. k \in Int /\ n \in Int /\ \A i \in k..n : s[i] \in S
      BY <1>1
  <2> QED BY <2>1, SubSeqProperties DEF n
<1>4. InsertAt(s, k, e) = (a \o c) \o b
    BY DEF InsertAt, c
<1> HIDE DEF a, b
<1>5. Len(b) = n - k + 1
    BY <1>1, <1>3
<1> DEFINE d == a \o c
<1>12. /\ d \in Seq(S) /\ Len(d) = Len(a) + Len(c)
       /\ \A i \in 1..(Len(a) + Len(c)) : d[i] = IF i <= Len(a) THEN a[i] ELSE c[i - Len(a)]
    BY <1>0, <1>2, ConcatProperties, Zenon
<1> HIDE DEF d
<1>6. /\ d \in Seq(S) /\ Len(d) = k
      /\ \A i \in 1..k : d[i] = IF i <= k - 1 THEN a[i] ELSE c[i - (k - 1)]
    BY <1>0, <1>1, <1>2, <1>12
<1>7. /\ d \o b \in Seq(S) /\ Len(d \o b) = n + 1
      /\ \A i \in 1..(n + 1) : (d \o b)[i] = IF i <= k THEN d[i] ELSE b[i - k]
  <2>1. /\ d \o b \in Seq(S) /\ Len(d \o b) = Len(d) + Len(b)
        /\ \A i \in 1..(Len(d) + Len(b)) : (d \o b)[i] = IF i <= Len(d) THEN d[i] ELSE b[i - Len(d)]
      BY <1>3, <1>6, ConcatProperties, Zenon
  <2> DEFINE f == d \o b
  <2> HIDE DEF f
  <2>2. /\ f \in Seq(S) /\ Len(f) = n + 1
        /\ \A i \in 1..(n + 1) : f[i] = IF i <= k THEN d[i] ELSE b[i - k]
      BY <1>1, <1>5, <1>6, <2>1 DEF f
  <2> QED BY <2>2 DEF f
<1>8. DOMAIN (d \o b) = 1..(n + 1)
    BY <1>7
<1>9. ASSUME NEW i \in 1..(k - 1) PROVE (d \o b)[i] = s[i]
  <2>1. i \in 1..(n + 1) /\ i <= k /\ i \in 1..k /\ i <= k - 1
      BY <1>1
  <2>2. (d \o b)[i] = d[i] /\ d[i] = a[i] /\ a[i] = s[i]
      BY <1>2, <1>6, <1>7, <2>1
  <2> QED BY <2>2
<1>10. (d \o b)[k] = e
  <2>1. d[k] = c[k - (k - 1)] /\ k - (k - 1) = 1
      BY <1>1, <1>6
  <2> QED BY <1>0, <1>1, <1>7, <2>1
<1>11. ASSUME NEW i \in (k + 1)..(n + 1) PROVE (d \o b)[i] = s[i - 1]
  <2>1. /\ i \in 1..(n + 1) /\ ~(i <= k) /\ i - k \in 1..(n - k + 1) /\ k + (i - k) - 1 = i - 1
      BY <1>1
  <2>2. (d \o b)[i] = b[i - k]
      BY <1>7, <2>1
  <2>3. b[i - k] = s[k + (i - k) - 1]
      BY <1>3, <2>1
  <2> QED BY <2>1, <2>2, <2>3
<1> QED BY <1>4, <1>7, <1>8, <1>9, <1>10, <1>11 DEF n, d

(* The first of a set of positions.                                         *)
LEMMA FirstOf ==
    ASSUME NEW T \in SUBSET Nat, T # {}
    PROVE  Min(T) \in T /\ \A i \in T : Min(T) <= i
<1> DEFINE Below == {p \in Nat \X Nat : p[1] < p[2]}
<1>1. IsWellFoundedOn(Below, Nat)
    BY NatLessThanWellFounded DEF OpToRel
<1>2. PICK m \in T : \A i \in T : ~(<<i, m>> \in Below)
    BY <1>1, WFMin
<1>3. ASSUME NEW i \in T PROVE m <= i
  <2>1. m \in Nat /\ i \in Nat
      OBVIOUS
  <2>2. ~(i < m)
      BY <1>2, <2>1
  <2> QED BY <2>1, <2>2
<1> QED BY <1>3 DEF Min

(* Taking a record off the list leaves the others in their order.           *)
LEMMA Removed ==
    ASSUME NEW S, NEW q \in Seq(S), IsInjective(q), NEW p \in 1..Len(q)
    PROVE  /\ RemoveAt(q, p) \in Seq(S)
           /\ IsInjective(RemoveAt(q, p))
           /\ ToSet(RemoveAt(q, p)) = ToSet(q) \ {q[p]}
           /\ \A x, y \in ToSet(RemoveAt(q, p)) : Before(RemoveAt(q, p), x, y) <=> Before(q, x, y)
<1> DEFINE r == RemoveAt(q, p)
           n == Len(q)
           from(i) == IF i < p THEN i ELSE i + 1
<1>1. n \in Nat /\ p \in 1..n /\ DOMAIN q = 1..n
    OBVIOUS
<1>2. /\ r \in Seq(S) /\ DOMAIN r = 1..(n - 1)
      /\ \A i \in 1..(p - 1) : r[i] = q[i]
      /\ \A i \in p..(n - 1) : r[i] = q[i + 1]
    BY RemoveAtPosition
<1> HIDE DEF n, r
<1>3. ASSUME NEW i \in 1..(n - 1)
      PROVE  from(i) \in 1..n /\ from(i) # p /\ r[i] = q[from(i)]
  <2>1. CASE i < p
    <3>1. i \in 1..(p - 1) /\ i \in 1..n /\ i # p
        BY <1>1, <2>1
    <3> QED BY <1>2, <2>1, <3>1
  <2>2. CASE ~(i < p)
    <3>1. i \in p..(n - 1) /\ i + 1 \in 1..n /\ i + 1 # p
        BY <1>1, <2>2
    <3> QED BY <1>2, <2>2, <3>1
  <2> QED BY <2>1, <2>2
<1>4. \A i, j \in 1..(n - 1) : (i < j <=> from(i) < from(j)) /\ (from(i) = from(j) => i = j)
    BY <1>1
<1>5. ASSUME NEW h \in 1..n, h # p PROVE \E i \in 1..(n - 1) : from(i) = h
  <2>1. CASE h < p
    <3>1. h \in 1..(n - 1) /\ from(h) = h
        BY <1>1, <2>1
    <3> QED BY <3>1
  <2>2. CASE ~(h < p)
    <3>1. h - 1 \in 1..(n - 1) /\ from(h - 1) = h
        BY <1>1, <1>5, <2>2
    <3> QED BY <3>1
  <2> QED BY <2>1, <2>2
<1> HIDE DEF from
<1>6. IsInjective(r)
    BY <1>1, <1>2, <1>3, <1>4 DEF IsInjective
<1>7. ASSUME NEW x \in ToSet(r) PROVE x \in ToSet(q) /\ x # q[p]
  <2>1. PICK i \in 1..(n - 1) : x = r[i]
      BY <1>2 DEF ToSet
  <2>2. from(i) \in 1..n /\ from(i) # p /\ x = q[from(i)]
      BY <1>3, <2>1
  <2> QED BY <1>1, <2>2 DEF ToSet, IsInjective
<1>8. ASSUME NEW x \in ToSet(q), x # q[p] PROVE x \in ToSet(r)
  <2>1. PICK h \in 1..n : x = q[h]
      BY <1>1 DEF ToSet
  <2>2. PICK i \in 1..(n - 1) : from(i) = h
      BY <1>5, <1>8, <2>1
  <2>3. x = r[i]
      BY <1>3, <2>1, <2>2
  <2> QED BY <1>2, <2>3 DEF ToSet
<1>9. ASSUME NEW x, NEW y, Before(r, x, y) PROVE Before(q, x, y)
  <2>1. PICK i, j \in 1..(n - 1) : i < j /\ r[i] = x /\ r[j] = y
      BY <1>2, <1>9 DEF Before
  <2>2. /\ from(i) \in DOMAIN q /\ from(j) \in DOMAIN q /\ from(i) < from(j)
        /\ q[from(i)] = x /\ q[from(j)] = y
      BY <1>1, <1>3, <1>4, <2>1
  <2> QED BY <2>2 DEF Before
<1>10. ASSUME NEW x \in ToSet(r), NEW y \in ToSet(r), Before(q, x, y) PROVE Before(r, x, y)
  <2>1. PICK g, h \in 1..n : g < h /\ q[g] = x /\ q[h] = y
      BY <1>1, <1>10 DEF Before
  <2>2. g # p /\ h # p
      BY <1>7, <2>1
  <2>3. PICK i \in 1..(n - 1) : from(i) = g
      BY <1>5, <2>2
  <2>4. PICK j \in 1..(n - 1) : from(j) = h
      BY <1>5, <2>2
  <2>5. i < j
      BY <1>4, <2>1, <2>3, <2>4
  <2>6. i \in DOMAIN r /\ j \in DOMAIN r /\ r[i] = x /\ r[j] = y
      BY <1>2, <1>3, <2>1, <2>3, <2>4
  <2> QED BY <2>5, <2>6 DEF Before
<1>11. ToSet(r) = ToSet(q) \ {q[p]}
    BY <1>7, <1>8
<1>12. \A x, y \in ToSet(r) : Before(r, x, y) <=> Before(q, x, y)
    BY <1>9, <1>10
<1> QED BY <1>2, <1>6, <1>11, <1>12 DEF r

(* Linking one in leaves the others in their order, keeps the list sorted,  *)
(* and puts it behind those that are due no later.                          *)
LEMMA Linked ==
    ASSUME NEW S, NEW q \in Seq(S), IsInjective(q), NEW lf \in [S -> Nat], Sorted(q, lf),
           NEW t \in S, t \notin ToSet(q)
    PROVE  /\ Inserted(q, lf, t) \in Seq(S)
           /\ IsInjective(Inserted(q, lf, t))
           /\ ToSet(Inserted(q, lf, t)) = ToSet(q) \cup {t}
           /\ \A x, y \in ToSet(q) : Before(q, x, y) => Before(Inserted(q, lf, t), x, y)
           /\ Sorted(Inserted(q, lf, t), lf)
           /\ \A x \in ToSet(q) : lf[x] <= lf[t] => Before(Inserted(q, lf, t), x, t)
<1> DEFINE later == {i \in DOMAIN q : lf[q[i]] > lf[t]}
           k == IF later = {} THEN Len(q) + 1 ELSE Min(later)
           r == InsertAt(q, k, t)
           n == Len(q)
           to(i) == IF i < k THEN i ELSE i + 1
<1>1. n \in Nat /\ DOMAIN q = 1..n /\ \A i \in 1..n : q[i] \in S /\ lf[q[i]] \in Nat
    OBVIOUS
<1>2. lf[t] \in Nat
    OBVIOUS
<1>3. /\ k \in 1..(n + 1)
      /\ \A i \in 1..n : i < k => lf[q[i]] <= lf[t]
      /\ k \in 1..n => lf[q[k]] > lf[t]
  <2>1. CASE later = {}
    <3>1. \A i \in 1..n : ~(lf[q[i]] > lf[t])
        BY <1>1, <2>1
    <3>2. \A i \in 1..n : lf[q[i]] <= lf[t]
        BY <1>1, <1>2, <3>1
    <3>3. k = n + 1 /\ n + 1 \in 1..(n + 1) /\ n + 1 \notin 1..n
        BY <1>1, <2>1
    <3> QED BY <3>2, <3>3
  <2>2. CASE later # {}
    <3> DEFINE m == Min(later)
    <3>1. later \in SUBSET Nat /\ later \subseteq 1..n
        BY <1>1
    <3>2. m \in later /\ \A i \in later : m <= i
        BY <2>2, <3>1, FirstOf
    <3> HIDE DEF m
    <3>3. m \in 1..n /\ lf[q[m]] > lf[t]
        BY <1>1, <3>2
    <3>4. ASSUME NEW i \in 1..n, i < m PROVE lf[q[i]] <= lf[t]
      <4>1. i \notin later
          BY <3>2, <3>3, <3>4
      <4>2. ~(lf[q[i]] > lf[t])
          BY <1>1, <4>1
      <4> QED BY <1>1, <1>2, <4>2
    <3>5. k = m
        BY <2>2 DEF m
    <3>6. m \in 1..(n + 1)
        BY <1>1, <3>3
    <3> QED BY <3>3, <3>4, <3>5, <3>6
  <2> QED BY <2>1, <2>2
<1> HIDE DEF k
<1>4. /\ r \in Seq(S) /\ DOMAIN r = 1..(n + 1)
      /\ \A i \in 1..(k - 1) : r[i] = q[i]
      /\ r[k] = t
      /\ \A i \in (k + 1)..(n + 1) : r[i] = q[i - 1]
    BY <1>3, InsertAtPosition
<1> HIDE DEF n, r, later
<1>5. ASSUME NEW i \in 1..n
      PROVE  to(i) \in 1..(n + 1) /\ to(i) # k /\ r[to(i)] = q[i]
  <2>1. CASE i < k
    <3>1. i \in 1..(k - 1) /\ i \in 1..(n + 1) /\ i # k
        BY <1>1, <1>3, <2>1
    <3> QED BY <1>4, <2>1, <3>1
  <2>2. CASE ~(i < k)
    <3>1. i + 1 \in (k + 1)..(n + 1) /\ i + 1 \in 1..(n + 1) /\ i + 1 # k /\ (i + 1) - 1 = i
        BY <1>1, <1>3, <2>2
    <3> QED BY <1>4, <2>2, <3>1
  <2> QED BY <2>1, <2>2
<1>6. \A i, j \in 1..n : (i < j <=> to(i) < to(j)) /\ (to(i) = to(j) => i = j)
    BY <1>1, <1>3
<1>7. ASSUME NEW h \in 1..(n + 1), h # k PROVE \E i \in 1..n : to(i) = h
  <2>1. CASE h < k
    <3>1. h \in 1..n /\ to(h) = h
        BY <1>1, <1>3, <2>1
    <3> QED BY <3>1
  <2>2. CASE ~(h < k)
    <3>1. h - 1 \in 1..n /\ to(h - 1) = h
        BY <1>1, <1>3, <1>7, <2>2
    <3> QED BY <3>1
  <2> QED BY <2>1, <2>2
<1>8. \A i \in 1..n : (to(i) < k <=> i < k) /\ (k < to(i) => k <= i)
    BY <1>1, <1>3
<1> HIDE DEF to
<1>9. ASSUME NEW x \in ToSet(q) PROVE x # t /\ \E h \in 1..n : x = q[h] /\ x = r[to(h)]
    BY <1>1, <1>5 DEF ToSet
<1>10. ToSet(r) = ToSet(q) \cup {t}
  <2>1. ASSUME NEW x \in ToSet(r), x # t PROVE x \in ToSet(q)
    <3>1. PICK h \in 1..(n + 1) : x = r[h]
        BY <1>4 DEF ToSet
    <3>2. PICK i \in 1..n : to(i) = h
        BY <1>4, <1>7, <2>1, <3>1
    <3> QED BY <1>1, <1>5, <3>1, <3>2 DEF ToSet
  <2>2. ASSUME NEW x \in ToSet(q) PROVE x \in ToSet(r)
    <3>1. PICK h \in 1..n : x = r[to(h)]
        BY <1>9
    <3>2. to(h) \in DOMAIN r
        BY <1>4, <1>5
    <3> QED BY <3>1, <3>2 DEF ToSet
  <2>3. t \in ToSet(r)
      BY <1>3, <1>4 DEF ToSet
  <2> QED BY <2>1, <2>2, <2>3
<1>11. IsInjective(r)
  <2> SUFFICES ASSUME NEW a \in 1..(n + 1), NEW b \in 1..(n + 1), r[a] = r[b]
               PROVE  a = b
      BY <1>4 DEF IsInjective
  <2>1. ASSUME NEW h \in 1..(n + 1), h # k PROVE r[h] # t
    <3>1. PICK i \in 1..n : to(i) = h
        BY <1>7, <2>1
    <3>2. r[h] = q[i] /\ q[i] \in ToSet(q)
        BY <1>1, <1>5, <3>1 DEF ToSet
    <3> QED BY <3>2
  <2>2. CASE a = k \/ b = k
      BY <1>4, <2>1, <2>2
  <2>3. CASE a # k /\ b # k
    <3>1. PICK i \in 1..n : to(i) = a
        BY <1>7, <2>3
    <3>2. PICK j \in 1..n : to(j) = b
        BY <1>7, <2>3
    <3>3. q[i] = q[j]
        BY <1>5, <3>1, <3>2
    <3>4. i = j
        BY <1>1, <3>3 DEF IsInjective
    <3> QED BY <3>1, <3>2, <3>4
  <2> QED BY <2>2, <2>3
<1>12. ASSUME NEW x \in ToSet(q), NEW y \in ToSet(q), Before(q, x, y) PROVE Before(r, x, y)
  <2>1. PICK i, j \in 1..n : i < j /\ q[i] = x /\ q[j] = y
      BY <1>1, <1>12 DEF Before
  <2>2. /\ to(i) \in DOMAIN r /\ to(j) \in DOMAIN r /\ to(i) < to(j)
        /\ r[to(i)] = x /\ r[to(j)] = y
      BY <1>4, <1>5, <1>6, <2>1
  <2> QED BY <2>2 DEF Before
<1>13. ASSUME NEW x \in ToSet(q), lf[x] <= lf[t] PROVE Before(r, x, t)
  <2>1. PICK h \in 1..n : x = q[h] /\ x = r[to(h)]
      BY <1>9
  <2>2. h < k
    <3> SUFFICES ASSUME ~(h < k) PROVE FALSE
        OBVIOUS
    <3>1. k \in 1..n
        BY <1>1, <1>3
    <3>2. q[k] \in ToSet(q) /\ lf[q[k]] > lf[t] /\ lf[q[k]] \in Nat /\ lf[x] \in Nat
        BY <1>1, <1>3, <2>1, <3>1 DEF ToSet
    <3>3. CASE h = k
      <4>1. x = q[k]
          BY <2>1, <3>3
      <4> QED BY <1>2, <1>13, <3>2, <4>1
    <3>4. CASE h # k
      <4>1. k < h
          BY <1>1, <3>1, <3>4
      <4>2. Before(q, q[k], x)
          BY <1>1, <2>1, <3>1, <4>1 DEF Before
      <4>3. lf[q[k]] <= lf[x]
          BY <3>2, <4>2 DEF Sorted
      <4> QED BY <1>2, <1>13, <3>2, <4>3
    <3> QED BY <3>3, <3>4
  <2>3. to(h) < k /\ to(h) \in DOMAIN r /\ k \in DOMAIN r
      BY <1>3, <1>4, <1>5, <1>8, <2>2
  <2> QED BY <1>4, <2>1, <2>3 DEF Before
<1>14. ASSUME NEW x \in ToSet(r), NEW y \in ToSet(r), Before(r, x, y) PROVE lf[x] <= lf[y]
  <2>1. PICK a, b \in 1..(n + 1) : a < b /\ r[a] = x /\ r[b] = y
      BY <1>4, <1>14 DEF Before
  <2>2. CASE a = k
    <3>1. b # k
        BY <2>1, <2>2
    <3>2. PICK j \in 1..n : to(j) = b
        BY <1>7, <3>1
    <3>3. k <= j /\ y = q[j] /\ x = t
        BY <1>4, <1>5, <1>8, <2>1, <2>2, <3>2
    <3>4. k \in 1..n
        BY <1>1, <1>3, <3>3
    <3>5. lf[q[k]] > lf[t] /\ lf[q[k]] \in Nat /\ lf[q[j]] \in Nat /\ q[k] \in ToSet(q) /\ q[j] \in ToSet(q)
        BY <1>1, <1>3, <3>4 DEF ToSet
    <3>6. lf[q[k]] <= lf[q[j]]
      <4>1. CASE k = j
          BY <3>5, <4>1
      <4>2. CASE k # j
        <5>1. k < j
            BY <3>3, <3>4, <4>2
        <5>2. Before(q, q[k], q[j])
            BY <1>1, <3>4, <5>1 DEF Before
        <5> QED BY <3>5, <5>2 DEF Sorted
      <4> QED BY <4>1, <4>2
    <3> QED BY <1>2, <3>3, <3>5, <3>6
  <2>3. CASE a # k
    <3>1. PICK i \in 1..n : to(i) = a
        BY <1>7, <2>3
    <3>2. x = q[i] /\ q[i] \in ToSet(q)
        BY <1>1, <1>5, <2>1, <3>1 DEF ToSet
    <3>3. CASE b = k
      <4>1. i < k
          BY <1>8, <2>1, <3>1, <3>3
      <4> QED BY <1>3, <1>4, <2>1, <3>2, <3>3, <4>1
    <3>4. CASE b # k
      <4>1. PICK j \in 1..n : to(j) = b
          BY <1>7, <3>4
      <4>2. y = q[j] /\ q[j] \in ToSet(q) /\ i < j
          BY <1>1, <1>5, <1>6, <2>1, <3>1, <4>1 DEF ToSet
      <4>3. Before(q, x, y)
          BY <1>1, <3>2, <4>2 DEF Before
      <4> QED BY <3>2, <4>2, <4>3 DEF Sorted
    <3> QED BY <3>3, <3>4
  <2> QED BY <2>2, <2>3
<1>15. Sorted(r, lf)
    BY <1>14 DEF Sorted
<1>16. Inserted(q, lf, t) = r
    BY DEF Inserted, k, r, later
<1> QED BY <1>4, <1>10, <1>11, <1>12, <1>13, <1>15, <1>16

(* Keeping the records that are not in D, in the order they had: `at` is    *)
(* where each of the n that stay was.                                       *)
ReapedBy(q, D, n, at, r) ==
    /\ n \in Nat /\ at \in [1..n -> {i \in DOMAIN q : q[i] \notin D}]
    /\ \A i \in DOMAIN q : q[i] \notin D => \E k \in 1..n : at[k] = i
    /\ \A k, l \in 1..n : k < l => at[k] < at[l]
    /\ r = [k \in 1..n |-> q[at[k]]]

LEMMA Reaped ==
    ASSUME NEW S, NEW q \in Seq(S), IsInjective(q), NEW D, NEW n, NEW at, NEW r,
           ReapedBy(q, D, n, at, r)
    PROVE  /\ r \in Seq(S) /\ IsInjective(r)
           /\ ToSet(r) = ToSet(q) \ D
           /\ \A x, y \in ToSet(r) : Before(r, x, y) <=> Before(q, x, y)
<1> USE DEF ReapedBy
<1>1. DOMAIN q = 1..Len(q) /\ Len(q) \in Nat /\ \A i \in DOMAIN q : q[i] \in S
    OBVIOUS
<1>2. \A k \in 1..n : at[k] \in DOMAIN q /\ q[at[k]] \notin D /\ r[k] = q[at[k]] /\ at[k] \in Nat
    BY <1>1
<1>3. DOMAIN r = 1..n
    OBVIOUS
<1>4. r \in Seq(S)
  <2>1. r \in [1..n -> S]
      BY <1>1, <1>2
  <2> QED BY <2>1
<1>5. \A k, l \in 1..n : (k < l <=> at[k] < at[l]) /\ (at[k] = at[l] => k = l)
    BY <1>2
<1>6. IsInjective(r)
    BY <1>2, <1>3, <1>5 DEF IsInjective
<1>7. ToSet(r) = ToSet(q) \ D
  <2>1. \A x \in ToSet(r) : x \in ToSet(q) /\ x \notin D
      BY <1>2, <1>3 DEF ToSet
  <2>2. ASSUME NEW x \in ToSet(q), x \notin D PROVE x \in ToSet(r)
    <3>1. PICK i \in DOMAIN q : x = q[i]
        BY DEF ToSet
    <3>2. PICK k \in 1..n : at[k] = i
        BY <2>2, <3>1
    <3>3. x = r[k]
        BY <1>2, <3>1, <3>2
    <3> QED BY <1>3, <3>3 DEF ToSet
  <2> QED BY <2>1, <2>2
<1>8. ASSUME NEW x, NEW y, Before(r, x, y) PROVE Before(q, x, y)
    BY <1>2, <1>3, <1>8 DEF Before
<1>9. ASSUME NEW x \in ToSet(r), NEW y \in ToSet(r), Before(q, x, y) PROVE Before(r, x, y)
  <2>1. PICK g, h \in DOMAIN q : g < h /\ q[g] = x /\ q[h] = y
      BY <1>9 DEF Before
  <2>2. x \notin D /\ y \notin D
      BY <1>7
  <2>3. PICK k \in 1..n : at[k] = g
      BY <2>1, <2>2
  <2>4. PICK l \in 1..n : at[l] = h
      BY <2>1, <2>2
  <2>5. k < l /\ r[k] = x /\ r[l] = y
      BY <1>2, <1>5, <2>1, <2>3, <2>4
  <2> QED BY <1>3, <2>5 DEF Before
<1> QED BY <1>4, <1>6, <1>7, <1>8, <1>9

-----------------------------------------------------------------------------
(* What the loop keeps.                                                     *)
Known == 1..(nextId - 1)
OneShot(t) == t \notin repeating

(* The runtime's own structures, whichever loop is behind them.             *)
RuntimeOK ==
    /\ nextId \in Nat \ {0}
    /\ active \subseteq Known /\ repeating \subseteq Known /\ stopped \subseteq Known
    /\ released \subseteq Known /\ refreed = {}
    /\ running \in Known \cup {None}
    /\ stopped \cap active = {}
    /\ running # None => running \in active \/ running \in stopped
    /\ released = {t \in Known : t \notin active /\ running # t}

ListOK ==
    /\ nextId <= MaxTimers + 1
    /\ delay \in [Timer -> 0..MaxDelay] /\ left \in [Timer -> 0..MaxDelay]
    /\ queue \in Seq(Timer) /\ IsInjective(queue)
    /\ ToSet(queue) \subseteq Known /\ dead \subseteq Known /\ allocated \subseteq Known
    /\ fired \subseteq Known \ repeating
    /\ phase \in {"script", "walking", "exited"}

(* The handles that may fire are those of the timers the program has, but   *)
(* for the one-shot whose callback runs.                                    *)
HandlesOK ==
    /\ Live = active \ (IF OneShot(running) THEN {running} ELSE {})
    /\ dead \cap active = {} /\ active \subseteq allocated
    /\ phase # "walking" => running = None /\ dead \cap ToSet(queue) = {}
    /\ phase = "exited" => active = {}

(* The list is sorted, and one-shots set with no longer a delay come first. *)
OrderOK ==
    /\ \A t \in Timer : left[t] <= delay[t]
    /\ Sorted(queue, left)
    /\ \A s, t \in Live :
           OneShot(s) /\ OneShot(t) /\ s < t /\ delay[s] <= delay[t] => Before(queue, s, t)
    /\ SetOrderKept

LInv == RuntimeOK /\ ListOK /\ HandlesOK /\ OrderOK

-----------------------------------------------------------------------------
(* The runtime's structures, call by call.                                  *)
LEMMA NewStructOK == ASSUME RuntimeOK, NEW rep \in BOOLEAN, Runtime!NewStruct(rep) PROVE RuntimeOK'
<1>1. /\ nextId \in Nat \ {0} /\ nextId' = nextId + 1 /\ active' = active \cup {nextId}
      /\ repeating' \subseteq repeating \cup {nextId}
      /\ UNCHANGED <<running, stopped, released, refreed>>
    BY DEF RuntimeOK, Runtime!NewStruct
<1>2. Known' = Known \cup {nextId} /\ nextId \notin Known /\ nextId # None
    BY <1>1 DEF Known, None
<1>3. released' = {t \in Known' : t \notin active' /\ running' # t}
    BY <1>1, <1>2 DEF RuntimeOK, None
<1> QED BY <1>1, <1>2, <1>3 DEF RuntimeOK

LEMMA ClearStructOK == ASSUME RuntimeOK, NEW t, Runtime!ClearStruct(t) PROVE RuntimeOK'
<1>1. t \in active /\ t \in Known /\ Known' = Known /\ active' = active \ {t}
    BY DEF RuntimeOK, Runtime!ClearStruct, Known
<1>2. CASE running = t
    BY <1>1, <1>2 DEF RuntimeOK, Runtime!ClearStruct, Runtime!ReleasesNone
<1>3. CASE running # t
  <2>1. released' = released \cup {t} /\ refreed' = refreed \cup (released \cap {t})
        /\ UNCHANGED <<stopped, nextId, repeating, running>>
      BY <1>3 DEF Runtime!ClearStruct, Runtime!Releases
  <2>2. refreed' = {}
      BY <1>1, <2>1 DEF RuntimeOK
  <2> QED BY <1>1, <1>3, <2>1, <2>2 DEF RuntimeOK
<1> QED BY <1>2, <1>3

LEMMA EnterCallbackOK ==
    ASSUME RuntimeOK, NEW t \in active, Runtime!EnterCallback(t) PROVE RuntimeOK'
<1>1. /\ running = None /\ running' = t
      /\ UNCHANGED <<nextId, active, repeating, stopped, released, refreed>> /\ Known' = Known
    BY DEF Runtime!EnterCallback, Known, None, Runtime!None
<1>2. None \notin Known /\ t \in Known /\ t # None
    BY DEF RuntimeOK, Known, None
<1> QED BY <1>1, <1>2 DEF RuntimeOK

(* What the end of a callback leaves.                                       *)
LEMMA LeaveCallbackOK ==
    ASSUME RuntimeOK, Runtime!LeaveCallback
    PROVE  /\ RuntimeOK'
           /\ active' = IF OneShot(running) THEN active \ {running} ELSE active
<1>1. /\ running # None /\ running \in Known /\ running' = None /\ None \notin Known
      /\ UNCHANGED <<nextId, repeating, stopped>> /\ Known' = Known
    BY DEF RuntimeOK, Runtime!LeaveCallback, None, Runtime!None, Known
<1>2. CASE Runtime!EndsWith(running)
  <2>1. /\ active' = active \ {running}
        /\ released' = released \cup {running}
        /\ refreed' = refreed \cup (released \cap {running})
      BY <1>2 DEF Runtime!LeaveCallback, Runtime!Releases
  <2>2. refreed' = {} /\ released' = {t \in Known : t \notin active' /\ None # t}
      BY <1>1, <2>1 DEF RuntimeOK
  <2>3. RuntimeOK'
      BY <1>1, <2>1, <2>2 DEF RuntimeOK
  <2>4. ~OneShot(running) => running \notin active
      BY <1>2 DEF RuntimeOK, OneShot, Runtime!EndsWith
  <2> QED BY <2>1, <2>3, <2>4
<1>3. CASE ~Runtime!EndsWith(running)
  <2>1. /\ UNCHANGED <<active, released, refreed>> /\ ~OneShot(running) /\ running \notin stopped
      BY <1>3 DEF Runtime!LeaveCallback, Runtime!ReleasesNone, Runtime!EndsWith, OneShot
  <2>2. running \in active
      BY <1>1, <2>1 DEF RuntimeOK
  <2>3. RuntimeOK'
      BY <1>1, <2>1, <2>2 DEF RuntimeOK
  <2> QED BY <2>1, <2>3
<1> QED BY <1>2, <1>3

-----------------------------------------------------------------------------
(* What the calls on the list do to it.                                     *)
LEMMA UnlinkedKeeps ==
    ASSUME queue \in Seq(Timer), IsInjective(queue), NEW t
    PROVE  /\ Unlinked(t) \in Seq(Timer) /\ IsInjective(Unlinked(t))
           /\ ToSet(Unlinked(t)) = ToSet(queue) \ {t}
           /\ \A x, y \in ToSet(Unlinked(t)) : Before(Unlinked(t), x, y) <=> Before(queue, x, y)
<1> DEFINE at == {i \in DOMAIN queue : queue[i] = t}
<1>1. DOMAIN queue = 1..Len(queue)
    OBVIOUS
<1>2. CASE at = {}
  <2>1. Unlinked(t) = queue
      BY <1>2 DEF Unlinked
  <2>2. t \notin ToSet(queue)
      BY <1>2 DEF ToSet
  <2> QED BY <2>1, <2>2
<1>3. CASE at # {}
  <2>1. PICK p \in at : Unlinked(t) = RemoveAt(queue, p)
      BY <1>3 DEF Unlinked
  <2>2. p \in 1..Len(queue) /\ queue[p] = t
      BY <1>1, <2>1
  <2> QED BY <2>1, <2>2, Removed
<1> QED BY <1>2, <1>3

(* A list that has lost records is still sorted.                            *)
LEMMA SortedStays ==
    ASSUME NEW q, NEW r, NEW lf, Sorted(q, lf), ToSet(r) \subseteq ToSet(q),
           \A x, y \in ToSet(r) : Before(r, x, y) => Before(q, x, y)
    PROVE  Sorted(r, lf)
    BY DEF Sorted

LEMMA TimersAreNumbers == LInv => /\ Timer \subseteq Nat \ {0} /\ nextId \in Nat \ {0}
                                  /\ Known \subseteq Timer /\ nextId \notin Known
                                  /\ None \notin Known /\ nextId # None
  BY BoundsAssumption DEF LInv, RuntimeOK, ListOK, Known, Timer, None

-----------------------------------------------------------------------------
LEMMA InitLInv == Init => LInv
<1> SUFFICES ASSUME Init PROVE LInv
    OBVIOUS
<1>1. /\ nextId = 1 /\ active = {} /\ repeating = {} /\ stopped = {}
      /\ running = None /\ released = {} /\ refreed = {}
      /\ delay = [t \in Timer |-> 0] /\ queue = <<>> /\ left = [t \in Timer |-> 0]
      /\ dead = {} /\ allocated = {} /\ phase = "script" /\ fired = {}
    BY DEF Init, Runtime!RuntimeInit, None, Runtime!None
<1>2. Known = {}
    BY <1>1 DEF Known
<1>3. RuntimeOK
    BY <1>1, <1>2 DEF RuntimeOK, None
<1>4. ToSet(queue) = {} /\ IsInjective(queue) /\ queue \in Seq(Timer)
    BY <1>1 DEF ToSet, IsInjective
<1>5. ListOK
  <2>1. 0 \in 0..MaxDelay /\ nextId <= MaxTimers + 1
      BY <1>1, BoundsAssumption
  <2> QED BY <1>1, <1>2, <1>4, <2>1 DEF ListOK
<1>6. HandlesOK
    BY <1>1, <1>4 DEF HandlesOK, Live, OneShot, None
<1>7. OrderOK
    BY <1>1, <1>4 DEF OrderOK, Live, Sorted, SetOrderKept
<1> QED BY <1>3, <1>5, <1>6, <1>7 DEF LInv

(* setTimeout and setInterval: the new record goes behind those that are    *)
(* due no later.                                                            *)
LEMMA SetTimerLInv ==
    ASSUME LInv, NEW rep \in BOOLEAN, NEW d \in 1..MaxDelay, SetTimer(rep, d)
    PROVE  LInv' /\ Live' = Live \cup {nextId}
<1> USE DEF LInv
<1>1. /\ Timer \subseteq Nat \ {0} /\ nextId \in Nat \ {0}
      /\ Known \subseteq Timer /\ nextId \notin Known /\ None \notin Known /\ nextId # None
    BY TimersAreNumbers
<1>2. /\ nextId \in Timer /\ nextId' = nextId + 1 /\ active' = active \cup {nextId}
      /\ Known' = Known \cup {nextId}
      /\ repeating' = (IF rep THEN repeating \cup {nextId} ELSE repeating)
      /\ UNCHANGED <<running, dead, phase, fired>>
      /\ delay' = [delay EXCEPT ![nextId] = d] /\ left' = [left EXCEPT ![nextId] = d]
      /\ queue' = Inserted(queue, left', nextId)
      /\ allocated' = allocated \cup {nextId}
    BY <1>1 DEF SetTimer, Runtime!NewStruct, Timer, Known
<1>3. RuntimeOK'
    BY NewStructOK DEF SetTimer
<1>4. d \in 0..MaxDelay /\ d \in Nat
    BY BoundsAssumption
<1>5. /\ delay' \in [Timer -> 0..MaxDelay] /\ left' \in [Timer -> 0..MaxDelay]
      /\ delay'[nextId] = d /\ left'[nextId] = d
      /\ \A t \in Known : delay'[t] = delay[t] /\ left'[t] = left[t]
    BY <1>1, <1>2, <1>4 DEF ListOK
<1>6. left' \in [Timer -> Nat]
    BY <1>5, BoundsAssumption
<1>7. queue \in Seq(Timer) /\ IsInjective(queue) /\ ToSet(queue) \subseteq Known /\ nextId \notin ToSet(queue)
    BY <1>1 DEF ListOK
<1>8. Sorted(queue, left')
    BY <1>5, <1>7 DEF OrderOK, Sorted
<1>9. /\ queue' \in Seq(Timer) /\ IsInjective(queue')
      /\ ToSet(queue') = ToSet(queue) \cup {nextId}
      /\ \A x, y \in ToSet(queue) : Before(queue, x, y) => Before(queue', x, y)
      /\ Sorted(queue', left')
      /\ \A x \in ToSet(queue) : left'[x] <= left'[nextId] => Before(queue', x, nextId)
  <2>1. PICK q \in Seq(Timer) : q = queue
      BY <1>7
  <2>2. PICK lf \in [Timer -> Nat] : lf = left'
      BY <1>6
  <2>3. PICK t \in Timer : t = nextId
      BY <1>2
  <2>4. IsInjective(q) /\ Sorted(q, lf) /\ t \notin ToSet(q)
      BY <1>7, <1>8, <2>1, <2>2, <2>3
  <2> DEFINE r == Inserted(q, lf, t)
  <2>5. /\ r \in Seq(Timer) /\ IsInjective(r) /\ ToSet(r) = ToSet(q) \cup {t}
        /\ \A x, y \in ToSet(q) : Before(q, x, y) => Before(r, x, y)
        /\ Sorted(r, lf)
        /\ \A x \in ToSet(q) : lf[x] <= lf[t] => Before(r, x, t)
      BY <2>4, Linked
  <2>6. queue' = r
      BY <1>2, <2>1, <2>2, <2>3
  <2> HIDE DEF r
  <2> QED BY <2>1, <2>2, <2>3, <2>5, <2>6
<1>10. ListOK'
  <2>1. nextId' <= MaxTimers + 1
      BY <1>1, <1>2, BoundsAssumption DEF Timer
  <2>2. fired' \subseteq Known' \ repeating'
      BY <1>1, <1>2 DEF ListOK
  <2> QED BY <1>2, <1>5, <1>7, <1>9, <2>1, <2>2 DEF ListOK
<1>11. Live' = Live \cup {nextId}
    BY <1>1, <1>2, <1>9 DEF Live, ListOK
<1>12. HandlesOK'
  <2>1. running # nextId /\ (OneShot(running)' <=> OneShot(running))
      BY <1>1, <1>2 DEF RuntimeOK, OneShot
  <2>2. Live' = active' \ (IF OneShot(running)' THEN {running'} ELSE {})
      BY <1>2, <1>11, <2>1 DEF HandlesOK
  <2>3. dead' \cap active' = {} /\ active' \subseteq allocated'
      BY <1>1, <1>2 DEF HandlesOK, ListOK
  <2>4. phase' # "walking" => running' = None /\ dead' \cap ToSet(queue') = {}
      BY <1>1, <1>2, <1>9 DEF HandlesOK, ListOK
  <2>5. phase' # "exited"
      BY <1>2 DEF SetTimer, ScriptRuns, HandlesOK
  <2> QED BY <2>2, <2>3, <2>4, <2>5 DEF HandlesOK
<1>13. Live \subseteq Known /\ Live \subseteq ToSet(queue)
    BY <1>7 DEF Live
<1>14. OrderOK'
  <2>1. \A t \in Timer : left'[t] <= delay'[t]
    <3> SUFFICES ASSUME NEW t \in Timer PROVE left'[t] <= delay'[t]
        OBVIOUS
    <3>1. left[t] <= delay[t]
        BY DEF OrderOK
    <3>2. CASE t = nextId
        BY <1>4, <1>5, <3>2
    <3>3. CASE t # nextId
        BY <1>2, <3>1, <3>3 DEF ListOK
    <3> QED BY <3>2, <3>3
  <2>2. ASSUME NEW s \in Live', NEW t \in Live', OneShot(s)', OneShot(t)', s < t, delay'[s] <= delay'[t]
        PROVE  Before(queue', s, t)
    <3>1. s # nextId
        BY <1>1, <1>11, <1>13, <2>2 DEF Known
    <3>2. s \in Live /\ s \in Known /\ s \in ToSet(queue)
        BY <1>11, <1>13, <3>1
    <3>3. CASE t = nextId
      <4>1. left'[s] <= delay'[s] /\ left'[s] \in Nat /\ delay'[s] \in Nat /\ delay'[s] <= d
          BY <1>1, <1>5, <1>6, <2>1, <2>2, <3>2, <3>3, BoundsAssumption
      <4>2. left'[s] <= left'[nextId]
          BY <1>4, <1>5, <4>1
      <4> QED BY <1>9, <3>2, <3>3, <4>2
    <3>4. CASE t # nextId
      <4>1. t \in Live /\ t \in Known /\ t \in ToSet(queue)
          BY <1>11, <1>13, <3>4
      <4>2. OneShot(s) /\ OneShot(t) /\ delay[s] <= delay[t]
          BY <1>2, <1>5, <2>2, <3>2, <4>1 DEF OneShot
      <4>3. Before(queue, s, t)
          BY <2>2, <3>2, <4>1, <4>2 DEF OrderOK
      <4> QED BY <1>9, <3>2, <4>1, <4>3
    <3> QED BY <3>3, <3>4
  <2>3. SetOrderKept'
    <3> SUFFICES ASSUME NEW s \in Timer \ repeating', NEW t \in Timer \ repeating',
                        s < t, delay'[s] <= delay'[t], t \in fired'
                 PROVE  s \in fired' \/ s \notin active'
        BY DEF SetOrderKept
    <3>1. t \in Known /\ t \notin repeating /\ t \in fired
        BY <1>2 DEF ListOK
    <3>2. s \in Known
        BY <1>1, <3>1 DEF Known
    <3>3. s \notin repeating /\ delay[s] <= delay[t] /\ s # nextId
        BY <1>1, <1>2, <1>5, <3>1, <3>2
    <3>4. s \in fired \/ s \notin active
        BY <1>1, <3>1, <3>2, <3>3 DEF OrderOK, SetOrderKept
    <3> QED BY <1>2, <3>3, <3>4
  <2> QED BY <1>9, <2>1, <2>2, <2>3 DEF OrderOK
<1> QED BY <1>3, <1>10, <1>11, <1>12, <1>14

(* A list that only loses records keeps its order, and so do the timers.    *)
LEMMA ListOrderStays ==
    ASSUME LInv, UNCHANGED <<delay, left, repeating>>, Live' \subseteq Live,
           ToSet(queue') \subseteq ToSet(queue),
           \A x, y \in ToSet(queue') : Before(queue', x, y) <=> Before(queue, x, y)
    PROVE  /\ \A t \in Timer : left'[t] <= delay'[t]
           /\ Sorted(queue', left')
           /\ \A s, t \in Live' :
                  OneShot(s)' /\ OneShot(t)' /\ s < t /\ delay'[s] <= delay'[t] => Before(queue', s, t)
<1>1. \A t \in Timer : left'[t] <= delay'[t]
    BY DEF LInv, OrderOK
<1>2. Sorted(queue', left')
    BY DEF LInv, OrderOK, Sorted
<1>3. ASSUME NEW s \in Live', NEW t \in Live', OneShot(s)', OneShot(t)', s < t, delay'[s] <= delay'[t]
      PROVE  Before(queue', s, t)
  <2>1. OneShot(s) /\ OneShot(t) /\ delay[s] <= delay[t] /\ s \in Live /\ t \in Live
      BY <1>3 DEF OneShot
  <2>2. Before(queue, s, t)
      BY <1>3, <2>1 DEF LInv, OrderOK
  <2>3. s \in ToSet(queue') /\ t \in ToSet(queue')
      BY <1>3 DEF Live
  <2> QED BY <2>2, <2>3
<1> QED BY <1>1, <1>2, <1>3

LEMMA SetOrderStays ==
    ASSUME LInv, UNCHANGED <<delay, repeating, fired>>, active' \subseteq active
    PROVE  SetOrderKept'
    BY DEF LInv, OrderOK, SetOrderKept

(* The backend's stop: at once, or when the walk is over.                   *)
LEMMA BackendStopKeeps ==
    ASSUME LInv, NEW t \in Known, BackendStop(t)
    PROVE  /\ queue' \in Seq(Timer) /\ IsInjective(queue')
           /\ ToSet(queue') \subseteq ToSet(queue)
           /\ \A x, y \in ToSet(queue') : Before(queue', x, y) <=> Before(queue, x, y)
           /\ phase # "walking" => t \notin ToSet(queue')
           /\ Live' = Live \ {t}
           /\ dead' = dead \cup {t}
           /\ allocated' \subseteq allocated /\ allocated \ {t} \subseteq allocated'
<1>1. queue \in Seq(Timer) /\ IsInjective(queue)
    BY DEF LInv, ListOK
<1>2. CASE phase = "walking"
  <2>1. UNCHANGED <<queue, allocated>> /\ dead' = dead \cup {t}
      BY <1>2 DEF BackendStop
  <2> QED BY <1>1, <1>2, <2>1 DEF Live
<1>3. CASE phase # "walking"
  <2>1. queue' = Unlinked(t) /\ allocated' = allocated \ {t} /\ dead' = dead \cup {t}
      BY <1>3 DEF BackendStop
  <2>2. /\ queue' \in Seq(Timer) /\ IsInjective(queue') /\ ToSet(queue') = ToSet(queue) \ {t}
        /\ \A x, y \in ToSet(queue') : Before(queue', x, y) <=> Before(queue, x, y)
      BY <1>1, <2>1, UnlinkedKeeps
  <2> QED BY <2>1, <2>2 DEF Live
<1> QED BY <1>2, <1>3

(* clearTimeout and clearInterval.                                          *)
LEMMA ClearTimerLInv ==
    ASSUME LInv, NEW t \in Timer, ClearTimer(t)
    PROVE  LInv' /\ Live' = Live \ {t}
<1> USE DEF LInv
<1>1. /\ t \in active /\ t \in Known /\ active' = active \ {t}
      /\ UNCHANGED <<nextId, repeating, running, delay, left, phase, fired>>
      /\ BackendStop(t) /\ Known' = Known
    BY DEF ClearTimer, Runtime!ClearStruct, RuntimeOK, Known
<1>2. RuntimeOK'
    BY ClearStructOK DEF ClearTimer
<1>3. /\ queue' \in Seq(Timer) /\ IsInjective(queue')
      /\ ToSet(queue') \subseteq ToSet(queue)
      /\ \A x, y \in ToSet(queue') : Before(queue', x, y) <=> Before(queue, x, y)
      /\ phase # "walking" => t \notin ToSet(queue')
      /\ Live' = Live \ {t}
      /\ dead' = dead \cup {t}
      /\ allocated' \subseteq allocated /\ allocated \ {t} \subseteq allocated'
    BY <1>1, BackendStopKeeps
<1>4. ListOK'
    BY <1>1, <1>3 DEF ListOK
<1>5. HandlesOK'
    BY <1>1, <1>3 DEF HandlesOK, OneShot
<1>6. OrderOK'
    BY <1>1, <1>3, ListOrderStays, SetOrderStays DEF OrderOK
<1> QED BY <1>2, <1>3, <1>4, <1>5, <1>6

LEMMA PollBeginLInv == ASSUME LInv, PollBegin PROVE LInv' /\ Live' = Live
<1>1. /\ phase = "script" /\ phase' = "walking"
      /\ UNCHANGED <<nextId, active, repeating, running, stopped, released, refreed>>
      /\ UNCHANGED <<delay, queue, left, dead, allocated, fired>>
    BY DEF PollBegin, runtimeVars
<1>2. Live' = Live
    BY <1>1 DEF Live
<1>3. RuntimeOK' /\ ListOK'
    BY <1>1 DEF LInv, RuntimeOK, ListOK, Known
<1>4. HandlesOK'
    BY <1>1, <1>2 DEF LInv, HandlesOK, OneShot
<1>5. OrderOK'
    BY <1>1, <1>2 DEF LInv, OrderOK, SetOrderKept, OneShot
<1> QED BY <1>2, <1>3, <1>4, <1>5 DEF LInv

(* The callback returns; a one-shot stops itself.                           *)
LEMMA ReturnLInv ==
    ASSUME LInv, Return
    PROVE  LInv' /\ Live' = Live \cap active'
<1> USE DEF LInv
<1>1. /\ running # None /\ running \in Known /\ running' = None /\ phase = "walking"
      /\ UNCHANGED <<nextId, repeating, stopped, delay, left, phase, fired>> /\ Known' = Known
    BY DEF RuntimeOK, Return, Runtime!LeaveCallback, None, Runtime!None, Known
<1>2. /\ RuntimeOK'
      /\ active' = IF OneShot(running) THEN active \ {running} ELSE active
    BY LeaveCallbackOK DEF Return
<1>3. active' \subseteq active
    BY <1>2
<1>4. OneShot(None)'
    BY <1>1 DEF RuntimeOK, OneShot, None, Known
<1>5. CASE running \in active /\ OneShot(running)
  <2>1. BackendStop(running)
      BY <1>5 DEF Return, OneShot
  <2>2. /\ queue' \in Seq(Timer) /\ IsInjective(queue')
        /\ ToSet(queue') \subseteq ToSet(queue)
        /\ \A x, y \in ToSet(queue') : Before(queue', x, y) <=> Before(queue, x, y)
        /\ Live' = Live \ {running}
        /\ dead' = dead \cup {running}
        /\ allocated' \subseteq allocated /\ allocated \ {running} \subseteq allocated'
      BY <1>1, <2>1, BackendStopKeeps
  <2>3. ListOK'
      BY <1>1, <2>2 DEF ListOK
  <2>4. active' = active \ {running} /\ Live = active \ {running}
      BY <1>2, <1>5 DEF HandlesOK
  <2>5. None \notin active'
      BY <1>1, <1>2 DEF RuntimeOK, Known, None
  <2>6. HandlesOK'
      BY <1>1, <2>2, <2>4, <2>5 DEF HandlesOK
  <2>7. OrderOK'
      BY <1>1, <1>3, <2>2, ListOrderStays, SetOrderStays DEF OrderOK
  <2> QED BY <1>2, <2>2, <2>3, <2>4, <2>6, <2>7
<1>6. CASE ~(running \in active /\ OneShot(running))
  <2>1. UNCHANGED <<dead, queue, allocated>>
      BY <1>6 DEF Return, OneShot
  <2>2. active' = active /\ Live = active /\ Live' = Live
      BY <1>2, <1>6, <2>1 DEF HandlesOK, Live
  <2>3. ListOK'
      BY <1>1, <2>1 DEF ListOK
  <2>4. None \notin active
      BY DEF RuntimeOK, Known, None
  <2>5. HandlesOK'
      BY <1>1, <2>1, <2>2, <2>4 DEF HandlesOK
  <2>6. OrderOK'
      BY <1>1, <1>3, <2>1, <2>2, ListOrderStays, SetOrderStays DEF OrderOK
  <2> QED BY <1>2, <2>2, <2>3, <2>5, <2>6
<1> QED BY <1>5, <1>6

(* One turn of the walk.  What is ahead of the record it takes is dead, so  *)
(* no live one-shot set before a one-shot with no longer a delay is passed. *)
LEMMA FireNextLInv ==
    ASSUME LInv, NEW t \in Due, phase = "walking", Runtime!EnterCallback(t),
           UNCHANGED <<delay, dead, allocated, phase>>,
           IF t \in repeating
           THEN Relinked(t) /\ UNCHANGED fired
           ELSE queue' = Unlinked(t) /\ fired' = fired \cup {t} /\ UNCHANGED left
    PROVE  /\ LInv' /\ t \in Live
           /\ Live' = IF t \in repeating THEN Live ELSE Live \ {t}
<1> USE DEF LInv
<1>1. /\ running = None /\ running' = t
      /\ UNCHANGED <<nextId, active, repeating, stopped, released, refreed>> /\ Known' = Known
    BY DEF Runtime!EnterCallback, Known, None, Runtime!None
<1>2. PICK h \in DOMAIN queue :
          queue[h] = t /\ t \notin dead /\ \A j \in 1..(h - 1) : queue[j] \in dead
    BY DEF Due, Heads
<1>3. queue \in Seq(Timer) /\ IsInjective(queue) /\ DOMAIN queue = 1..Len(queue) /\ h \in Nat
    BY DEF ListOK
<1>4. t \in ToSet(queue) /\ t \in Live /\ t \in Known /\ t \in Timer
    BY <1>2, <1>3 DEF ToSet, Live, ListOK
<1>5. None \notin Known /\ t # None /\ OneShot(None) /\ None \notin active
    BY <1>4 DEF RuntimeOK, Known, None, OneShot
<1>6. Live = active
    BY <1>1, <1>5 DEF HandlesOK
<1>7. RuntimeOK'
    BY <1>4, <1>6, EnterCallbackOK
<1>8. /\ Unlinked(t) \in Seq(Timer) /\ IsInjective(Unlinked(t))
      /\ ToSet(Unlinked(t)) = ToSet(queue) \ {t}
      /\ \A x, y \in ToSet(Unlinked(t)) : Before(Unlinked(t), x, y) <=> Before(queue, x, y)
    BY <1>3, UnlinkedKeeps
<1>9. CASE t \in repeating
  <2>1. /\ left' = [left EXCEPT ![t] = delay[t]] /\ queue' = Inserted(Unlinked(t), left', t)
        /\ UNCHANGED fired
      BY <1>9 DEF Relinked
  <2>2. /\ left' \in [Timer -> 0..MaxDelay] /\ \A x \in Timer : x # t => left'[x] = left[x]
        /\ left'[t] = delay[t]
      BY <1>4, <2>1 DEF ListOK
  <2>3. left' \in [Timer -> Nat]
      BY <2>2, BoundsAssumption
  <2>4. ToSet(queue) \subseteq Timer /\ ToSet(Unlinked(t)) \subseteq Timer
      BY <1>3, <1>8 DEF ToSet
  <2>5. Sorted(Unlinked(t), left')
    <3>1. Sorted(Unlinked(t), left)
        BY <1>8 DEF OrderOK, Sorted
    <3> QED BY <1>8, <2>2, <2>4, <3>1 DEF Sorted
  <2>6. /\ queue' \in Seq(Timer) /\ IsInjective(queue')
        /\ ToSet(queue') = ToSet(Unlinked(t)) \cup {t}
        /\ \A x, y \in ToSet(Unlinked(t)) : Before(Unlinked(t), x, y) => Before(queue', x, y)
        /\ Sorted(queue', left')
    <3>1. PICK q \in Seq(Timer) : q = Unlinked(t)
        BY <1>8
    <3>2. PICK lf \in [Timer -> Nat] : lf = left'
        BY <2>3
    <3>3. PICK u \in Timer : u = t
        BY <1>4
    <3>4. IsInjective(q) /\ Sorted(q, lf) /\ u \notin ToSet(q)
        BY <1>8, <2>5, <3>1, <3>2, <3>3
    <3> DEFINE r == Inserted(q, lf, u)
    <3>5. /\ r \in Seq(Timer) /\ IsInjective(r) /\ ToSet(r) = ToSet(q) \cup {u}
          /\ \A x, y \in ToSet(q) : Before(q, x, y) => Before(r, x, y)
          /\ Sorted(r, lf)
        BY <3>4, Linked
    <3>6. queue' = r
        BY <2>1, <3>1, <3>2, <3>3
    <3> HIDE DEF r
    <3> QED BY <3>1, <3>2, <3>3, <3>5, <3>6
  <2>7. ToSet(queue') = ToSet(queue) /\ Live' = Live
      BY <1>4, <1>8, <2>6 DEF Live
  <2>8. ListOK'
      BY <1>1, <2>1, <2>2, <2>6, <2>7 DEF ListOK
  <2>9. ~OneShot(t)'
      BY <1>1, <1>9 DEF OneShot
  <2>10. HandlesOK'
      BY <1>1, <1>6, <2>7, <2>9 DEF HandlesOK
  <2>11. \A x \in Timer : left'[x] <= delay'[x]
    <3> SUFFICES ASSUME NEW x \in Timer PROVE left'[x] <= delay'[x]
        OBVIOUS
    <3>1. CASE x = t
      <4>1. left'[x] = delay'[x] /\ delay[x] \in Nat
          BY <2>2, <3>1, BoundsAssumption DEF ListOK
      <4> QED BY <4>1
    <3>2. CASE x # t
        BY <2>2, <3>2 DEF OrderOK
    <3> QED BY <3>1, <3>2
  <2>12. ASSUME NEW x \in Live', NEW y \in Live', OneShot(x)', OneShot(y)', x < y, delay'[x] <= delay'[y]
         PROVE  Before(queue', x, y)
    <3>1. x # t /\ y # t /\ OneShot(x) /\ OneShot(y) /\ delay[x] <= delay[y] /\ x \in Live /\ y \in Live
        BY <1>1, <1>9, <2>7, <2>12 DEF OneShot
    <3>2. Before(queue, x, y)
        BY <2>12, <3>1 DEF OrderOK
    <3>3. x \in ToSet(Unlinked(t)) /\ y \in ToSet(Unlinked(t))
        BY <1>8, <3>1 DEF Live
    <3> QED BY <1>8, <2>6, <3>2, <3>3
  <2>13. SetOrderKept'
      BY <1>1, <2>1, SetOrderStays
  <2>14. OrderOK'
      BY <2>6, <2>11, <2>12, <2>13 DEF OrderOK
  <2> QED BY <1>4, <1>7, <1>9, <2>7, <2>8, <2>10, <2>14
<1>10. CASE t \notin repeating
  <2>1. queue' = Unlinked(t) /\ fired' = fired \cup {t} /\ UNCHANGED left
      BY <1>10
  <2>2. Live' = Live \ {t}
      BY <1>8, <2>1 DEF Live
  <2>3. ListOK'
      BY <1>1, <1>4, <1>8, <1>10, <2>1 DEF ListOK
  <2>4. OneShot(t)'
      BY <1>1, <1>10 DEF OneShot
  <2>5. HandlesOK'
      BY <1>1, <1>6, <2>2, <2>4 DEF HandlesOK
  <2>6. SetOrderKept'
    <3> SUFFICES ASSUME NEW x \in Timer \ repeating, NEW y \in Timer \ repeating,
                        x < y, delay[x] <= delay[y], y \in fired', x \in active, x \notin fired'
                 PROVE  FALSE
        BY <1>1 DEF SetOrderKept
    <3>1. y = t
        BY <2>1 DEF OrderOK, SetOrderKept
    <3>2. OneShot(x) /\ OneShot(y) /\ x \in Live /\ y \in Live
        BY <1>4, <1>6, <3>1 DEF OneShot
    <3>3. Before(queue, x, y)
        BY <3>2 DEF OrderOK
    <3>4. PICK i, j \in DOMAIN queue : i < j /\ queue[i] = x /\ queue[j] = y
        BY <3>3 DEF Before
    <3>5. j = h
        BY <1>2, <1>3, <3>1, <3>4 DEF IsInjective
    <3>6. i \in 1..(h - 1)
        BY <1>3, <3>4, <3>5
    <3>7. x \in dead
        BY <1>2, <3>4, <3>6
    <3> QED BY <3>2, <3>7 DEF Live
  <2>7. OrderOK'
    <3>1. Live' \subseteq Live /\ ToSet(queue') \subseteq ToSet(queue)
        BY <1>8, <2>1, <2>2
    <3>2. \A x, y \in ToSet(queue') : Before(queue', x, y) <=> Before(queue, x, y)
        BY <1>8, <2>1
    <3> QED BY <1>1, <2>1, <2>6, <3>1, <3>2, ListOrderStays DEF OrderOK
  <2> QED BY <1>4, <1>7, <1>10, <2>2, <2>3, <2>5, <2>7
<1> QED BY <1>9, <1>10

(* The end of a walk: the dead go.                                          *)
LEMMA PollEndLInv == ASSUME LInv, PollEnd PROVE LInv' /\ Live' = Live
<1> USE DEF LInv
<1>1. /\ phase = "walking" /\ running = None
      /\ UNCHANGED <<nextId, active, repeating, running, stopped, released, refreed>>
      /\ UNCHANGED <<delay, left, dead, fired>> /\ Known' = Known
      /\ allocated' = allocated \ (ToSet(queue) \cap dead)
      /\ phase' \in {"script", "exited"}
      /\ phase' = "exited" => Live = {}
    BY DEF PollEnd, runtimeVars, Reap, Known
<1>2. PICK n \in 0..Len(queue) :
          \E at \in [1..n -> {i \in DOMAIN queue : queue[i] \notin dead}] :
               /\ \A i \in {i \in DOMAIN queue : queue[i] \notin dead} : \E k \in 1..n : at[k] = i
               /\ \A k, l \in 1..n : k < l => at[k] < at[l]
               /\ queue' = [k \in 1..n |-> queue[at[k]]]
    BY DEF PollEnd, Reap
<1>3. PICK at \in [1..n -> {i \in DOMAIN queue : queue[i] \notin dead}] :
               /\ \A i \in {i \in DOMAIN queue : queue[i] \notin dead} : \E k \in 1..n : at[k] = i
               /\ \A k, l \in 1..n : k < l => at[k] < at[l]
               /\ queue' = [k \in 1..n |-> queue[at[k]]]
    BY <1>2
<1>4. queue \in Seq(Timer) /\ IsInjective(queue) /\ n \in Nat
    BY DEF ListOK
<1>5. \A i \in DOMAIN queue : queue[i] \notin dead => \E k \in 1..n : at[k] = i
    BY <1>3
<1>6. /\ queue' \in Seq(Timer) /\ IsInjective(queue')
      /\ ToSet(queue') = ToSet(queue) \ dead
      /\ \A x, y \in ToSet(queue') : Before(queue', x, y) <=> Before(queue, x, y)
  <2>1. PICK q \in Seq(Timer) : q = queue
      BY <1>4
  <2>2. PICK D : D = dead
      OBVIOUS
  <2>3. PICK r : r = queue'
      OBVIOUS
  <2>4. IsInjective(q) /\ ReapedBy(q, D, n, at, r)
      BY <1>3, <1>4, <1>5, <2>1, <2>2, <2>3 DEF ReapedBy
  <2>5. /\ r \in Seq(Timer) /\ IsInjective(r) /\ ToSet(r) = ToSet(q) \ D
        /\ \A x, y \in ToSet(r) : Before(r, x, y) <=> Before(q, x, y)
      BY <2>4, Reaped
  <2> QED BY <2>1, <2>2, <2>3, <2>5
<1>7. Live' = Live
    BY <1>1, <1>6 DEF Live
<1>8. RuntimeOK'
    BY <1>1 DEF RuntimeOK
<1>9. ListOK'
    BY <1>1, <1>6 DEF ListOK
<1>10. HandlesOK'
  <2>1. None \notin active /\ OneShot(None)
      BY DEF RuntimeOK, Known, None, OneShot
  <2>2. Live = active
      BY <1>1, <2>1 DEF HandlesOK
  <2> QED BY <1>1, <1>6, <1>7, <2>2 DEF HandlesOK, OneShot
<1>11. OrderOK'
  <2>1. Live' \subseteq Live /\ ToSet(queue') \subseteq ToSet(queue)
      BY <1>6, <1>7
  <2> QED BY <1>1, <1>6, <2>1, ListOrderStays, SetOrderStays DEF OrderOK
<1> QED BY <1>7, <1>8, <1>9, <1>10, <1>11

LEMMA TickLInv == ASSUME LInv, Tick PROVE LInv' /\ Live' = Live
<1> USE DEF LInv
<1>1. /\ UNCHANGED <<nextId, active, repeating, running, stopped, released, refreed>>
      /\ UNCHANGED <<delay, queue, dead, allocated, phase, fired>> /\ Known' = Known
      /\ left' = [t \in Timer |-> IF left[t] > 0 THEN left[t] - 1 ELSE 0]
    BY DEF Tick, runtimeVars, Known
<1>2. \A t \in Timer : left[t] \in 0..MaxDelay /\ left[t] \in Int /\ delay[t] \in 0..MaxDelay /\ delay[t] \in Int
    BY DEF ListOK
<1>3. left' \in [Timer -> 0..MaxDelay]
  <2> SUFFICES ASSUME NEW t \in Timer PROVE (IF left[t] > 0 THEN left[t] - 1 ELSE 0) \in 0..MaxDelay
      BY <1>1
  <2>1. PICK n \in 0..MaxDelay : n = left[t]
      BY <1>2
  <2>2. (IF n > 0 THEN n - 1 ELSE 0) \in 0..MaxDelay
      BY BoundsAssumption
  <2> QED BY <2>1, <2>2
<1>4. \A x, y \in Timer : left[x] <= left[y] => left'[x] <= left'[y]
    BY <1>1, <1>2
<1>5. \A x \in Timer : left'[x] <= delay'[x]
  <2> SUFFICES ASSUME NEW x \in Timer PROVE (IF left[x] > 0 THEN left[x] - 1 ELSE 0) <= delay[x]
      BY <1>1
  <2>1. left[x] <= delay[x] /\ left[x] \in Int /\ delay[x] \in Int /\ 0 <= delay[x]
      BY <1>2 DEF OrderOK
  <2> QED BY <2>1
<1>6. Live' = Live
    BY <1>1 DEF Live
<1>7. RuntimeOK' /\ ListOK'
    BY <1>1, <1>3 DEF RuntimeOK, ListOK
<1>8. HandlesOK'
    BY <1>1, <1>6 DEF HandlesOK, OneShot
<1>9. Sorted(queue', left')
  <2>1. ToSet(queue) \subseteq Timer
      BY DEF ListOK, ToSet
  <2> QED BY <1>1, <1>4, <2>1 DEF OrderOK, Sorted
<1>10. OrderOK'
    BY <1>1, <1>5, <1>6, <1>9, SetOrderStays DEF OrderOK, OneShot
<1> QED BY <1>6, <1>7, <1>8, <1>10

LEMMA StepLInv == LInv /\ [Next]_vars => LInv'
<1> SUFFICES ASSUME LInv, [Next]_vars PROVE LInv'
    OBVIOUS
<1>1. CASE \E rep \in BOOLEAN, d \in 1..MaxDelay : SetTimer(rep, d)
    BY <1>1, SetTimerLInv
<1>2. CASE \E t \in Timer : ClearTimer(t)
    BY <1>2, ClearTimerLInv
<1>3. CASE PollBegin
    BY <1>3, PollBeginLInv
<1>4. CASE FireNext
  <2>1. PICK t \in Due :
            /\ Runtime!EnterCallback(t)
            /\ IF t \in repeating
               THEN Relinked(t) /\ UNCHANGED fired
               ELSE queue' = Unlinked(t) /\ fired' = fired \cup {t} /\ UNCHANGED left
      BY <1>4 DEF FireNext
  <2>2. phase = "walking" /\ UNCHANGED <<delay, dead, allocated, phase>>
      BY <1>4 DEF FireNext
  <2> QED BY <2>1, <2>2, FireNextLInv
<1>5. CASE Return
    BY <1>5, ReturnLInv
<1>6. CASE PollEnd
    BY <1>6, PollEndLInv
<1>7. CASE Tick
    BY <1>7, TickLInv
<1>8. CASE UNCHANGED vars
    BY <1>8 DEF vars, runtimeVars, loopVars, LInv, RuntimeOK, ListOK, HandlesOK, OrderOK,
                Known, OneShot, Live, SetOrderKept
<1> QED BY <1>1, <1>2, <1>3, <1>4, <1>5, <1>6, <1>7, <1>8 DEF Next

LEMMA LoopInductive == Spec => []LInv
  BY InitLInv, StepLInv, PTL DEF Spec

LEMMA LInvKeeps == LInv => TimersKept
<1> SUFFICES ASSUME LInv PROVE TimersKept
    OBVIOUS
<1>1. /\ Timer \subseteq Nat \ {0} /\ nextId \in Nat \ {0}
      /\ Known \subseteq Timer /\ None \notin Known
    BY TimersAreNumbers
<1>2. Live \subseteq Known
    BY DEF Live, LInv, ListOK
<1>3. Runtime!TypeOK
    BY <1>1, <1>2 DEF LInv, RuntimeOK, Runtime!TypeOK, Runtime!Timer, Runtime!None, None
<1>4. TypeOK
    BY <1>1, <1>3 DEF TypeOK, LInv, ListOK
<1>5. LoopKnowsTimers
  <2>1. phase # "walking" => ToSet(queue) = active
    <3> SUFFICES ASSUME phase # "walking" PROVE ToSet(queue) = active
        OBVIOUS
    <3>1. running = None /\ dead \cap ToSet(queue) = {} /\ None \notin active
        BY <1>1 DEF LInv, HandlesOK, RuntimeOK
    <3>2. Live = active
        BY <3>1 DEF LInv, HandlesOK
    <3> QED BY <3>1, <3>2 DEF Live
  <2> QED BY <2>1 DEF LoopKnowsTimers, LInv, HandlesOK
<1>6. ReleasedWhenUnreachable
    BY DEF ReleasedWhenUnreachable, Runtime!ReleasedWhenUnreachable, LInv, RuntimeOK, Known
<1> QED BY <1>4, <1>5, <1>6 DEF TimersKept, LInv, OrderOK

(* Whatever callbacks set, clear and re-arm while sxn_builtin_poll is in    *)
(* the list: one-shots fire in the order they were set, the list holds the  *)
(* timers the program has, and each SxnTimer is freed once.                 *)
THEOREM TimersAreKept == Spec => []TimersKept
  BY LoopInductive, LInvKeeps, PTL

LEMMA InitKeepsContract == Init => Runtime!Init
  BY DEF Init, Runtime!Init, Live, ToSet

LEMMA StepKeepsContract == LInv /\ [Next]_vars => [Runtime!Next]_(Runtime!vars)
<1> SUFFICES ASSUME LInv, [Next]_vars PROVE Runtime!Next \/ UNCHANGED Runtime!vars
    OBVIOUS
<1>0. Live \subseteq active
    BY DEF LInv, HandlesOK
<1>1. CASE \E rep \in BOOLEAN, d \in 1..MaxDelay : SetTimer(rep, d)
  <2>1. PICK rep \in BOOLEAN, d \in 1..MaxDelay : SetTimer(rep, d)
      BY <1>1
  <2>2. Runtime!NewStruct(rep) /\ Live' = Live \cup {nextId}
      BY <2>1, SetTimerLInv DEF SetTimer
  <2> QED BY <2>2 DEF Runtime!Next, Runtime!SetTimer
<1>2. CASE \E t \in Timer : ClearTimer(t)
  <2>1. PICK t \in Timer : ClearTimer(t)
      BY <1>2
  <2>2. Runtime!ClearStruct(t) /\ Live' = Live \ {t} /\ t \in active
      BY <2>1, ClearTimerLInv DEF ClearTimer, Runtime!ClearStruct
  <2> QED BY <2>2 DEF Runtime!Next, Runtime!ClearTimer
<1>3. CASE FireNext
  <2>1. PICK t \in Due :
            /\ Runtime!EnterCallback(t)
            /\ IF t \in repeating
               THEN Relinked(t) /\ UNCHANGED fired
               ELSE queue' = Unlinked(t) /\ fired' = fired \cup {t} /\ UNCHANGED left
      BY <1>3 DEF FireNext
  <2>2. phase = "walking" /\ UNCHANGED <<delay, dead, allocated, phase>>
      BY <1>3 DEF FireNext
  <2>3. t \in Live /\ Live' = IF t \in repeating THEN Live ELSE Live \ {t}
      BY <2>1, <2>2, FireNextLInv
  <2> QED BY <2>1, <2>3 DEF Runtime!Next, Runtime!Fire
<1>4. CASE Return
  <2>1. Runtime!LeaveCallback /\ Live' = Live \cap active'
      BY <1>4, ReturnLInv DEF Return
  <2> QED BY <2>1 DEF Runtime!Next, Runtime!Return
<1>5. CASE PollBegin \/ PollEnd \/ Tick
  <2>1. Live' = Live
      BY <1>5, PollBeginLInv, PollEndLInv, TickLInv
  <2>2. UNCHANGED runtimeVars
      BY <1>5 DEF PollBegin, PollEnd, Tick
  <2> QED BY <2>1, <2>2 DEF runtimeVars, Runtime!vars, Runtime!runtimeVars
<1>6. CASE UNCHANGED vars
    BY <1>6 DEF vars, runtimeVars, loopVars, Runtime!vars, Runtime!runtimeVars, Live
<1> QED BY <1>1, <1>2, <1>3, <1>4, <1>5, <1>6 DEF Next

(* The loop in the program honours the contract of sxn_loop.h: a handle     *)
(* fires only while it is armed, once if it is a one-shot, and never after  *)
(* timer_stop, although the walk only marks what a callback stops.          *)
THEOREM LoopKeepsContract == Spec => KeepsContract
<1>1. Init /\ LInv => Runtime!Init
    BY InitKeepsContract
<1>2. LInv /\ [Next]_vars => [Runtime!Next]_(Runtime!vars)
    BY StepKeepsContract
<1> QED BY <1>1, <1>2, LoopInductive, PTL DEF Spec, KeepsContract, Runtime!Spec

-----------------------------------------------------------------------------
(* Any loop that honours the contract: `fireable` are those it may fire.     *)
VARIABLE fireable
Contract == INSTANCE TimerRuntime WITH armed <- fireable

(* Safety is not inductive by itself: that Return frees what nothing else   *)
(* can reach depends on `stopped` saying whether the running timer is still *)
(* in the list.                                                             *)
ContractInv ==
    /\ RuntimeOK
    /\ fireable \subseteq active
    /\ \A t \in active \ fireable : running = t /\ t \notin repeating

LEMMA ContractInit == Contract!Init => ContractInv
<1> SUFFICES ASSUME Contract!Init PROVE ContractInv
    OBVIOUS
<1>1. /\ nextId = 1 /\ active = {} /\ repeating = {} /\ stopped = {}
      /\ running = None /\ released = {} /\ refreed = {} /\ fireable = {}
    BY DEF Contract!Init, Contract!RuntimeInit, None, Contract!None
<1>2. Known = {}
    BY <1>1 DEF Known
<1> QED BY <1>1, <1>2 DEF ContractInv, RuntimeOK, None

(* The runtime's calls are the same, whichever loop is behind them.         *)
LEMMA SameCalls ==
    /\ \A rep : Contract!NewStruct(rep) <=> Runtime!NewStruct(rep)
    /\ \A t : Contract!ClearStruct(t) <=> Runtime!ClearStruct(t)
    /\ \A t : Contract!EnterCallback(t) <=> Runtime!EnterCallback(t)
    /\ Contract!LeaveCallback <=> Runtime!LeaveCallback
<1>1. \A rep : Contract!NewStruct(rep) <=> Runtime!NewStruct(rep)
    BY DEF Contract!NewStruct, Runtime!NewStruct
<1>2. \A t : Contract!ClearStruct(t) <=> Runtime!ClearStruct(t)
    BY DEF Contract!ClearStruct, Runtime!ClearStruct, Contract!Releases, Runtime!Releases,
           Contract!ReleasesNone, Runtime!ReleasesNone
<1>3. \A t : Contract!EnterCallback(t) <=> Runtime!EnterCallback(t)
    BY DEF Contract!EnterCallback, Runtime!EnterCallback, Contract!None, Runtime!None
<1>4. Contract!LeaveCallback <=> Runtime!LeaveCallback
    BY DEF Contract!LeaveCallback, Runtime!LeaveCallback, Contract!Releases, Runtime!Releases,
           Contract!ReleasesNone, Runtime!ReleasesNone, Contract!EndsWith, Runtime!EndsWith,
           Contract!None, Runtime!None
<1> QED BY <1>1, <1>2, <1>3, <1>4

LEMMA ContractStep == ContractInv /\ [Contract!Next]_(Contract!vars) => ContractInv'
<1> SUFFICES ASSUME ContractInv, Contract!Next \/ UNCHANGED Contract!vars PROVE ContractInv'
    OBVIOUS
<1> USE DEF ContractInv
(* sxn_set_timer: ids are never reused, so the new timer is nobody else's.  *)
<1>1. CASE \E rep \in BOOLEAN : Contract!SetTimer(rep)
  <2>1. PICK rep \in BOOLEAN : Runtime!NewStruct(rep) /\ fireable' = fireable \cup {nextId}
      BY <1>1, SameCalls DEF Contract!SetTimer
  <2>2. RuntimeOK'
      BY <2>1, NewStructOK
  <2>3. \A t \in Known : t # nextId
      BY DEF RuntimeOK, Known
  <2>4. /\ active' = active \cup {nextId} /\ repeating' \subseteq repeating \cup {nextId}
        /\ running' = running
      BY <2>1 DEF Runtime!NewStruct
  <2> QED BY <2>1, <2>2, <2>3, <2>4 DEF RuntimeOK
(* clearTimeout: from inside the timer's own callback it only marks.        *)
<1>2. CASE \E t \in active : Contract!ClearTimer(t)
  <2>1. PICK t \in active : Runtime!ClearStruct(t) /\ fireable' = fireable \ {t}
      BY <1>2, SameCalls DEF Contract!ClearTimer
  <2>2. RuntimeOK'
      BY <2>1, ClearStructOK
  <2>3. active' = active \ {t} /\ UNCHANGED <<running, repeating>>
      BY <2>1 DEF Runtime!ClearStruct
  <2> QED BY <2>1, <2>2, <2>3
<1>3. CASE \E t \in fireable : Contract!Fire(t)
  <2>1. PICK t \in fireable :
            /\ Runtime!EnterCallback(t)
            /\ fireable' = IF t \in repeating THEN fireable ELSE fireable \ {t}
      BY <1>3, SameCalls DEF Contract!Fire
  <2>2. RuntimeOK'
      BY <2>1, EnterCallbackOK
  <2>3. running = None /\ running' = t /\ UNCHANGED <<active, repeating>>
      BY <2>1 DEF Runtime!EnterCallback, None, Runtime!None
  <2>4. None \notin active
      BY DEF RuntimeOK, Known, None
  <2> QED BY <2>1, <2>2, <2>3, <2>4
(* The end of a callback: whoever is left to free the timer does.           *)
<1>4. CASE Contract!Return
  <2>1. Runtime!LeaveCallback /\ fireable' = fireable \cap active'
      BY <1>4, SameCalls DEF Contract!Return
  <2>2. RuntimeOK' /\ active' = IF OneShot(running) THEN active \ {running} ELSE active
      BY <2>1, LeaveCallbackOK
  <2>3. repeating' = repeating
      BY <2>1 DEF Runtime!LeaveCallback
  <2>4. active' \subseteq fireable
      BY <2>2 DEF OneShot
  <2> QED BY <2>1, <2>2, <2>4
<1>5. CASE UNCHANGED Contract!vars
    BY <1>5 DEF Contract!vars, Contract!runtimeVars, RuntimeOK, Known
<1> QED BY <1>1, <1>2, <1>3, <1>4, <1>5 DEF Contract!Next

LEMMA ContractInductive == Contract!Spec => []ContractInv
  BY ContractInit, ContractStep, PTL DEF Contract!Spec

(* Type correctness, for every number of timers (sxn_set_timer's ids).      *)
THEOREM TypeCorrect == Contract!Spec => []Contract!TypeOK
<1>1. ContractInv => Contract!TypeOK
    BY DEF ContractInv, RuntimeOK, Known, Contract!TypeOK, Contract!Timer, Contract!None, None
<1> QED BY <1>1, ContractInductive, PTL

(* sxn_timer_release runs once per timer, when nothing can reach it.        *)
THEOREM TimersFreedOnce == Contract!Spec => []Contract!ReleasedWhenUnreachable
<1>1. ContractInv => Contract!ReleasedWhenUnreachable
    BY DEF ContractInv, RuntimeOK, Known, Contract!ReleasedWhenUnreachable
<1> QED BY <1>1, ContractInductive, PTL

(* sxn_timer_cb is never entered with a timer that was cleared or freed.    *)
THEOREM CallbacksReachLiveTimers == Contract!Spec => []Contract!ArmedIsReachable
<1>1. ContractInv => Contract!ArmedIsReachable
    BY DEF ContractInv, Contract!ArmedIsReachable
<1> QED BY <1>1, ContractInductive, PTL


-----------------------------------------------------------------------------
(* The pump: its lists of promises first.                                   *)

(* What appending to a list without duplicates makes of it.                 *)
LEMMA AppendToList ==
    ASSUME NEW S, NEW s \in Seq(S), IsInjective(s), NEW p \in S, p \notin ToSet(s)
    PROVE  /\ Append(s, p) \in Seq(S)
           /\ IsInjective(Append(s, p))
           /\ ToSet(Append(s, p)) = ToSet(s) \cup {p}
<1>1. /\ Append(s, p) \in Seq(S)
      /\ Len(Append(s, p)) = Len(s) + 1
      /\ DOMAIN Append(s, p) = 1..(Len(s) + 1)
      /\ DOMAIN s = 1..Len(s) /\ Len(s) \in Nat
      /\ \A i \in 1..Len(s) : Append(s, p)[i] = s[i]
      /\ Append(s, p)[Len(s) + 1] = p
    OBVIOUS
<1>2. ToSet(Append(s, p)) = ToSet(s) \cup {p}
    BY <1>1 DEF ToSet
<1>3. IsInjective(Append(s, p))
    BY <1>1 DEF IsInjective, ToSet
<1> QED BY <1>1, <1>2, <1>3

LEMMA AppendToSeq ==
    ASSUME NEW S, NEW s \in Seq(S), NEW e \in S
    PROVE  Append(s, e) \in Seq(S)
OBVIOUS

(* What taking the first element off a list without duplicates makes of it. *)
LEMMA TailOfList ==
    ASSUME NEW S, NEW s \in Seq(S), IsInjective(s), s # <<>>
    PROVE  /\ Head(s) \in ToSet(s)
           /\ Tail(s) \in Seq(S)
           /\ IsInjective(Tail(s))
           /\ ToSet(Tail(s)) = ToSet(s) \ {Head(s)}
<1>1. /\ Len(s) \in Nat /\ Len(s) > 0
      /\ DOMAIN s = 1..Len(s)
      /\ Head(s) = s[1]
      /\ Tail(s) \in Seq(S)
      /\ DOMAIN Tail(s) = 1..(Len(s) - 1)
      /\ \A i \in 1..(Len(s) - 1) : Tail(s)[i] = s[i + 1]
    OBVIOUS
<1>2. Head(s) \in ToSet(s)
    BY <1>1 DEF ToSet
<1>3. IsInjective(Tail(s))
    BY <1>1 DEF IsInjective
<1> DEFINE t == Tail(s)
<1>4. ToSet(t) = ToSet(s) \ {s[1]}
  <2> HIDE DEF t
  <2>1. DOMAIN t = 1..(Len(s) - 1) /\ \A i \in 1..(Len(s) - 1) : t[i] = s[i + 1]
      BY <1>1 DEF t
  <2>2. \A i \in 1..Len(s) : i # 1 => \E j \in 1..(Len(s) - 1) : t[j] = s[i]
    <3>1. \A i \in 1..Len(s) : i # 1 => i - 1 \in 1..(Len(s) - 1) /\ t[i - 1] = s[i]
        BY <1>1, <2>1
    <3> QED BY <3>1
  <2>3. \A i \in 1..Len(s) : s[i] = s[1] => i = 1
      BY <1>1 DEF IsInjective
  <2>4. \A j \in 1..(Len(s) - 1) : j + 1 \in 1..Len(s) /\ t[j] = s[j + 1] /\ t[j] # s[1]
      BY <1>1, <2>1, <2>3
  <2>5. ToSet(t) = {t[j] : j \in 1..(Len(s) - 1)} /\ ToSet(s) = {s[i] : i \in 1..Len(s)}
      BY <1>1, <2>1 DEF ToSet
  <2>6. ToSet(t) \subseteq ToSet(s) \ {s[1]}
      BY <2>4, <2>5
  <2>7. ToSet(s) \ {s[1]} \subseteq ToSet(t)
      BY <2>2, <2>5
  <2> QED BY <2>6, <2>7
<1> QED BY <1>1, <1>2, <1>3, <1>4

(* What taking an element out of a list without duplicates makes of it.     *)
LEMMA RemoveFromList ==
    ASSUME NEW S, NEW s \in Seq(S), IsInjective(s), NEW p
    PROVE  /\ Without(s, p) \in Seq(S)
           /\ IsInjective(Without(s, p))
           /\ ToSet(Without(s, p)) = ToSet(s) \ {p}
<1>1. CASE p \notin ToSet(s)
    BY <1>1 DEF Without
<1>2. CASE p \in ToSet(s)
  <2>1. PICK k \in 1..Len(s) : s[k] = p /\ Without(s, p) = RemoveAt(s, k)
    <3>1. \E i \in DOMAIN s : s[i] = p
        BY <1>2 DEF ToSet
    <3>2. /\ (CHOOSE i \in DOMAIN s : s[i] = p) \in DOMAIN s
          /\ s[CHOOSE i \in DOMAIN s : s[i] = p] = p
        BY <3>1
    <3>3. DOMAIN s = 1..Len(s)
        OBVIOUS
    <3>4. Without(s, p) = RemoveAt(s, CHOOSE i \in DOMAIN s : s[i] = p)
        BY <1>2, Zenon DEF Without
    <3> DEFINE c == CHOOSE i \in DOMAIN s : s[i] = p
    <3>5. c \in 1..Len(s) /\ s[c] = p /\ Without(s, p) = RemoveAt(s, c)
        BY <3>2, <3>3, <3>4, Zenon
    <3> HIDE DEF c
    <3> QED BY <3>5
  <2> DEFINE t == RemoveAt(s, k)
  <2>2. Len(s) \in Nat /\ DOMAIN s = 1..Len(s) /\ k \in 1..Len(s) /\ s[k] = p
      BY <2>1
  <2>5. /\ t \in Seq(S) /\ DOMAIN t = 1..(Len(s) - 1)
        /\ \A i \in 1..(k - 1) : t[i] = s[i]
        /\ \A i \in k..(Len(s) - 1) : t[i] = s[i + 1]
      BY RemoveAtPosition
  <2> HIDE DEF t
  <2>6. \A i, j \in 1..Len(s) : s[i] = s[j] => i = j
      BY <2>2 DEF IsInjective
  <2>7. IsInjective(t)
    <3>1. \A i \in 1..(Len(s) - 1) :
              \/ i < k /\ i \in 1..Len(s) /\ t[i] = s[i]
              \/ i >= k /\ i + 1 \in 1..Len(s) /\ t[i] = s[i + 1]
        BY <2>2, <2>5
    <3>2. SUFFICES ASSUME NEW i \in 1..(Len(s) - 1), NEW j \in 1..(Len(s) - 1), t[i] = t[j]
                   PROVE  i = j
        BY <2>5 DEF IsInjective
    <3>3. CASE i < k /\ j < k
        BY <3>1, <3>2, <3>3, <2>2, <2>6
    <3>4. CASE i >= k /\ j >= k
      <4>1. i + 1 = j + 1
          BY <3>1, <3>2, <3>4, <2>2, <2>6
      <4> QED BY <4>1
    <3>5. CASE i < k /\ j >= k
      <4>1. i = j + 1
          BY <3>1, <3>2, <3>5, <2>2, <2>6
      <4> QED BY <4>1, <3>5, <2>2
    <3>6. CASE i >= k /\ j < k
      <4>1. i + 1 = j
          BY <3>1, <3>2, <3>6, <2>2, <2>6
      <4> QED BY <4>1, <3>6, <2>2
    <3> QED BY <3>3, <3>4, <3>5, <3>6, <2>2
  <2>8. \A i \in 1..Len(s) : i # k => \E j \in 1..(Len(s) - 1) : t[j] = s[i]
    <3> SUFFICES ASSUME NEW i \in 1..Len(s), i # k
                 PROVE  \E j \in 1..(Len(s) - 1) : t[j] = s[i]
        OBVIOUS
    <3>1. CASE i < k
      <4>1. i \in 1..(Len(s) - 1) /\ t[i] = s[i]
          BY <3>1, <2>2, <2>5
      <4> QED BY <4>1
    <3>2. CASE i > k
      <4>1. i - 1 \in k..(Len(s) - 1) /\ i - 1 \in 1..(Len(s) - 1)
          BY <3>2, <2>2
      <4>2. t[i - 1] = s[i]
          BY <4>1, <2>5, <2>2
      <4> QED BY <4>1, <4>2
    <3> QED BY <3>1, <3>2, <2>2
  <2>9. \A j \in 1..(Len(s) - 1) :
            \E i \in 1..Len(s) : i # k /\ t[j] = s[i]
    <3> SUFFICES ASSUME NEW j \in 1..(Len(s) - 1)
                 PROVE  \E i \in 1..Len(s) : i # k /\ t[j] = s[i]
        OBVIOUS
    <3>1. CASE j < k
      <4>1. j \in 1..Len(s) /\ j # k /\ t[j] = s[j]
          BY <3>1, <2>2, <2>5
      <4> QED BY <4>1
    <3>2. CASE j >= k
      <4>1. j + 1 \in 1..Len(s) /\ j + 1 # k /\ t[j] = s[j + 1]
          BY <3>2, <2>2, <2>5
      <4> QED BY <4>1
    <3> QED BY <3>1, <3>2, <2>2
  <2>10. ToSet(t) = ToSet(s) \ {p}
    <3>1. \A i \in 1..Len(s) : s[i] = p <=> i = k
        BY <2>2, <2>6
    <3>2. ToSet(t) = {t[j] : j \in 1..(Len(s) - 1)} /\ ToSet(s) = {s[i] : i \in 1..Len(s)}
        BY <2>2, <2>5 DEF ToSet
    <3>3. ToSet(t) \subseteq ToSet(s) \ {p}
        BY <3>1, <3>2, <2>9
    <3>4. ToSet(s) \ {p} \subseteq ToSet(t)
        BY <3>1, <3>2, <2>8
    <3> QED BY <3>3, <3>4
  <2> QED BY <2>1, <2>5, <2>7, <2>10 DEF t
<1> QED BY <1>1, <1>2

-----------------------------------------------------------------------------
(* The inductive invariant: the two lists partition the rejections nothing  *)
(* handles, and the flag is up while one waits.  A job that throws ends the *)
(* program, so that no job runs during the flush is part of it.             *)
JobsRunBetween == script = "job" => stage \in {"await", "std", "drain"}

PumpInv == PumpTypeOK /\ EachOnOneList /\ FlagCoversPending /\ JobsRunBetween

LEMMA PumpStarts == PumpInit => PumpInv
<1> SUFFICES ASSUME PumpInit PROVE PumpInv
    OBVIOUS
<1>1. ToSet(pending) = {} /\ IsInjective(pending)
    BY DEF PumpInit, ToSet, IsInjective
<1>2. PumpTypeOK
  <2>1. pending \in Seq(Promise) /\ events \in Seq({"unhandledrejection", "rejectionhandled"} \X Promise)
    <3>1. \A S : <<>> \in Seq(S)
        OBVIOUS
    <3> QED BY <3>1 DEF PumpInit
  <2>2. jobs \in 0..made /\ made \in 0..MaxJobs /\ handles \in 0..opened /\ opened \in 0..MaxHandles
      BY PumpBoundsAssumption DEF PumpInit
  <2>3. rejected \subseteq Promise /\ handled \subseteq Promise /\ reported \subseteq Promise
      BY DEF PumpInit
  <2>4. /\ stage \in Pumping \cup {"exited", "failed"}
        /\ script \in {"none", "module", "job", "callback", "listener"}
        /\ main \in {"pending", "fulfilled", "rejected"} /\ raised \in BOOLEAN
      BY DEF PumpInit, Pumping
  <2> QED BY <1>1, <2>1, <2>2, <2>3, <2>4 DEF PumpTypeOK
<1>3. EachOnOneList /\ FlagCoversPending /\ JobsRunBetween
    BY <1>1 DEF PumpInit, EachOnOneList, FlagCoversPending, JobsRunBetween, Unhandled, Waiting
<1> QED BY <1>2, <1>3 DEF PumpInv

(* A promise that is rejected with nothing watching it.                     *)
LEMMA RejectInv ==
    ASSUME PumpInv, NEW p \in Promise, Reject(p)
    PROVE  PumpInv'
<1> USE DEF PumpInv
<1>0. JobsRunBetween'
    BY DEF Reject, JobsRunBetween
<1>1. CASE p \in handled
  <2>1. PumpTypeOK'
      BY <1>1 DEF PumpTypeOK, Reject, Enqueued
  <2>2. EachOnOneList'
      BY <1>1 DEF EachOnOneList, Unhandled, Waiting, Reject
  <2>3. FlagCoversPending'
      BY <1>1 DEF FlagCoversPending, Reject
  <2> QED BY <2>1, <2>2, <2>3, <1>0
<1>2. CASE p \notin handled
  <2>1. p \notin ToSet(pending) /\ p \notin reported
      BY <1>2 DEF Reject, EachOnOneList, Unhandled, Waiting
  <2>2. /\ raised' = TRUE /\ pending' = Append(pending, p)
        /\ rejected' = rejected \cup {p}
        /\ UNCHANGED <<stage, script, main, jobs, made, handles, opened, handled, reported, events>>
      BY <1>2, <2>1 DEF Reject, Raised
  <2>3. /\ Append(pending, p) \in Seq(Promise)
        /\ IsInjective(Append(pending, p))
        /\ ToSet(Append(pending, p)) = ToSet(pending) \cup {p}
      BY <2>1, AppendToList DEF PumpTypeOK
  <2>4. PumpTypeOK'
      BY <2>2, <2>3 DEF PumpTypeOK
  <2>5. EachOnOneList'
      BY <1>2, <2>1, <2>2, <2>3 DEF EachOnOneList, Unhandled, Waiting
  <2>6. FlagCoversPending'
      BY <2>2 DEF FlagCoversPending
  <2> QED BY <2>4, <2>5, <2>6, <1>0
<1> QED BY <1>1, <1>2

(* A promise that is handled, before it is rejected, before the report or   *)
(* after it.                                                                *)
LEMMA HandleInv ==
    ASSUME PumpInv, NEW p \in Promise, Handle(p)
    PROVE  PumpInv'
<1> USE DEF PumpInv
<1>0. JobsRunBetween'
    BY DEF Handle, JobsRunBetween
<1>1. CASE p \notin rejected
  <2>1. PumpTypeOK'
      BY <1>1 DEF PumpTypeOK, Handle
  <2>2. EachOnOneList'
      BY <1>1 DEF EachOnOneList, Unhandled, Waiting, Handle
  <2>3. FlagCoversPending'
      BY <1>1 DEF FlagCoversPending, Handle
  <2> QED BY <2>1, <2>2, <2>3, <1>0
<1>2. CASE p \in rejected
  <2>1. /\ pending' = Without(pending, p)
        /\ reported' = reported \ {p}
        /\ handled' = handled \cup {p}
        /\ made + 1 <= MaxJobs /\ jobs' = jobs + 1 /\ made' = made + 1
        /\ UNCHANGED <<stage, script, main, handles, opened, rejected, raised>>
      BY <1>2 DEF Handle, NowHandled, Enqueued
  <2>2. events' \in Seq({"unhandledrejection", "rejectionhandled"} \X Promise)
    <3>1. events' = events \/ events' = Append(events, <<"rejectionhandled", p>>)
        BY <1>2 DEF Handle, NowHandled
    <3>2. <<"rejectionhandled", p>> \in {"unhandledrejection", "rejectionhandled"} \X Promise
        OBVIOUS
    <3>3. events \in Seq({"unhandledrejection", "rejectionhandled"} \X Promise)
        BY DEF PumpTypeOK
    <3>4. Append(events, <<"rejectionhandled", p>>) \in Seq({"unhandledrejection", "rejectionhandled"} \X Promise)
        BY <3>2, <3>3, AppendToSeq, Zenon
    <3> QED BY <3>1, <3>3, <3>4
  <2>3. /\ Without(pending, p) \in Seq(Promise)
        /\ IsInjective(Without(pending, p))
        /\ ToSet(Without(pending, p)) = ToSet(pending) \ {p}
      BY RemoveFromList DEF PumpTypeOK
  <2>4. PumpTypeOK'
      BY <2>1, <2>2, <2>3, PumpBoundsAssumption DEF PumpTypeOK
  <2>5. EachOnOneList'
      BY <2>1, <2>3 DEF EachOnOneList, Unhandled, Waiting
  <2>6. FlagCoversPending'
    <3>1. pending' # <<>> => pending # <<>>
        BY <2>1, <2>3 DEF ToSet, Without
    <3> QED BY <2>1, <3>1 DEF FlagCoversPending
  <2> QED BY <2>4, <2>5, <2>6, <1>0
<1> QED BY <1>1, <1>2

(* The report of one rejection.                                             *)
LEMMA ReportInv ==
    ASSUME PumpInv, ReportOne
    PROVE  PumpInv'
<1> USE DEF PumpInv
<1>1. /\ Head(pending) \in ToSet(pending)
      /\ Tail(pending) \in Seq(Promise)
      /\ IsInjective(Tail(pending))
      /\ ToSet(Tail(pending)) = ToSet(pending) \ {Head(pending)}
    BY TailOfList DEF PumpTypeOK, ReportOne
<1> DEFINE h == Head(pending)
<1>2. /\ pending' = Tail(pending) /\ reported' = reported \cup {h}
      /\ events' = Append(events, <<"unhandledrejection", h>>)
      /\ stage = "flush" /\ script' = "listener"
      /\ UNCHANGED <<stage, main, jobs, made, handles, opened, rejected, handled, raised>>
    BY DEF ReportOne
<1>3. h \in Promise
    BY <1>1 DEF PumpTypeOK, ToSet
<1> HIDE DEF h
<1>4. PumpTypeOK'
  <2>1. events' \in Seq({"unhandledrejection", "rejectionhandled"} \X Promise)
    <3>1. <<"unhandledrejection", h>> \in {"unhandledrejection", "rejectionhandled"} \X Promise
        BY <1>3
    <3>2. events \in Seq({"unhandledrejection", "rejectionhandled"} \X Promise)
        BY DEF PumpTypeOK
    <3>3. events' = Append(events, <<"unhandledrejection", h>>)
        BY <1>2
    <3>4. Append(events, <<"unhandledrejection", h>>) \in Seq({"unhandledrejection", "rejectionhandled"} \X Promise)
        BY <3>1, <3>2, AppendToSeq, Zenon
    <3> QED BY <3>3, <3>4
  <2> QED BY <1>1, <1>2, <1>3, <2>1 DEF PumpTypeOK
<1>5. EachOnOneList'
    BY <1>1, <1>2 DEF EachOnOneList, Unhandled, Waiting, h
<1>6. FlagCoversPending'
    BY <1>2 DEF FlagCoversPending
<1>7. JobsRunBetween'
    BY <1>2 DEF JobsRunBetween
<1> QED BY <1>4, <1>5, <1>6, <1>7

(* Every other step leaves the lists alone; only DrainEnds takes the flag   *)
(* down, on its way into the flush.                                         *)
LEMMA PumpStep == PumpInv /\ [PumpNext]_pumpVars => PumpInv'
<1> SUFFICES ASSUME PumpInv, [PumpNext]_pumpVars PROVE PumpInv'
    OBVIOUS
<1> USE DEF PumpInv
<1>1. CASE \E p \in Promise : Reject(p)
    BY <1>1, RejectInv
<1>2. CASE \E p \in Promise : Handle(p)
    BY <1>2, HandleInv
<1>3. CASE ReportOne
    BY <1>3, ReportInv
<1>4. CASE DrainEnds
    BY <1>4 DEF DrainEnds, JobsRunBetween, PumpTypeOK, EachOnOneList, FlagCoversPending, Unhandled, Waiting, Pumping
<1>5. CASE FlushEnds
    BY <1>5 DEF FlushEnds, JobsRunBetween, PumpTypeOK, EachOnOneList, FlagCoversPending, Unhandled, Waiting, Pumping,
        scriptVars
<1>6. CASE \/ EnqueueJob \/ OpenHandle \/ ModuleSettles \/ ModuleReturns \/ ScriptReturns
           \/ RunJob \/ JobReturns \/ JobThrows \/ AwaitEnds \/ AwaitPolls \/ AwaitPolled
           \/ StdEnds \/ Callback \/ Polled \/ UNCHANGED pumpVars
  <2>1. UNCHANGED <<rejected, handled, raised, pending, reported, events>>
    BY <1>6 DEF EnqueueJob, OpenHandle, ModuleSettles, ModuleReturns, ScriptReturns, RunJob,
        JobReturns, JobThrows, AwaitEnds, AwaitPolls, AwaitPolled, StdEnds, Callback, Polled,
        pumpVars, scriptVars
  <2>2. stage = "flush" => stage' = "flush"
    BY <1>6 DEF EnqueueJob, OpenHandle, ModuleSettles, ModuleReturns, ScriptReturns, RunJob,
        JobReturns, JobThrows, AwaitEnds, AwaitPolls, AwaitPolled, StdEnds, Callback, Polled,
        pumpVars, JobsRunBetween
  <2>3. JobsRunBetween'
    BY <1>6 DEF EnqueueJob, OpenHandle, ModuleSettles, ModuleReturns, ScriptReturns, RunJob,
        JobReturns, JobThrows, AwaitEnds, AwaitPolls, AwaitPolled, StdEnds, Callback, Polled,
        pumpVars, JobsRunBetween
  <2>4. PumpTypeOK'
    <3>1. /\ stage' \in Pumping \cup {"exited", "failed"}
          /\ script' \in {"none", "module", "job", "callback", "listener"}
          /\ main' \in {"pending", "fulfilled", "rejected"}
      BY <1>6 DEF EnqueueJob, OpenHandle, ModuleSettles, ModuleReturns, ScriptReturns, RunJob,
          JobReturns, JobThrows, AwaitEnds, AwaitPolls, AwaitPolled, StdEnds, Callback, Polled,
          pumpVars, PumpTypeOK, Pumping
    <3>2. /\ jobs' \in 0..made' /\ made' \in 0..MaxJobs
          /\ handles' \in 0..opened' /\ opened' \in 0..MaxHandles
      BY <1>6, PumpBoundsAssumption DEF EnqueueJob, Enqueued, OpenHandle, ModuleSettles,
          ModuleReturns, ScriptReturns, RunJob, JobReturns, JobThrows, AwaitEnds, AwaitPolls,
          AwaitPolled, StdEnds, Callback, Polled, pumpVars, scriptVars, PumpTypeOK
    <3> QED BY <2>1, <3>1, <3>2 DEF PumpTypeOK
  <2>5. EachOnOneList'
    BY <2>1 DEF EachOnOneList, Unhandled, Waiting
  <2>6. FlagCoversPending'
    BY <2>1, <2>2 DEF FlagCoversPending
  <2> QED BY <2>3, <2>4, <2>5, <2>6
<1> QED BY <1>1, <1>2, <1>3, <1>4, <1>5, <1>6 DEF PumpNext

-----------------------------------------------------------------------------
(* The events: each new one is the last, about one promise, and the others  *)
(* keep their positions.                                                    *)
EventPairs == {"unhandledrejection", "rejectionhandled"} \X Promise

LEMMA OneMoreEvent ==
    ASSUME PumpTypeOK, NEW type \in {"unhandledrejection", "rejectionhandled"}, NEW p \in Promise,
           events' = Append(events, <<type, p>>)
    PROVE  /\ Len(events) \in Nat
           /\ \A t, q : Fired(t, q) \subseteq 1..Len(events)
           /\ \A t, q : <<t, q>> # <<type, p>> => Fired(t, q)' = Fired(t, q)
           /\ Fired(type, p)' = Fired(type, p) \cup {Len(events) + 1}
<1> DEFINE n == Len(events)
           e == <<type, p>>
<1>1. events \in Seq(EventPairs) /\ e \in EventPairs
    BY DEF PumpTypeOK, EventPairs
<1> HIDE DEF e
<1>2. /\ n \in Nat /\ DOMAIN events = 1..n
      /\ DOMAIN events' = 1..(n + 1)
      /\ \A i \in 1..n : events'[i] = events[i]
      /\ events'[n + 1] = e
    BY <1>1 DEF e
<1> HIDE DEF n
<1>3. \A t, q : Fired(t, q)' = Fired(t, q) \cup (IF <<t, q>> = e THEN {n + 1} ELSE {})
    BY <1>2 DEF Fired
<1>4. \A t, q : Fired(t, q) \subseteq 1..n
    BY <1>2 DEF Fired
<1> QED BY <1>2, <1>3, <1>4 DEF e, n

LEMMA StoryStep == ASSUME PumpInv, EventsTellTheStory, [PumpNext]_pumpVars PROVE EventsTellTheStory'
<1> USE DEF PumpInv
<1>1. SUFFICES ASSUME NEW q \in Promise PROVE StoryOf(q)'
    BY DEF EventsTellTheStory
<1>2. StoryOf(q)
    BY DEF EventsTellTheStory
<1>3. CASE UNCHANGED <<reported, handled, events>>
    BY <1>2, <1>3 DEF StoryOf, Fired
<1>4. CASE \E p \in Promise : Handle(p)
  <2>1. PICK p \in Promise : Handle(p)
      BY <1>4
  <2>2. CASE p \in rejected /\ p \in reported
    <3>1. /\ events' = Append(events, <<"rejectionhandled", p>>)
          /\ reported' = reported \ {p} /\ handled' = handled \cup {p} /\ p \notin handled
        BY <2>1, <2>2 DEF Handle, NowHandled
    <3>2. /\ Len(events) \in Nat
          /\ \A t, r : Fired(t, r) \subseteq 1..Len(events)
          /\ \A t, r : <<t, r>> # <<"rejectionhandled", p>> => Fired(t, r)' = Fired(t, r)
          /\ Fired("rejectionhandled", p)' = Fired("rejectionhandled", p) \cup {Len(events) + 1}
        BY <3>1, OneMoreEvent
    <3>3. Fired("unhandledrejection", q)' = Fired("unhandledrejection", q)
        BY <3>2
    <3>4. CASE q = p
      <4>1. Fired("rejectionhandled", p) = {}
          BY <1>2, <3>1, <3>4 DEF StoryOf
      <4>2. Fired("rejectionhandled", p)' = {Len(events) + 1}
          BY <3>2, <4>1
      <4>3. \A i \in Fired("unhandledrejection", p) : i < Len(events) + 1
          BY <3>2
      <4> QED BY <1>2, <2>2, <3>1, <3>3, <3>4, <4>2, <4>3 DEF StoryOf
    <3>5. CASE q # p
      <4>1. Fired("rejectionhandled", q)' = Fired("rejectionhandled", q)
          BY <3>2, <3>5
      <4> QED BY <1>2, <3>1, <3>3, <3>5, <4>1 DEF StoryOf
    <3> QED BY <3>4, <3>5
  <2>3. CASE p \in rejected /\ p \notin reported
    <3>1. /\ events' = events /\ reported' = reported /\ handled' = handled \cup {p}
        BY <2>1, <2>3 DEF Handle, NowHandled
    <3> QED BY <1>2, <3>1 DEF StoryOf, Fired
  <2>4. CASE p \notin rejected
    <3>1. /\ events' = events /\ reported' = reported /\ handled' = handled \cup {p}
        BY <2>1, <2>4 DEF Handle
    <3> QED BY <1>2, <3>1 DEF StoryOf, Fired
  <2> QED BY <2>2, <2>3, <2>4
<1>5. CASE ReportOne
  <2>1. PICK h \in Promise :
            /\ h \in ToSet(pending)
            /\ events' = Append(events, <<"unhandledrejection", h>>)
            /\ reported' = reported \cup {h} /\ handled' = handled
    <3>1. Head(pending) \in ToSet(pending)
        BY <1>5, TailOfList DEF PumpTypeOK, ReportOne
    <3>2. Head(pending) \in Promise
        BY <3>1 DEF EachOnOneList, Unhandled, Waiting, PumpTypeOK
    <3> QED BY <1>5, <3>1, <3>2 DEF ReportOne
  <2>2. h \notin handled /\ h \notin reported
      BY <2>1 DEF EachOnOneList, Unhandled, Waiting, PumpTypeOK
  <2>3. /\ Len(events) \in Nat
        /\ \A t, r : Fired(t, r) \subseteq 1..Len(events)
        /\ \A t, r : <<t, r>> # <<"unhandledrejection", h>> => Fired(t, r)' = Fired(t, r)
        /\ Fired("unhandledrejection", h)' = Fired("unhandledrejection", h) \cup {Len(events) + 1}
      BY <2>1, OneMoreEvent
  <2>4. Fired("rejectionhandled", q)' = Fired("rejectionhandled", q)
      BY <2>3
  <2>5. CASE q = h
    <3>1. Fired("rejectionhandled", q) = {} /\ Fired("unhandledrejection", q) = {}
        BY <1>2, <2>2, <2>5 DEF StoryOf
    <3>2. Fired("unhandledrejection", q)' = {Len(events) + 1}
        BY <2>3, <2>5, <3>1
    <3> QED BY <2>1, <2>4, <2>5, <3>1, <3>2 DEF StoryOf
  <2>6. CASE q # h
    <3>1. Fired("unhandledrejection", q)' = Fired("unhandledrejection", q)
        BY <2>3, <2>6
    <3> QED BY <1>2, <2>1, <2>4, <2>6, <3>1 DEF StoryOf
  <2> QED BY <2>5, <2>6
<1>6. \/ UNCHANGED <<reported, handled, events>>
      \/ \E p \in Promise : Handle(p)
      \/ ReportOne
    BY DEF PumpNext, Reject, EnqueueJob, OpenHandle, ModuleSettles, ModuleReturns, ScriptReturns,
        RunJob, JobReturns, JobThrows, AwaitEnds, AwaitPolls, AwaitPolled, StdEnds, DrainEnds,
        FlushEnds, Callback, Polled, pumpVars, scriptVars
<1> QED BY <1>3, <1>4, <1>5, <1>6

(* The model's variables keep their types.                                  *)
THEOREM PumpTypeCorrect == PumpSpec => []PumpTypeOK
<1>1. PumpInv => PumpTypeOK
    BY DEF PumpInv
<1> QED BY PumpStarts, PumpStep, <1>1, PTL DEF PumpSpec

(* A rejection nothing handles is on exactly one of pendingRejections and   *)
(* reportedRejections (bootstrap.js), whatever the order of rejecting,      *)
(* handling and reporting.                                                  *)
THEOREM NoRejectionLost == PumpSpec => []EachOnOneList
<1>1. PumpInv => EachOnOneList
    BY DEF PumpInv
<1> QED BY PumpStarts, PumpStep, <1>1, PTL DEF PumpSpec

(* Both with the types, for any promises, jobs and handles.                 *)
THEOREM ListsAreKept == PumpSpec => []RejectionsKept
<1>1. PumpTypeOK /\ EachOnOneList => RejectionsKept
  BY DEF RejectionsKept
<1> QED BY <1>1, PumpTypeCorrect, NoRejectionLost, PTL

(* What a program hears of a promise: unhandledrejection at most once,      *)
(* rejectionhandled at most once and only after it, and that just when it   *)
(* was handled after the report.                                            *)
THEOREM EventsAreTold == PumpSpec => []EventsTellTheStory
<1>1. PumpInit => EventsTellTheStory
    BY DEF PumpInit, EventsTellTheStory, StoryOf, Fired
<1>2. PumpInv /\ EventsTellTheStory /\ [PumpNext]_pumpVars => EventsTellTheStory'
    BY StoryStep
<1> QED BY PumpStarts, PumpStep, <1>1, <1>2, PTL DEF PumpSpec

(* sxn_rejections_pending is up, or the flush is under way, whenever a      *)
(* rejection waits to be reported.                                          *)
THEOREM FlagNeverHides == PumpSpec => []FlagCoversPending
<1>1. PumpInv => FlagCoversPending
    BY DEF PumpInv
<1> QED BY PumpStarts, PumpStep, <1>1, PTL DEF PumpSpec

(* sxn_runtime_tick never goes to wait for the loop with a rejection it has *)
(* not reported.                                                            *)
THEOREM TickReportsFirst == PumpSpec => ReportsBeforeWaiting
<1>1. PumpInv /\ [PumpNext]_pumpVars => [stage # "poll" /\ stage' = "poll" => pending' = <<>>]_pumpVars
  <2> SUFFICES ASSUME PumpInv, PumpNext, stage # "poll", stage' = "poll"
               PROVE  pending' = <<>>
      OBVIOUS
  <2>1. DrainEnds \/ FlushEnds
      BY DEF PumpNext, Reject, Handle, EnqueueJob, OpenHandle, ModuleSettles, ModuleReturns,
          ScriptReturns, RunJob, JobReturns, JobThrows, AwaitEnds, AwaitPolls, AwaitPolled,
          StdEnds, ReportOne, Callback, Polled, scriptVars
  <2>2. CASE DrainEnds
      BY <2>2 DEF DrainEnds, PumpInv, FlagCoversPending
  <2>3. CASE FlushEnds
      BY <2>3 DEF FlushEnds, scriptVars
  <2> QED BY <2>1, <2>2, <2>3
<1> QED BY PumpStarts, PumpStep, <1>1, PTL DEF PumpSpec, ReportsBeforeWaiting

-----------------------------------------------------------------------------
(* Sxn.serve.                                                              *)
Ways == {"none", "handler", "promise", "write"}
Lives == {"absent", "open", "closing", "freed"}

Shape ==
    /\ answering \in [Conn -> Ways] /\ uv \in [Conn -> Lives]
    /\ listed \subseteq Conn /\ reading \subseteq Conn

(* A connection that is not open and still has a reply to come was cut.    *)
CutOK ==
    /\ \A c \in Conn : uv[c] # "open" /\ answering[c] # "none" => c \in cut
    /\ server = "listening" => cut = {}

IInv == Shape /\ CutOK /\ OneDriver /\ StopReachesAll /\ OnlyStopCuts

LEMMA Starts == ServeInit => IInv
BY DEF ServeInit, IInv, Shape, CutOK, OneDriver, StopReachesAll, OnlyStopCuts, Ways, Lives

-----------------------------------------------------------------------------
(* What a dispatch does to a connection that was idle or has just been     *)
(* answered: it reads on, or waits for a handler or a write.               *)
LEMMA Dispatched ==
    ASSUME Shape, NEW c \in Conn, NEW open, TryDispatch(c, open)
    PROVE  /\ \/ reading' = open /\ answering' = [answering EXCEPT ![c] = "none"]
              \/ /\ reading' = open \ {c}
                 /\ \/ answering' = [answering EXCEPT ![c] = "handler"]
                    \/ uv[c] = "open" /\ answering' = [answering EXCEPT ![c] = "write"]
                    \/ uv[c] # "open" /\ answering' = [answering EXCEPT ![c] = "none"]
           /\ ~Oversize(c) /\ Complete(c) = {} => answering' = [answering EXCEPT ![c] = "none"]
BY DEF TryDispatch, ReadStopped, Deliver, Answers

(* What a reply does: it is being written, or the handle refuses it.       *)
LEMMA Delivered ==
    ASSUME NEW c \in Conn, NEW r, NEW how, Deliver(c, r, how)
    PROVE  \/ uv[c] = "open" /\ answering' = [answering EXCEPT ![c] = "write"]
           \/ uv[c] # "open" /\ answering' = [answering EXCEPT ![c] = "none"]
BY DEF Deliver, Answers

-----------------------------------------------------------------------------
LEMMA AcceptStep == ASSUME IInv, NEW c \in Conn, Accept(c) PROVE IInv'
BY DEF IInv, Shape, CutOK, OneDriver, StopReachesAll, OnlyStopCuts, Accept, FromLoop, Ways, Lives

LEMMA ReadDataStep == ASSUME IInv, NEW c \in Conn, ReadData(c) PROVE IInv'
<1>1. Shape /\ TryDispatch(c, reading) /\ c \in reading /\ uv[c] = "open" /\ fault = "none"
    BY DEF IInv, ReadData, FromLoop
<1>2. UNCHANGED <<server, listed, uv, gone, cut, fault>>
    BY DEF ReadData
<1>3. \/ reading' = reading /\ answering' = [answering EXCEPT ![c] = "none"]
      \/ /\ reading' = reading \ {c}
         /\ \/ answering' = [answering EXCEPT ![c] = "handler"]
            \/ answering' = [answering EXCEPT ![c] = "write"]
    BY <1>1, Dispatched
<1> QED BY <1>1, <1>2, <1>3 DEF IInv, Shape, CutOK, OneDriver, StopReachesAll, OnlyStopCuts, Ways, Lives

LEMMA ReadEndStep == ASSUME IInv, NEW c \in Conn, ReadEnd(c) PROVE IInv'
BY DEF IInv, Shape, CutOK, OneDriver, StopReachesAll, OnlyStopCuts, ReadEnd, FromLoop, Shutdown, NoFault,
    Ways, Lives

(* A write is done: the connection goes, reads on, or its next request is  *)
(* dispatched.  Only one that stop() cut is not open here.                 *)
LEMMA WriteDoneStep == ASSUME IInv, NEW c \in Conn, WriteDone(c) PROVE IInv'
<1>1. answering[c] = "write" /\ fault = "none" /\ UNCHANGED <<server, cut>>
    BY DEF WriteDone, FromLoop
<1>2. uv[c] # "open" => c \in cut
    BY <1>1 DEF IInv, CutOK
<1>3. CASE /\ Shutdown(c)
           /\ answering' = [answering EXCEPT ![c] = "none"]
           /\ UNCHANGED reading
    BY <1>1, <1>2, <1>3 DEF IInv, Shape, CutOK, OneDriver, StopReachesAll, OnlyStopCuts, Shutdown, NoFault, Ways, Lives
<1>4. CASE /\ reading' = Restarted(c)
           /\ answering' = [answering EXCEPT ![c] = "none"]
           /\ UNCHANGED <<listed, uv, fault>>
    BY <1>1, <1>2, <1>4 DEF IInv, Shape, CutOK, OneDriver, StopReachesAll, OnlyStopCuts, Restarted, Ways, Lives
<1>5. CASE /\ c \in listed \/ (~Oversize(c) /\ Complete(c) = {})
           /\ TryDispatch(c, Restarted(c)) /\ NoFault
           /\ UNCHANGED <<listed, uv>>
    <2>1. \/ reading' = Restarted(c) /\ answering' = [answering EXCEPT ![c] = "none"]
          \/ /\ reading' = Restarted(c) \ {c}
             /\ \/ answering' = [answering EXCEPT ![c] = "handler"]
                \/ uv[c] = "open" /\ answering' = [answering EXCEPT ![c] = "write"]
                \/ uv[c] # "open" /\ answering' = [answering EXCEPT ![c] = "none"]
        BY <1>5, Dispatched DEF IInv
    <2>2. uv[c] # "open" => answering' = [answering EXCEPT ![c] = "none"]
        BY <1>5, Dispatched DEF IInv, StopReachesAll
    <2> QED BY <1>1, <1>2, <1>5, <2>1, <2>2
        DEF IInv, Shape, CutOK, OneDriver, StopReachesAll, OnlyStopCuts, Restarted, NoFault, Ways, Lives
<1>6. CASE /\ c \notin listed /\ fault' = "null_server"
           /\ UNCHANGED <<reading, answering, listed, uv>>
    BY <1>1, <1>2, <1>6 DEF IInv, Shape, CutOK, OneDriver, StopReachesAll, OnlyStopCuts, Ways, Lives
<1> QED BY <1>3, <1>4, <1>5, <1>6 DEF WriteDone

LEMMA CloseDoneStep == ASSUME IInv, NEW c \in Conn, CloseDone(c) PROVE IInv'
BY DEF IInv, Shape, CutOK, OneDriver, StopReachesAll, OnlyStopCuts, CloseDone, FromLoop, Ways, Lives

LEMMA HandlerReturnsStep == ASSUME IInv, NEW c \in Conn, HandlerReturns(c) PROVE IInv'
<1>1. answering[c] = "handler" /\ UNCHANGED <<server, listed, uv, reading, cut, fault>>
    BY DEF HandlerReturns
<1>2. \/ answering' = [answering EXCEPT ![c] = "promise"]
      \/ uv[c] = "open" /\ answering' = [answering EXCEPT ![c] = "write"]
      \/ uv[c] # "open" /\ answering' = [answering EXCEPT ![c] = "none"]
    BY Delivered DEF HandlerReturns
<1> QED BY <1>1, <1>2 DEF IInv, Shape, CutOK, OneDriver, StopReachesAll, OnlyStopCuts, Ways, Lives

LEMMA SettleStep == ASSUME IInv, NEW c \in Conn, Settle(c) PROVE IInv'
<1>1. answering[c] = "promise" /\ fault = "none" /\ UNCHANGED <<server, listed, uv, reading, cut>>
    BY DEF Settle, FromLoop
<1>2. \/ uv[c] = "freed" /\ fault' = "use_after_free" /\ UNCHANGED answering
      \/ uv[c] = "open" /\ answering' = [answering EXCEPT ![c] = "write"] /\ UNCHANGED fault
      \/ uv[c] # "open" /\ answering' = [answering EXCEPT ![c] = "none"] /\ UNCHANGED fault
    BY Delivered DEF Settle, NoFault
<1> QED BY <1>1, <1>2 DEF IInv, Shape, CutOK, OneDriver, StopReachesAll, OnlyStopCuts, Ways, Lives

LEMMA StopStep == ASSUME IInv, Stop PROVE IInv'
BY DEF IInv, Shape, CutOK, OneDriver, StopReachesAll, OnlyStopCuts, Stop, NoFault, Ways, Lives

LEMMA OtherSteps ==
    ASSUME IInv, ServerClosed \/ (\E c \in Conn : ClientLeaves(c)) \/ UNCHANGED serveVars
    PROVE  IInv'
BY DEF IInv, Shape, CutOK, OneDriver, StopReachesAll, OnlyStopCuts, ServerClosed, ClientLeaves, serveVars

LEMMA StepKeeps == IInv /\ [ServeNext]_serveVars => IInv'
<1> SUFFICES ASSUME IInv, [ServeNext]_serveVars PROVE IInv'
    OBVIOUS
<1> QED BY AcceptStep, ReadDataStep, ReadEndStep, WriteDoneStep, CloseDoneStep, HandlerReturnsStep,
    SettleStep, StopStep, OtherSteps DEF ServeNext

-----------------------------------------------------------------------------
THEOREM Invariant == ServeSpec => []IInv
<1> QED BY Starts, StepKeeps, PTL DEF ServeSpec

(* An open connection is reading or is being answered, and never both, for *)
(* any connections, requests and limits (network.c:859-924, 483-499).      *)
THEOREM OneDriverAlways == ServeSpec => []OneDriver
<1>1. IInv => OneDriver
    BY DEF IInv
<1> QED BY <1>1, Invariant, PTL

(* The server's list is its open connections, stop() empties it, and what  *)
(* is used after it is closed was being answered when stop() ran           *)
(* (network.c:431-499, 972-984).                                           *)
THEOREM StopTakesEverything == ServeSpec => []StopTakesAll
<1>1. IInv => StopTakesAll
    BY DEF IInv, StopTakesAll
<1> QED BY <1>1, Invariant, PTL

-----------------------------------------------------------------------------
(* The replies.  A connection's data is in fields of its own, so that a     *)
(* step of another connection leaves all of it alone; what is told of one   *)
(* connection says where in its client's requests it is.                    *)

Maps ==
    /\ received \in [Conn -> Nat] /\ base \in [Conn -> Nat] /\ consumed \in [Conn -> Nat]
    /\ request \in [Conn -> Nat]
    /\ replies \in [Conn -> Seq(Nat \X How)]
    /\ keep_alive \subseteq Conn /\ gone \subseteq Conn /\ cut \subseteq Conn
    /\ server \in {"listening", "closing", "closed"}
    /\ fault \in {"none", "double_close", "use_after_free", "null_server"}

Ranges(c) ==
    /\ base[c] <= received[c] /\ received[c] <= Total(c)
    /\ consumed[c] <= Total(c)
    /\ request[c] \in Request(c) \cup {0}

AtBoundary(c) == \E n \in 0..Len(Ends[c]) : base[c] = Offset(c, n)

Story(c) ==
    \A i \in DOMAIN replies[c] :
        /\ replies[c][i][1] \in Request(c) \cup {0}
        /\ replies[c][i][2] # "refused" => replies[c][i][1] = i
        /\ replies[c][i][2] # "value" => i = Len(replies[c])

(* The request being answered is at the front of the buffer, whole.         *)
Held(c) ==
    /\ request[c] \in Request(c)
    /\ base[c] = Start(c, request[c])
    /\ base[c] + consumed[c] = End(c, request[c])
    /\ End(c, request[c]) <= received[c]

(* The first n replies were values, to requests 1 to n.                     *)
Plain(c, n) == \A i \in 1..n : replies[c][i] = <<i, "value">>

(* Where an open connection is: between two requests, in one, or writing    *)
(* the reply to one.                                                        *)
Place(c) ==
    LET n == Len(replies[c])
        open == uv[c] \in {"absent", "open"}
    IN  /\ answering[c] \in {"handler", "promise"} => Held(c)
        /\ answering[c] = "write" /\ c \in keep_alive => Held(c)
        /\ open /\ answering[c] = "none" =>
               Plain(c, n) /\ n <= Len(Ends[c]) /\ base[c] = Offset(c, n)
        /\ open /\ answering[c] \in {"handler", "promise"} =>
               Plain(c, n) /\ request[c] = n + 1
        /\ open /\ answering[c] = "write" =>
               /\ n > 0 /\ Plain(c, n - 1)
               /\ c \in keep_alive => request[c] = n /\ replies[c][n] = <<n, "value">>

ConnOK(c) == Ranges(c) /\ AtBoundary(c) /\ Story(c) /\ (fault = "none" => Place(c))
RInv == Maps /\ \A c \in Conn : ConnOK(c)

LEMMA Requests ==
    ASSUME NEW c \in Conn
    PROVE  /\ Len(Ends[c]) \in Nat
           /\ \A r \in Request(c) : Ends[c][r] \in Nat /\ Ends[c][r] > 0
           /\ \A q, r \in Request(c) : q < r => Ends[c][q] < Ends[c][r]
<1> DEFINE e == Ends[c]
<1>1. e \in Seq(Nat \ {0})
    BY EndsAssumption
<1>2. \A q, r \in DOMAIN e : q < r => e[q] < e[r]
    BY EndsAssumption
<1> HIDE DEF e
<1>3. /\ DOMAIN e = 1..Len(e) /\ Len(e) \in Nat
      /\ \A r \in 1..Len(e) : e[r] \in Nat \ {0}
    BY <1>1
<1>4. /\ Len(e) \in Nat
      /\ \A r \in 1..Len(e) : e[r] \in Nat /\ e[r] > 0
      /\ \A q, r \in 1..Len(e) : q < r => e[q] < e[r]
    BY <1>2, <1>3
<1> QED BY <1>4 DEF Request, e

LEMMA Offsets ==
    ASSUME NEW c \in Conn
    PROVE  /\ \A n \in 0..Len(Ends[c]) : Offset(c, n) \in Nat
           /\ \A m, n \in 0..Len(Ends[c]) : Offset(c, m) = Offset(c, n) => m = n
           /\ Total(c) \in Nat
<1>1. \A n \in 0..Len(Ends[c]) : n = 0 \/ n \in Request(c)
    BY Requests DEF Request
<1>2. \A n \in 0..Len(Ends[c]) : Offset(c, n) \in Nat
    BY <1>1, Requests DEF Offset
<1>3. \A m, n \in 0..Len(Ends[c]) : m < n => Offset(c, m) < Offset(c, n)
    BY <1>1, Requests DEF Offset
<1>4. \A m, n \in 0..Len(Ends[c]) : m < n \/ n < m \/ m = n
    BY Requests
<1>5. \A m, n \in 0..Len(Ends[c]) : Offset(c, m) = Offset(c, n) => m = n
    BY <1>2, <1>3, <1>4
<1>6. Total(c) \in Nat
    BY <1>2, Requests DEF Total
<1> QED BY <1>2, <1>5, <1>6

(* One more reply.                                                          *)
LEMMA OneMoreReply ==
    ASSUME NEW s \in Seq(Nat \X How), NEW e \in Nat \X How
    PROVE  /\ s \o <<e>> \in Seq(Nat \X How)
           /\ Len(s) \in Nat /\ DOMAIN s = 1..Len(s)
           /\ DOMAIN (s \o <<e>>) = 1..(Len(s) + 1)
           /\ Len(s \o <<e>>) = Len(s) + 1
           /\ \A i \in 1..Len(s) : (s \o <<e>>)[i] = s[i]
           /\ (s \o <<e>>)[Len(s) + 1] = e
<1> DEFINE S == Nat \X How
<1> HIDE DEF S
<1>1. s \in Seq(S) /\ e \in S
    BY DEF S
<1>2. s \o <<e>> = Append(s, e)
    BY <1>1
<1>3. /\ Append(s, e) \in Seq(S)
      /\ Len(s) \in Nat /\ DOMAIN s = 1..Len(s)
      /\ DOMAIN Append(s, e) = 1..(Len(s) + 1)
      /\ Len(Append(s, e)) = Len(s) + 1
      /\ \A i \in 1..Len(s) : Append(s, e)[i] = s[i]
      /\ Append(s, e)[Len(s) + 1] = e
    BY <1>1
<1> QED BY <1>2, <1>3 DEF S

LEMMA Untouched ==
    ASSUME NEW d \in Conn, ConnOK(d), fault' = "none" => fault = "none",
           uv'[d] = uv[d], answering'[d] = answering[d], d \in keep_alive' <=> d \in keep_alive,
           base'[d] = base[d], received'[d] = received[d], consumed'[d] = consumed[d],
           request'[d] = request[d], replies'[d] = replies[d]
    PROVE  ConnOK(d)'
BY DEF ConnOK, Ranges, AtBoundary, Story, Place, Held, Plain

(* A reply of a connection: one more, or the handle refuses it.             *)
LEMMA Replied ==
    ASSUME Shape, Maps, NEW c \in Conn, NEW r \in Nat, NEW how \in How, Deliver(c, r, how)
    PROVE  /\ replies' \in [Conn -> Seq(Nat \X How)]
           /\ Len(replies[c]) \in Nat /\ DOMAIN replies[c] = 1..Len(replies[c])
           /\ \A d \in Conn : d # c => replies'[d] = replies[d] /\ answering'[d] = answering[d]
           /\ uv[c] # "open" => answering'[c] = "none" /\ replies'[c] = replies[c]
           /\ uv[c] = "open" =>
                /\ answering'[c] = "write"
                /\ DOMAIN replies'[c] = 1..(Len(replies[c]) + 1)
                /\ Len(replies'[c]) = Len(replies[c]) + 1
                /\ \A i \in 1..Len(replies[c]) : replies'[c][i] = replies[c][i]
                /\ replies'[c][Len(replies[c]) + 1] = <<r, how>>
<1> DEFINE S == Seq(Nat \X How)
<1>1. replies \in [Conn -> S] /\ answering \in [Conn -> Ways] /\ replies[c] \in Seq(Nat \X How)
    BY DEF Maps, Shape
<1>2. /\ replies[c] \o << <<r, how>> >> \in Seq(Nat \X How)
      /\ Len(replies[c]) \in Nat /\ DOMAIN replies[c] = 1..Len(replies[c])
      /\ DOMAIN (replies[c] \o << <<r, how>> >>) = 1..(Len(replies[c]) + 1)
      /\ Len(replies[c] \o << <<r, how>> >>) = Len(replies[c]) + 1
      /\ \A i \in 1..Len(replies[c]) : (replies[c] \o << <<r, how>> >>)[i] = replies[c][i]
      /\ (replies[c] \o << <<r, how>> >>)[Len(replies[c]) + 1] = <<r, how>>
  <2>1. <<r, how>> \in Nat \X How
      OBVIOUS
  <2> QED BY <1>1, <2>1, OneMoreReply
<1>3. CASE uv[c] = "open"
  <2> DEFINE t == replies[c] \o << <<r, how>> >>
  <2>1. replies' = [replies EXCEPT ![c] = t] /\ answering' = [answering EXCEPT ![c] = "write"]
      BY <1>3 DEF Deliver, Answers
  <2>2. t \in S
      BY <1>2
  <2>3. replies'[c] = t
      BY <1>1, <2>1
  <2> HIDE DEF S, t
  <2>4. replies' \in [Conn -> S]
      BY <1>1, <2>1, <2>2
  <2>5. \A d \in Conn : d # c => replies'[d] = replies[d] /\ answering'[d] = answering[d]
      BY <1>1, <2>1
  <2>6. answering'[c] = "write"
      BY <1>1, <2>1
  <2> QED BY <1>2, <1>3, <2>3, <2>4, <2>5, <2>6 DEF S, t
<1>4. CASE uv[c] # "open"
  <2>1. replies' = replies /\ answering' = [answering EXCEPT ![c] = "none"]
      BY <1>4 DEF Deliver, Answers
  <2> QED BY <1>1, <1>2, <1>4, <2>1
<1> QED BY <1>3, <1>4

(* A reply to the next request, or the refusal of what follows, told after  *)
(* replies that were all values.                                            *)
LEMMA RepliedInOrder ==
    ASSUME Shape, Maps, NEW c \in Conn, NEW r \in Request(c) \cup {0}, NEW how \in How,
           Deliver(c, r, how), Story(c),
           uv[c] = "open" => /\ Plain(c, Len(replies[c]))
                             /\ how # "refused" => r = Len(replies[c]) + 1
    PROVE  Story(c)'
<1>1. r \in Nat
    BY Requests DEF Request
<1>2. /\ Len(replies[c]) \in Nat /\ DOMAIN replies[c] = 1..Len(replies[c])
      /\ uv[c] # "open" => replies'[c] = replies[c]
      /\ uv[c] = "open" =>
           /\ DOMAIN replies'[c] = 1..(Len(replies[c]) + 1)
           /\ Len(replies'[c]) = Len(replies[c]) + 1
           /\ \A i \in 1..Len(replies[c]) : replies'[c][i] = replies[c][i]
           /\ replies'[c][Len(replies[c]) + 1] = <<r, how>>
    BY <1>1, Replied
<1>3. CASE uv[c] # "open"
    BY <1>2, <1>3 DEF Story
<1>4. CASE uv[c] = "open"
  <2> DEFINE n == Len(replies[c])
  <2>1. \A i \in 1..n : replies'[c][i] = <<i, "value">> /\ replies'[c][i][1] \in Request(c) \cup {0}
      BY <1>2, <1>4 DEF Plain, Story
  <2>2. replies'[c][n + 1] = <<r, how>> /\ (how # "refused" => r = n + 1)
      BY <1>2, <1>4
  <2>3. DOMAIN replies'[c] = 1..(n + 1) /\ Len(replies'[c]) = n + 1 /\ n \in Nat
      BY <1>2, <1>4
  <2>4. Request(c)' = Request(c)
      BY DEF Request
  <2> HIDE DEF n
  <2>5. ASSUME NEW i \in 1..(n + 1)
        PROVE  /\ replies'[c][i][1] \in Request(c) \cup {0}
               /\ replies'[c][i][2] # "refused" => replies'[c][i][1] = i
               /\ replies'[c][i][2] # "value" => i = n + 1
    <3>1. CASE i \in 1..n
        BY <2>1, <3>1
    <3>2. CASE i = n + 1
        BY <2>2, <3>2
    <3> QED BY <2>3, <3>1, <3>2
  <2> QED BY <2>3, <2>4, <2>5 DEF Story
<1> QED BY <1>3, <1>4

(* What the places say with the next state's values: an open connection     *)
(* just answered has one reply more.                                        *)
LEMMA RepliedPlace ==
    ASSUME Shape, Maps, NEW c \in Conn, NEW r \in Request(c) \cup {0}, NEW how \in How,
           Deliver(c, r, how), uv' = uv,
           uv[c] = "absent" => Plain(c, Len(replies[c])) /\ Len(replies[c]) <= Len(Ends[c])
                                /\ base'[c] = Offset(c, Len(replies[c])),
           uv[c] = "open" => Plain(c, Len(replies[c])),
           uv[c] = "open" /\ c \in keep_alive' =>
                how = "value" /\ r = Len(replies[c]) + 1 /\ request'[c] = r /\ Held(c)'
    PROVE  Place(c)'
<1>1. r \in Nat
    BY Requests DEF Request
<1>2. /\ Len(replies[c]) \in Nat
      /\ uv[c] # "open" => answering'[c] = "none" /\ replies'[c] = replies[c]
      /\ uv[c] = "open" =>
           /\ answering'[c] = "write"
           /\ Len(replies'[c]) = Len(replies[c]) + 1
           /\ \A i \in 1..Len(replies[c]) : replies'[c][i] = replies[c][i]
           /\ replies'[c][Len(replies[c]) + 1] = <<r, how>>
    BY <1>1, Replied
<1>3. CASE uv[c] # "open"
    BY <1>2, <1>3 DEF Place, Plain, Offset
<1>4. CASE uv[c] = "open"
  <2> DEFINE n == Len(replies[c])
  <2>1. /\ n \in Nat /\ Len(replies'[c]) = n + 1 /\ answering'[c] = "write" /\ uv'[c] = "open"
        /\ \A i \in 1..n : replies'[c][i] = <<i, "value">>
        /\ replies'[c][n + 1] = <<r, how>>
      BY <1>2, <1>4 DEF Plain
  <2>2. c \in keep_alive' => request'[c] = n + 1 /\ r = n + 1 /\ how = "value" /\ Held(c)'
      BY <1>4
  <2> HIDE DEF n
  <2>3. (n + 1) - 1 = n /\ n + 1 > 0
      BY <2>1
  <2> QED BY <2>1, <2>2, <2>3 DEF Place, Plain
<1> QED BY <1>3, <1>4

(* conn_try_dispatch keeps every promise, at the place it is called from:   *)
(* the buffer begins where the replies end.                                 *)
LEMMA DispatchOK ==
    ASSUME Shape, Maps, NEW c \in Conn, NEW open, TryDispatch(c, open), uv' = uv,
           base' \in [Conn -> Nat], received' \in [Conn -> Nat],
           base'[c] <= received'[c], received'[c] <= Total(c), AtBoundary(c)',
           consumed[c] <= Total(c), request[c] \in Request(c) \cup {0}, Story(c),
           uv[c] \in {"absent", "open"} =>
                Plain(c, Len(replies[c])) /\ Len(replies[c]) <= Len(Ends[c])
                /\ base'[c] = Offset(c, Len(replies[c]))
    PROVE  /\ Ranges(c)' /\ AtBoundary(c)' /\ Story(c)' /\ Place(c)'
           /\ consumed' \in [Conn -> Nat] /\ request' \in [Conn -> Nat]
           /\ replies' \in [Conn -> Seq(Nat \X How)] /\ keep_alive' \subseteq Conn
           /\ \A d \in Conn : d # c =>
                /\ answering'[d] = answering[d] /\ (d \in keep_alive' <=> d \in keep_alive)
                /\ consumed'[d] = consumed[d] /\ request'[d] = request[d]
                /\ replies'[d] = replies[d]
<1> DEFINE n == Len(replies[c])
<1>0. /\ consumed \in [Conn -> Nat] /\ request \in [Conn -> Nat] /\ keep_alive \subseteq Conn
      /\ replies \in [Conn -> Seq(Nat \X How)] /\ answering \in [Conn -> Ways]
      /\ n \in Nat
  <2>1. replies[c] \in Seq(Nat \X How)
      BY DEF Maps
  <2> QED BY <2>1 DEF Maps, Shape
<1>1. CASE /\ keep_alive' = KeptWithout(c)
           /\ request' = [request EXCEPT ![c] = 0]
           /\ Deliver(c, 0, "refused")
           /\ UNCHANGED consumed
  <2>1. /\ replies' \in [Conn -> Seq(Nat \X How)]
        /\ \A d \in Conn : d # c => replies'[d] = replies[d] /\ answering'[d] = answering[d]
      BY <1>1, Replied DEF How
  <2>2. Story(c)'
      BY <1>1, RepliedInOrder DEF How
  <2>3. Place(c)'
      BY <1>1, RepliedPlace DEF How, KeptWithout
  <2>4. /\ request' \in [Conn -> Nat] /\ request'[c] = 0
        /\ \A d \in Conn : d # c => request'[d] = request[d]
      BY <1>0, <1>1
  <2>5. /\ keep_alive' \subseteq Conn /\ \A d \in Conn : d # c => (d \in keep_alive' <=> d \in keep_alive)
      BY <1>0, <1>1 DEF KeptWithout
  <2>6. Ranges(c)'
      BY <1>1, <2>4 DEF Ranges, Total, Offset, Request
  <2> QED BY <1>0, <1>1, <2>1, <2>2, <2>3, <2>4, <2>5, <2>6
<1>2. CASE /\ answering' = [answering EXCEPT ![c] = "none"]
           /\ UNCHANGED <<keep_alive, consumed, request, replies>>
  <2>1. answering'[c] = "none" /\ \A d \in Conn : d # c => answering'[d] = answering[d]
      BY <1>0, <1>2
  <2>2. Story(c)' /\ Ranges(c)'
      BY <1>2 DEF Story, Ranges, Total, Offset, Request
  <2>3. Place(c)'
      BY <1>2, <2>1 DEF Place, Plain, Offset
  <2> QED BY <1>0, <1>2, <2>1, <2>2, <2>3
<1>3. CASE /\ \E r \in Complete(c) :
                /\ request' = [request EXCEPT ![c] = r]
                /\ consumed' = [consumed EXCEPT ![c] = End(c, r) - Start(c, r)]
           /\ \E keep \in BOOLEAN :
                keep_alive' = IF keep THEN keep_alive \cup {c} ELSE keep_alive \ {c}
           /\ answering' = [answering EXCEPT ![c] = "handler"]
           /\ UNCHANGED replies
  <2>1. PICK r \in Complete(c) : /\ request' = [request EXCEPT ![c] = r]
                                 /\ consumed' = [consumed EXCEPT ![c] = End(c, r) - Start(c, r)]
      BY <1>3
  <2>2. r \in Request(c) /\ Start(c, r) = base'[c] /\ End(c, r) <= received'[c]
      BY DEF Complete
  <2>3. /\ r \in 0..Len(Ends[c]) /\ r - 1 \in 0..Len(Ends[c]) /\ r \in Nat /\ r > 0
        /\ Start(c, r) = Offset(c, r - 1) /\ End(c, r) = Offset(c, r)
      BY <2>2, Requests DEF Request, Start, End
  <2>4. /\ Start(c, r) \in Nat /\ End(c, r) \in Nat /\ Start(c, r) < End(c, r)
    <3>1. Start(c, r) \in Nat /\ End(c, r) \in Nat
        BY <2>3, Offsets
    <3>2. r = 1 \/ r - 1 \in Request(c)
        BY <2>3 DEF Request
    <3> QED BY <3>1, <3>2, <2>2, <2>3, Requests DEF Offset
  <2>5. /\ request' \in [Conn -> Nat] /\ request'[c] = r
        /\ \A d \in Conn : d # c => request'[d] = request[d]
      BY <1>0, <2>1, <2>3
  <2>6. /\ consumed' \in [Conn -> Nat] /\ consumed'[c] = End(c, r) - Start(c, r)
        /\ \A d \in Conn : d # c => consumed'[d] = consumed[d]
    <3>1. End(c, r) - Start(c, r) \in Nat
        BY <2>4
    <3> QED BY <1>0, <2>1, <3>1
  <2>7. /\ keep_alive' \subseteq Conn /\ \A d \in Conn : d # c => (d \in keep_alive' <=> d \in keep_alive)
      BY <1>0, <1>3
  <2>8. answering'[c] = "handler" /\ \A d \in Conn : d # c => answering'[d] = answering[d]
      BY <1>0, <1>3
  <2>9. Held(c)'
    <3>1. base'[c] + consumed'[c] = End(c, r)
        BY <2>2, <2>4, <2>6
    <3> QED BY <2>2, <2>5, <3>1 DEF Held, Request, Start, End, Offset
  <2>10. Ranges(c)'
    <3>1. consumed'[c] <= Total(c)
        BY <2>2, <2>4, <2>6, Offsets
    <3> QED BY <2>2, <2>5, <3>1 DEF Ranges, Total, Offset, Request
  <2>11. Story(c)'
      BY <1>3 DEF Story, Request
  <2>12. uv[c] \in {"absent", "open"} => r = n + 1
    <3>1. SUFFICES ASSUME uv[c] \in {"absent", "open"} PROVE r - 1 = n
        BY <1>0, <2>3
    <3>2. Offset(c, r - 1) = Offset(c, n) /\ n \in 0..Len(Ends[c])
        BY <1>0, <2>2, <2>3, <3>1, Requests
    <3> QED BY <2>3, <3>2, Offsets
  <2>13. Place(c)'
      BY <1>3, <2>5, <2>8, <2>9, <2>12 DEF Place, Plain
  <2> QED BY <1>0, <1>3, <2>5, <2>6, <2>7, <2>8, <2>10, <2>11, <2>13
<1> QED BY <1>1, <1>2, <1>3 DEF TryDispatch

(* A handle that opens, closes or goes away with nothing else changing.     *)
LEMMA HandleMoves ==
    ASSUME RInv, fault' = "none" => fault = "none",
           UNCHANGED <<answering, keep_alive, base, received, consumed, request, replies>>,
           fault' \in {"none", "double_close", "use_after_free", "null_server"},
           server' \in {"listening", "closing", "closed"}, gone' \subseteq Conn, cut' \subseteq Conn,
           \A d \in Conn : \/ uv'[d] = uv[d]
                           \/ uv'[d] \notin {"absent", "open"}
                           \/ uv[d] = "absent" /\ uv'[d] = "open" /\ answering[d] = "none"
    PROVE  RInv'
<1>1. Maps'
    BY DEF RInv, Maps
<1>2. ASSUME NEW d \in Conn PROVE ConnOK(d)'
  <2>1. ConnOK(d)
      BY DEF RInv
  <2>2. Ranges(d)' /\ AtBoundary(d)' /\ Story(d)'
      BY <2>1 DEF ConnOK, Ranges, AtBoundary, Story
  <2>3. ASSUME fault' = "none" PROVE Place(d)'
    <3>1. Place(d) /\ (Held(d) => Held(d)')
        BY <2>1, <2>3 DEF ConnOK, Held
    <3>2. CASE uv'[d] = uv[d]
        BY <3>1, <3>2 DEF Place, Plain
    <3>3. CASE uv'[d] \notin {"absent", "open"}
        BY <3>1, <3>3 DEF Place
    <3>4. CASE uv[d] = "absent" /\ uv'[d] = "open" /\ answering[d] = "none"
        BY <3>1, <3>4 DEF Place, Plain
    <3> QED BY <3>2, <3>3, <3>4
  <2> QED BY <2>2, <2>3 DEF ConnOK
<1> QED BY <1>1, <1>2 DEF RInv

LEMMA MovesKeepReplies ==
    ASSUME IInv, RInv,
           \/ \E c \in Conn : Accept(c) \/ ReadEnd(c) \/ CloseDone(c) \/ ClientLeaves(c)
           \/ ServerClosed \/ Stop \/ UNCHANGED serveVars
    PROVE  RInv'
<1>1. /\ uv \in [Conn -> Lives] /\ (server = "listening" => cut = {})
      /\ \A d \in Conn : uv[d] # "open" /\ answering[d] # "none" => d \in cut
      /\ server \in {"listening", "closing", "closed"} /\ gone \subseteq Conn /\ cut \subseteq Conn
      /\ fault \in {"none", "double_close", "use_after_free", "null_server"}
      /\ listed \subseteq Conn
    BY DEF IInv, Shape, CutOK, RInv, Maps
<1>2. /\ fault' = "none" => fault = "none"
      /\ UNCHANGED <<answering, keep_alive, base, received, consumed, request, replies>>
      /\ fault' \in {"none", "double_close", "use_after_free", "null_server"}
      /\ server' \in {"listening", "closing", "closed"} /\ gone' \subseteq Conn /\ cut' \subseteq Conn
    BY <1>1 DEF Accept, ReadEnd, Shutdown, NoFault, CloseDone, ClientLeaves, ServerClosed, Stop, FromLoop, serveVars
<1>3. \A d \in Conn : \/ uv'[d] = uv[d]
                      \/ uv'[d] \notin {"absent", "open"}
                      \/ uv[d] = "absent" /\ uv'[d] = "open" /\ answering[d] = "none"
  <2>1. CASE \E c \in Conn : Accept(c)
    <3>1. PICK c \in Conn : Accept(c)
        BY <2>1
    <3>2. answering[c] = "none"
        BY <1>1, <3>1 DEF Accept
    <3>3. \/ uv' = [uv EXCEPT ![c] = "open"] /\ uv[c] = "absent"
          \/ uv' = [uv EXCEPT ![c] = "closing"]
        BY <3>1 DEF Accept
    <3> QED BY <1>1, <3>2, <3>3
  <2>2. CASE \E c \in Conn : ReadEnd(c) \/ CloseDone(c)
    <3>1. PICK c \in Conn : ReadEnd(c) \/ CloseDone(c)
        BY <2>2
    <3>2. \/ uv' = [uv EXCEPT ![c] = "closing"]
          \/ uv' = [uv EXCEPT ![c] = "freed"]
          \/ uv' = uv
        BY <3>1 DEF ReadEnd, Shutdown, CloseDone
    <3> QED BY <1>1, <3>2
  <2>3. CASE Stop
      BY <1>1, <2>3 DEF Stop
  <2>4. CASE (\E c \in Conn : ClientLeaves(c)) \/ ServerClosed \/ UNCHANGED serveVars
      BY <2>4 DEF ClientLeaves, ServerClosed, serveVars
  <2> QED BY <2>1, <2>2, <2>3, <2>4
<1> QED BY <1>2, <1>3, HandleMoves

LEMMA ReadDataKeepsReplies ==
    ASSUME IInv, RInv, NEW c \in Conn, ReadData(c)
    PROVE  RInv'
<1>1. /\ Shape /\ Maps /\ ConnOK(c) /\ \A d \in Conn : ConnOK(d)
      /\ c \in reading /\ uv[c] = "open" /\ fault = "none" /\ answering[c] = "none"
    BY DEF IInv, RInv, OneDriver, ReadData, FromLoop
<1>2. UNCHANGED <<base, server, listed, uv, gone, cut, fault>> /\ TryDispatch(c, reading)
    BY DEF ReadData
<1>3. /\ received' \in [Conn -> Nat] /\ base[c] <= received'[c] /\ received'[c] <= Total(c)
      /\ \A d \in Conn : d # c => received'[d] = received[d]
  <2>1. /\ received \in [Conn -> Nat] /\ base[c] \in Nat /\ base[c] <= received[c] /\ received[c] \in Nat
        /\ Total(c) \in Nat
      BY <1>1, Offsets DEF Maps, ConnOK, Ranges
  <2>2. PICK n \in 1..(Total(c) - received[c]) : received' = [received EXCEPT ![c] = @ + n]
      BY DEF ReadData
  <2> QED BY <2>1, <2>2
<1>4. /\ Plain(c, Len(replies[c])) /\ Len(replies[c]) <= Len(Ends[c])
      /\ base'[c] = Offset(c, Len(replies[c]))
    BY <1>1, <1>2 DEF ConnOK, Place
<1>5. /\ base' \in [Conn -> Nat] /\ base'[c] <= received'[c] /\ AtBoundary(c)'
      /\ consumed[c] <= Total(c) /\ request[c] \in Request(c) \cup {0} /\ Story(c)
    BY <1>1, <1>2, <1>3 DEF ConnOK, Ranges, AtBoundary, Offset, Maps
<1>6. /\ Ranges(c)' /\ AtBoundary(c)' /\ Story(c)' /\ Place(c)'
      /\ consumed' \in [Conn -> Nat] /\ request' \in [Conn -> Nat]
      /\ replies' \in [Conn -> Seq(Nat \X How)] /\ keep_alive' \subseteq Conn
      /\ \A d \in Conn : d # c =>
           /\ answering'[d] = answering[d] /\ (d \in keep_alive' <=> d \in keep_alive)
           /\ consumed'[d] = consumed[d] /\ request'[d] = request[d]
           /\ replies'[d] = replies[d]
    BY <1>1, <1>2, <1>3, <1>4, <1>5, DispatchOK
<1>7. Maps'
    BY <1>1, <1>2, <1>3, <1>6 DEF Maps
<1>8. \A d \in Conn : d # c => ConnOK(d)'
    BY <1>1, <1>2, <1>3, <1>6, Untouched
<1>9. ConnOK(c)'
    BY <1>6 DEF ConnOK
<1> QED BY <1>7, <1>8, <1>9 DEF RInv

(* The handler returns or its promise settles: a promise is waited for, or  *)
(* the reply to the request held is written.                                *)
LEMMA AnswerKeepsReplies ==
    ASSUME IInv, RInv, NEW c \in Conn, HandlerReturns(c) \/ Settle(c)
    PROVE  RInv'
<1>1. /\ Shape /\ Maps /\ ConnOK(c) /\ \A d \in Conn : ConnOK(d)
      /\ fault = "none" /\ answering[c] \in {"handler", "promise"}
    BY DEF IInv, RInv, HandlerReturns, Settle, FromLoop
<1>2. /\ UNCHANGED <<server, uv, base, received, consumed, request, gone, cut>>
      /\ fault' \in {"none", "use_after_free"}
    BY <1>1 DEF HandlerReturns, Settle, NoFault
<1>3. Held(c) /\ (uv[c] \in {"absent", "open"} =>
                      Plain(c, Len(replies[c])) /\ request[c] = Len(replies[c]) + 1)
    BY <1>1 DEF ConnOK, Place
<1>4. Held(c)' /\ Ranges(c)' /\ AtBoundary(c)' /\ request[c] \in Request(c)
    BY <1>1, <1>2, <1>3 DEF Held, ConnOK, Ranges, AtBoundary, Request, Start, End, Offset, Total
<1>5. CASE fault' = "none" /\ \E how \in {"value", "error", "upgrade"} :
              /\ Deliver(c, request[c], how)
              /\ keep_alive' = IF how = "value" THEN keep_alive ELSE KeptWithout(c)
  <2>1. PICK how \in {"value", "error", "upgrade"} :
              /\ Deliver(c, request[c], how)
              /\ keep_alive' = IF how = "value" THEN keep_alive ELSE KeptWithout(c)
      BY <1>5
  <2>2. PICK r \in Request(c) : r = request[c]
      BY <1>4
  <2>3. /\ Deliver(c, r, how) /\ how \in How /\ how # "refused" /\ Story(c)
        /\ uv[c] = "open" => Plain(c, Len(replies[c])) /\ r = Len(replies[c]) + 1
      BY <1>1, <1>3, <2>1, <2>2 DEF How, ConnOK
  <2>4. r \in Nat
      BY Requests DEF Request
  <2>5. /\ replies' \in [Conn -> Seq(Nat \X How)]
        /\ \A d \in Conn : d # c => replies'[d] = replies[d] /\ answering'[d] = answering[d]
      BY <1>1, <2>3, <2>4, Replied
  <2>6. Story(c)'
      BY <1>1, <2>3, RepliedInOrder
  <2>7. uv[c] = "absent" => /\ Plain(c, Len(replies[c])) /\ Len(replies[c]) <= Len(Ends[c])
                           /\ base'[c] = Offset(c, Len(replies[c]))
    <3>1. SUFFICES ASSUME uv[c] = "absent"
                   PROVE  /\ Plain(c, Len(replies[c])) /\ Len(replies[c]) <= Len(Ends[c])
                          /\ base'[c] = Offset(c, Len(replies[c]))
        OBVIOUS
    <3>2. Plain(c, Len(replies[c])) /\ r = Len(replies[c]) + 1 /\ base'[c] = Start(c, r)
        BY <1>2, <1>3, <2>2, <3>1 DEF Held
    <3>3. replies[c] \in Seq(Nat \X How)
        BY <1>1 DEF Maps
    <3>4. Len(replies[c]) \in Nat /\ r - 1 = Len(replies[c])
        BY <3>2, <3>3
    <3> QED BY <2>2, <3>2, <3>4, Requests DEF Start, Request
  <2>8. Place(c)'
    <3>1. uv[c] = "open" /\ c \in keep_alive' =>
              how = "value" /\ r = Len(replies[c]) + 1 /\ request'[c] = r /\ Held(c)'
        BY <1>2, <1>4, <2>1, <2>2, <2>3 DEF KeptWithout
    <3> QED BY <1>1, <1>2, <2>3, <2>7, <3>1, RepliedPlace
  <2>9. keep_alive' \subseteq Conn /\ \A d \in Conn : d # c => (d \in keep_alive' <=> d \in keep_alive)
      BY <1>1, <2>1 DEF KeptWithout, Maps
  <2>10. Maps'
      BY <1>1, <1>2, <2>5, <2>9 DEF Maps
  <2>11. \A d \in Conn : d # c => ConnOK(d)'
      BY <1>1, <1>2, <2>5, <2>9, Untouched
  <2> QED BY <1>4, <2>6, <2>8, <2>10, <2>11 DEF RInv, ConnOK
<1>6. CASE /\ answering' = [answering EXCEPT ![c] = "promise"]
           /\ UNCHANGED <<keep_alive, replies>>
  <2>1. answering'[c] = "promise" /\ \A d \in Conn : d # c => answering'[d] = answering[d]
      BY <1>1, <1>6 DEF Shape
  <2>2. Place(c)'
      BY <1>2, <1>3, <1>4, <1>6, <2>1 DEF Place, Plain
  <2>3. Maps'
      BY <1>1, <1>2, <1>6 DEF Maps
  <2>4. \A d \in Conn : d # c => ConnOK(d)'
      BY <1>1, <1>2, <1>6, <2>1, Untouched
  <2>5. Story(c)'
      BY <1>1, <1>6 DEF ConnOK, Story, Request
  <2> QED BY <1>4, <2>2, <2>3, <2>4, <2>5 DEF RInv, ConnOK
<1>7. CASE fault' = "use_after_free" /\ UNCHANGED <<keep_alive, answering, replies>>
  <2>1. Maps'
      BY <1>1, <1>2, <1>7 DEF Maps
  <2>2. Story(c)'
      BY <1>1, <1>7 DEF ConnOK, Story, Request
  <2>3. \A d \in Conn : d # c => ConnOK(d)'
      BY <1>1, <1>2, <1>7, Untouched
  <2> QED BY <1>4, <1>7, <2>1, <2>2, <2>3 DEF RInv, ConnOK
<1> QED BY <1>1, <1>5, <1>6, <1>7 DEF HandlerReturns, Settle, NoFault

(* conn_write_cb: the connection goes, is idle again, or its next request,  *)
(* which begins where the answered one ended, is dispatched.                *)
LEMMA WriteDoneKeepsReplies ==
    ASSUME IInv, RInv, NEW c \in Conn, WriteDone(c)
    PROVE  RInv'
<1>1. /\ Shape /\ Maps /\ ConnOK(c) /\ \A d \in Conn : ConnOK(d)
      /\ fault = "none" /\ answering[c] = "write" /\ Place(c)
    BY DEF IInv, RInv, WriteDone, FromLoop, ConnOK
<1>2. UNCHANGED <<server, gone, cut, received>>
    BY DEF WriteDone
<1>3. CASE /\ Shutdown(c)
           /\ answering' = [answering EXCEPT ![c] = "none"]
           /\ UNCHANGED <<reading, base, consumed, keep_alive, request, replies>>
  <2>1. answering'[c] = "none" /\ \A d \in Conn : d # c => answering'[d] = answering[d]
      BY <1>1, <1>3 DEF Shape
  <2>2. /\ fault' \in {"none", "double_close"}
        /\ \A d \in Conn : d # c => uv'[d] = uv[d]
        /\ fault' = "none" => uv'[c] = "closing"
      BY <1>1, <1>3 DEF Shape, Shutdown, NoFault
  <2>3. Maps'
      BY <1>1, <1>2, <1>3, <2>2 DEF Maps
  <2>4. \A d \in Conn : d # c => ConnOK(d)'
      BY <1>1, <1>2, <1>3, <2>1, <2>2, Untouched
  <2>5. Ranges(c)' /\ AtBoundary(c)' /\ Story(c)'
      BY <1>1, <1>2, <1>3 DEF ConnOK, Ranges, AtBoundary, Story, Request, Total, Offset
  <2>6. fault' = "none" => Place(c)'
      BY <2>1, <2>2 DEF Place
  <2> QED BY <2>3, <2>4, <2>5, <2>6 DEF RInv, ConnOK
<1>4. CASE /\ c \in keep_alive
           /\ base' = [base EXCEPT ![c] = Leftover(c)]
           /\ UNCHANGED <<received, listed, uv>>
           /\ \/ /\ consumed' = [consumed EXCEPT ![c] = 0]
                 /\ answering' = [answering EXCEPT ![c] = "none"]
                 /\ UNCHANGED <<keep_alive, request, replies, fault>>
              \/ TryDispatch(c, Restarted(c)) /\ NoFault
              \/ /\ fault' = "null_server"
                 /\ UNCHANGED <<reading, consumed, keep_alive, answering, request, replies>>
  <2> DEFINE r == request[c]
  <2>1. /\ r \in Request(c) /\ base[c] + consumed[c] = End(c, r) /\ End(c, r) <= received[c]
        /\ uv[c] \in {"absent", "open"} => /\ Len(replies[c]) > 0 /\ Plain(c, Len(replies[c]) - 1)
                                          /\ r = Len(replies[c])
                                          /\ replies[c][r] = <<r, "value">>
      BY <1>1, <1>4 DEF Place, Held
  <2>2. /\ base \in [Conn -> Nat] /\ consumed \in [Conn -> Nat] /\ received \in [Conn -> Nat]
        /\ request \in [Conn -> Nat] /\ replies \in [Conn -> Seq(Nat \X How)]
        /\ replies[c] \in Seq(Nat \X How) /\ answering \in [Conn -> Ways]
      BY <1>1 DEF Maps, Shape
  <2>3. r \in 0..Len(Ends[c]) /\ Offset(c, r) = End(c, r) /\ Offset(c, r) \in Nat /\ r \in Nat
      BY <2>1, Requests, Offsets DEF Request, End
  <2>4. Leftover(c) = Offset(c, r)
      BY <2>1, <2>2, <2>3 DEF Leftover
  <2>5. /\ base' \in [Conn -> Nat] /\ base'[c] = Offset(c, r)
        /\ \A d \in Conn : d # c => base'[d] = base[d]
      BY <1>4, <2>2, <2>3, <2>4
  <2>6. uv[c] \in {"absent", "open"} => /\ Plain(c, Len(replies[c])) /\ Len(replies[c]) <= Len(Ends[c])
                                        /\ base'[c] = Offset(c, Len(replies[c]))
    <3>1. SUFFICES ASSUME uv[c] \in {"absent", "open"}
                   PROVE  Plain(c, r) /\ r <= Len(Ends[c]) /\ base'[c] = Offset(c, r)
        BY <2>1
    <3>2. Plain(c, r - 1) /\ replies[c][r] = <<r, "value">>
        BY <2>1, <3>1
    <3>3. \A i \in 1..r : i \in 1..(r - 1) \/ i = r
        BY <2>3
    <3>4. Plain(c, r)
        BY <3>2, <3>3 DEF Plain
    <3> QED BY <2>3, <2>5, <3>4, Requests
  <2>7. AtBoundary(c)'
      BY <2>3, <2>5 DEF AtBoundary, Offset
  <2>8. /\ base'[c] <= received'[c] /\ received'[c] <= Total(c) /\ received' \in [Conn -> Nat]
        /\ consumed[c] <= Total(c) /\ request[c] \in Request(c) \cup {0} /\ Story(c)
      BY <1>1, <1>2, <2>1, <2>2, <2>3, <2>5 DEF ConnOK, Ranges
  <2>9. CASE /\ consumed' = [consumed EXCEPT ![c] = 0]
             /\ answering' = [answering EXCEPT ![c] = "none"]
             /\ UNCHANGED <<keep_alive, request, replies, fault>>
    <3>1. /\ answering'[c] = "none" /\ \A d \in Conn : d # c => answering'[d] = answering[d]
          /\ consumed' \in [Conn -> Nat] /\ consumed'[c] = 0
          /\ \A d \in Conn : d # c => consumed'[d] = consumed[d]
        BY <2>2, <2>9
    <3>2. Maps'
        BY <1>1, <1>2, <2>5, <2>9, <3>1 DEF Maps
    <3>3. \A d \in Conn : d # c => ConnOK(d)'
        BY <1>1, <1>2, <1>4, <2>5, <2>9, <3>1, Untouched
    <3>4. Ranges(c)' /\ Story(c)'
        BY <2>8, <2>9, <3>1, Offsets DEF Ranges, Story, Request, Total, Offset
    <3>5. Place(c)'
        BY <1>4, <2>6, <2>9, <3>1 DEF Place, Plain, Offset
    <3> QED BY <2>7, <3>2, <3>3, <3>4, <3>5 DEF RInv, ConnOK
  <2>10. CASE TryDispatch(c, Restarted(c)) /\ NoFault
    <3>1. uv' = uv /\ fault' = fault
        BY <1>4, <2>10 DEF NoFault
    <3>2. /\ Ranges(c)' /\ AtBoundary(c)' /\ Story(c)' /\ Place(c)'
          /\ consumed' \in [Conn -> Nat] /\ request' \in [Conn -> Nat]
          /\ replies' \in [Conn -> Seq(Nat \X How)] /\ keep_alive' \subseteq Conn
          /\ \A d \in Conn : d # c =>
               /\ answering'[d] = answering[d] /\ (d \in keep_alive' <=> d \in keep_alive)
               /\ consumed'[d] = consumed[d] /\ request'[d] = request[d]
               /\ replies'[d] = replies[d]
        BY <1>1, <2>5, <2>6, <2>7, <2>8, <2>10, <3>1, DispatchOK
    <3>3. Maps'
        BY <1>1, <1>2, <2>5, <3>1, <3>2 DEF Maps
    <3>4. \A d \in Conn : d # c => ConnOK(d)'
        BY <1>1, <1>2, <2>5, <3>1, <3>2, Untouched
    <3> QED BY <3>2, <3>3, <3>4 DEF RInv, ConnOK
  <2>11. CASE /\ fault' = "null_server"
              /\ UNCHANGED <<reading, consumed, keep_alive, answering, request, replies>>
    <3>1. Maps'
        BY <1>1, <1>2, <2>5, <2>11 DEF Maps
    <3>2. \A d \in Conn : d # c => ConnOK(d)'
        BY <1>1, <1>2, <1>4, <2>5, <2>11, Untouched
    <3>3. Ranges(c)' /\ Story(c)'
        BY <2>8, <2>11 DEF Ranges, Story, Request, Total, Offset
    <3> QED BY <2>7, <2>11, <3>1, <3>2, <3>3 DEF RInv, ConnOK
  <2> QED BY <1>4, <2>9, <2>10, <2>11
<1> QED BY <1>3, <1>4 DEF WriteDone

LEMMA StepKeepsReplies == IInv /\ RInv /\ [ServeNext]_serveVars => RInv'
<1> SUFFICES ASSUME IInv, RInv, [ServeNext]_serveVars PROVE RInv'
    OBVIOUS
<1> QED BY MovesKeepReplies, ReadDataKeepsReplies, AnswerKeepsReplies, WriteDoneKeepsReplies DEF ServeNext

LEMMA RepliesStart == ServeInit => RInv
<1> SUFFICES ASSUME ServeInit PROVE RInv
    OBVIOUS
<1>1. <<>> \in Seq(Nat \X How)
    OBVIOUS
<1>2. Maps
    BY <1>1 DEF ServeInit, Maps
<1>3. ASSUME NEW c \in Conn PROVE ConnOK(c)
  <2>1. Len(Ends[c]) \in Nat /\ Total(c) \in Nat /\ Offset(c, 0) = 0 /\ 0 \in 0..Len(Ends[c])
      BY Requests, Offsets DEF Offset
  <2>2. replies[c] = <<>> /\ Len(replies[c]) = 0 /\ base[c] = 0 /\ received[c] = 0 /\ consumed[c] = 0
        /\ request[c] = 0 /\ answering[c] = "none"
      BY DEF ServeInit
  <2>3. Place(c)
      BY <2>1, <2>2 DEF Place, Plain
  <2> QED BY <2>1, <2>2, <2>3 DEF ConnOK, Ranges, AtBoundary, Story
<1> QED BY <1>2, <1>3 DEF RInv

LEMMA RepliesAreTyped == IInv /\ RInv => RepliesKept
<1> SUFFICES ASSUME IInv, RInv PROVE RepliesKept
    OBVIOUS
<1>1. Shape /\ Maps /\ \A c \in Conn : Ranges(c) /\ AtBoundary(c) /\ Story(c)
    BY DEF IInv, RInv, ConnOK
<1>2. RepliesInOrder
  <2> SUFFICES ASSUME NEW c \in Conn
               PROVE  base[c] \in {Start(c, r) : r \in Request(c)} \cup {Total(c)}
      BY <1>1 DEF RepliesInOrder, Story
  <2>1. PICK n \in 0..Len(Ends[c]) : base[c] = Offset(c, n)
      BY <1>1 DEF AtBoundary
  <2>2. n = Len(Ends[c]) \/ (n + 1 \in Request(c) /\ Start(c, n + 1) = Offset(c, n))
      BY Requests DEF Request, Start
  <2> QED BY <2>1, <2>2 DEF Total
<1>3. ASSUME NEW c \in Conn
      PROVE  /\ 0 <= base[c] /\ base[c] <= received[c] /\ received[c] <= Total(c)
             /\ consumed[c] \in 0..Total(c)
             /\ request[c] \in Request(c) \cup {0}
    BY <1>1, Offsets DEF Maps, Ranges
<1>4. ASSUME NEW c \in Conn PROVE replies[c] \in Seq((Request(c) \cup {0}) \X How)
  <2>1. replies[c] \in Seq(Nat \X How)
      BY <1>1 DEF Maps
  <2>2. /\ Len(replies[c]) \in Nat /\ DOMAIN replies[c] = 1..Len(replies[c])
        /\ replies[c] = [i \in 1..Len(replies[c]) |-> replies[c][i]]
        /\ \A i \in 1..Len(replies[c]) : replies[c][i] \in Nat \X How
      BY <2>1
  <2>3. \A i \in 1..Len(replies[c]) : replies[c][i] \in (Request(c) \cup {0}) \X How
    <3> SUFFICES ASSUME NEW i \in 1..Len(replies[c])
                 PROVE  replies[c][i] \in (Request(c) \cup {0}) \X How
        OBVIOUS
    <3>1. replies[c][i] \in Nat \X How /\ replies[c][i][1] \in Request(c) \cup {0}
        BY <1>1, <2>2 DEF Story
    <3> QED BY <3>1
  <2> DEFINE T == (Request(c) \cup {0}) \X How
  <2> HIDE DEF T
  <2>4. \A i \in 1..Len(replies[c]) : replies[c][i] \in T
      BY <2>3 DEF T
  <2>5. replies[c] \in Seq(T)
      BY <2>2, <2>4, IsASeq
  <2> QED BY <2>5 DEF T
<1>5. ServeTypeOK
    BY <1>1, <1>3, <1>4 DEF ServeTypeOK, Shape, Maps, Ways, Lives
<1> QED BY <1>2, <1>5 DEF RepliesKept

(* Replies come once, in the order of the requests, none skipped; the input *)
(* buffer begins at a request's first byte; and nothing follows an error, a *)
(* refusal or an upgrade: for any connections and requests, split over      *)
(* reads and pipelined in any way (network.c:483-499, 859-924).             *)
THEOREM RepliesAreKept == ServeSpec => []RepliesKept
<1>1. RInv /\ IInv => RepliesKept
    BY RepliesAreTyped
<1> QED BY <1>1, Starts, StepKeeps, RepliesStart, StepKeepsReplies, PTL DEF ServeSpec
=============================================================================
