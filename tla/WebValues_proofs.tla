--------------------------- MODULE WebValues_proofs ---------------------------
(***************************************************************************)
(* What the operations of the web values make of them: of a ReadableStream *)
(* its state, its queue and the answers of its reads, for any chunks, sizes *)
(* and high-water mark; of a list of headers or form entries the values of *)
(* each name; of a list of URL parameters the query it is written as, and  *)
(* of a query the parameters.                                              *)
(***************************************************************************)
EXTENDS ReadableStream, UrlParams, SequenceTheorems, FiniteSetTheorems, WellFoundedInduction, TLAPS

(* One stream: what it holds once it has ended, and what its answers say.   *)
StreamOK(s, C) ==
    /\ s \in ReadableType(C)
    /\ s.state # "readable" => s.queue = <<>> /\ s.reads = 0
    /\ s.reads > 0 => s.queue = <<>>
    /\ \A i \in DOMAIN s.got : s.got[i] = End => s.state = "closed"
    /\ \A i \in DOMAIN s.got : s.got[i] = Failed => s.state = "errored"
    /\ \A i, j \in DOMAIN s.got : i < j /\ s.got[j] \in C => s.got[i] \in C

-----------------------------------------------------------------------------
(* What the operations on a stream make of it.                              *)

(* The fields, one by one.                                                  *)
LEMMA ReadableFields ==
    ASSUME NEW C, NEW s \in ReadableType(C)
    PROVE  /\ s.state \in {"readable", "closed", "errored"} /\ s.queue \in Seq(C) /\ s.size \in Nat
           /\ s.closing \in BOOLEAN /\ s.started \in BOOLEAN /\ s.pulls \in BOOLEAN
           /\ s.pull \in {"idle", "called", "running", "acted"} /\ s.again \in BOOLEAN
           /\ s.reads \in Nat /\ s.got \in Seq(C \cup {End, Failed})
  BY DEF ReadableType

(* A stream with the state, queue and answers of another.                   *)
Alike(t, s) ==
    /\ t.state = s.state /\ t.queue = s.queue /\ t.size = s.size /\ t.closing = s.closing
    /\ t.started = s.started /\ t.pulls = s.pulls /\ t.reads = s.reads /\ t.got = s.got

LEMMA PulledKeeps ==
    ASSUME NEW C, NEW s \in ReadableType(C)
    PROVE  /\ Pulled(s) \in ReadableType(C) /\ Alike(Pulled(s), s)
           /\ Pulled(s).pull = IF Pullable(s) /\ WantsMore(s) /\ s.pull = "idle" /\ s.pulls
                               THEN "called" ELSE s.pull
           /\ Pulled(s).again = (s.again \/ (Pullable(s) /\ WantsMore(s) /\ s.pull # "idle"))
<1>1. CASE ~(Pullable(s) /\ WantsMore(s))
  <2>1. Pulled(s) = s
      BY <1>1 DEF Pulled
  <2> QED BY <1>1, <2>1 DEF Alike, ReadableType
<1>2. CASE Pullable(s) /\ WantsMore(s) /\ s.pull # "idle"
  <2>1. Pulled(s) = [s EXCEPT !.again = TRUE]
      BY <1>2 DEF Pulled
  <2> QED BY <1>2, <2>1 DEF Alike, ReadableType
<1>3. CASE Pullable(s) /\ WantsMore(s) /\ s.pull = "idle" /\ s.pulls
  <2>1. Pulled(s) = [s EXCEPT !.pull = "called"]
      BY <1>3 DEF Pulled
  <2> QED BY <1>3, <2>1 DEF Alike, ReadableType
<1>4. CASE Pullable(s) /\ WantsMore(s) /\ s.pull = "idle" /\ ~s.pulls
  <2>1. Pulled(s) = s
      BY <1>4 DEF Pulled
  <2> QED BY <1>4, <2>1 DEF Alike, ReadableType
<1> QED BY <1>1, <1>2, <1>3, <1>4

(* Answers that were given stay, and those that come are all the same.      *)
Extends(r, q, a) ==
    /\ Len(q) <= Len(r)
    /\ \A i \in DOMAIN q : i \in DOMAIN r /\ r[i] = q[i]
    /\ \A i \in DOMAIN r : i \notin DOMAIN q => r[i] = a

LEMMA AnsweredKeeps ==
    ASSUME NEW C, NEW s \in ReadableType(C), NEW a \in {End, Failed}
    PROVE  /\ Answered(s, a) \in ReadableType(C)
           /\ Answered(s, a).reads = 0
           /\ Extends(Answered(s, a).got, s.got, a)
           /\ Len(Answered(s, a).got) = Len(s.got) + s.reads
           /\ s.reads = 0 => Answered(s, a).got = s.got
           /\ \A f \in {"state", "queue", "size", "closing", "started", "pulls", "pull", "again"} :
                  Answered(s, a)[f] = s[f]
<1> DEFINE A == C \cup {End, Failed}
           new == [i \in 1..s.reads |-> a]
           n == s.reads
<1>1. s.got \in Seq(A) /\ n \in Nat /\ a \in A
    BY DEF ReadableType
<1>2. new \in Seq(A) /\ Len(new) = n /\ \A i \in 1..n : new[i] = a
    BY <1>1
<1> HIDE DEF n, A, new
<1>3. /\ s.got \o new \in Seq(A) /\ Len(s.got \o new) = Len(s.got) + Len(new)
      /\ \A i \in 1..(Len(s.got) + Len(new)) :
             (s.got \o new)[i] = IF i <= Len(s.got) THEN s.got[i] ELSE new[i - Len(s.got)]
    BY <1>1, <1>2, ConcatProperties, Zenon
<1>4. PICK g \in Seq(A) : g = s.got
    BY <1>1
<1>5. PICK h \in Seq(A) : h = s.got \o new
    BY <1>3
<1>6. Len(h) = Len(g) + n /\ Len(g) \in Nat /\ Len(h) \in Nat
    BY <1>1, <1>2, <1>3, <1>4, <1>5
<1>7. \A i \in 1..(Len(g) + n) : h[i] = IF i <= Len(g) THEN g[i] ELSE new[i - Len(g)]
    BY <1>2, <1>3, <1>4, <1>5
<1>8. \A i \in 1..Len(g) : h[i] = g[i]
    BY <1>1, <1>6, <1>7
<1>9. ASSUME NEW i \in 1..Len(h), i \notin 1..Len(g) PROVE h[i] = a
  <2>1. i \in 1..(Len(g) + n) /\ ~(i <= Len(g)) /\ i - Len(g) \in 1..n
      BY <1>1, <1>6, <1>9
  <2> QED BY <1>2, <1>7, <2>1
<1>10. Extends(h, g, a)
  <2>1. DOMAIN h = 1..Len(h) /\ DOMAIN g = 1..Len(g) /\ Len(g) <= Len(h)
      BY <1>1, <1>6
  <2>2. \A i \in 1..Len(g) : i \in 1..Len(h)
      BY <1>6, <2>1
  <2> QED BY <1>8, <1>9, <2>1, <2>2 DEF Extends
<1>11. n = 0 => h = g
  <2>1. ASSUME n = 0 PROVE h = g
    <3>1. Len(h) = Len(g)
        BY <1>6, <2>1
    <3>2. \A i \in 1..Len(g) : h[i] = g[i]
        BY <1>8
    <3> QED BY <3>1, <3>2
  <2> QED BY <2>1
<1>12. Answered(s, a) = [s EXCEPT !.reads = 0, !.got = h]
    BY <1>5 DEF Answered, new, n
<1>13. Answered(s, a) \in ReadableType(C) /\ Answered(s, a).got = h /\ Answered(s, a).reads = 0
  <2>1. h \in Seq(C \cup {End, Failed})
      BY DEF A
  <2>2. [s EXCEPT !.reads = 0, !.got = h] \in ReadableType(C)
      BY <2>1 DEF ReadableType
  <2>3. [s EXCEPT !.reads = 0, !.got = h].got = h /\ [s EXCEPT !.reads = 0, !.got = h].reads = 0
      BY DEF ReadableType
  <2> QED BY <1>12, <2>2, <2>3
<1>14. \A f \in {"state", "queue", "size", "closing", "started", "pulls", "pull", "again"} :
           Answered(s, a)[f] = s[f]
    BY <1>12 DEF ReadableType
<1> QED BY <1>4, <1>6, <1>10, <1>11, <1>13, <1>14 DEF n

(* What pulling depends on besides the queue.                               *)
SamePull(t, s) ==
    t.started = s.started /\ t.pulls = s.pulls /\ t.pull = s.pull /\ t.again = s.again

LEMMA ClosedIs ==
    ASSUME NEW C, NEW s \in ReadableType(C), s.state = "readable"
    PROVE  LET t == ReadableClosed(s)
           IN  /\ t \in ReadableType(C) /\ t.state = "closed" /\ t.reads = 0
               /\ t.queue = s.queue /\ t.size = s.size /\ t.closing = s.closing /\ SamePull(t, s)
               /\ Extends(t.got, s.got, End) /\ Len(t.got) = Len(s.got) + s.reads
               /\ s.reads = 0 => t.got = s.got
<1>1. PICK u \in ReadableType(C) : u = Answered(s, End)
    BY AnsweredKeeps
<1>2. /\ u.reads = 0 /\ Extends(u.got, s.got, End) /\ Len(u.got) = Len(s.got) + s.reads
      /\ s.reads = 0 => u.got = s.got
      /\ u.queue = s.queue /\ u.size = s.size /\ u.closing = s.closing /\ SamePull(u, s)
    BY <1>1, AnsweredKeeps DEF SamePull
<1>3. ReadableClosed(s) = [u EXCEPT !.state = "closed"]
    BY <1>1 DEF ReadableClosed
<1>4. PICK t : t = [u EXCEPT !.state = "closed"]
    OBVIOUS
<1>5. /\ t \in ReadableType(C) /\ t.state = "closed" /\ t.reads = u.reads /\ t.got = u.got
      /\ t.queue = u.queue /\ t.size = u.size /\ t.closing = u.closing /\ SamePull(t, u)
    BY <1>4 DEF ReadableType, SamePull
<1> QED BY <1>2, <1>3, <1>4, <1>5 DEF SamePull

LEMMA ErroredIs ==
    ASSUME NEW C, NEW s \in ReadableType(C), s.state = "readable"
    PROVE  LET t == ReadableErrored(s)
           IN  /\ t \in ReadableType(C) /\ t.state = "errored" /\ t.reads = 0
               /\ t.queue = <<>> /\ t.size = 0 /\ t.closing = s.closing /\ SamePull(t, s)
               /\ Extends(t.got, s.got, Failed) /\ Len(t.got) = Len(s.got) + s.reads
<1>1. PICK u \in ReadableType(C) : u = Answered(s, Failed)
    BY AnsweredKeeps
<1>2. /\ u.reads = 0 /\ Extends(u.got, s.got, Failed) /\ Len(u.got) = Len(s.got) + s.reads
      /\ u.closing = s.closing /\ SamePull(u, s)
    BY <1>1, AnsweredKeeps DEF SamePull
<1>3. ReadableErrored(s) = [u EXCEPT !.state = "errored", !.queue = <<>>, !.size = 0]
    BY <1>1 DEF ReadableErrored
<1>4. PICK q \in Seq(C) : q = <<>>
    BY EmptySeq
<1>5. PICK t : t = [u EXCEPT !.state = "errored", !.queue = q, !.size = 0]
    OBVIOUS
<1>6. /\ t \in ReadableType(C) /\ t.state = "errored" /\ t.reads = u.reads /\ t.got = u.got
      /\ t.queue = q /\ t.size = 0 /\ t.closing = u.closing /\ SamePull(t, u)
    BY <1>5 DEF ReadableType, SamePull
<1> QED BY <1>2, <1>3, <1>4, <1>5, <1>6 DEF SamePull

LEMMA CancelledIs ==
    ASSUME NEW C, NEW s \in ReadableType(C), s.state = "readable"
    PROVE  LET t == ReadableCancelled(s)
           IN  /\ t \in ReadableType(C) /\ t.state = "closed" /\ t.reads = 0
               /\ t.queue = <<>> /\ t.size = 0 /\ t.closing = s.closing /\ SamePull(t, s)
               /\ Extends(t.got, s.got, End) /\ Len(t.got) = Len(s.got) + s.reads
<1>1. PICK q \in Seq(C) : q = <<>>
    BY EmptySeq
<1>2. PICK u : u = [s EXCEPT !.queue = q, !.size = 0]
    OBVIOUS
<1>3. /\ u \in ReadableType(C) /\ u.state = "readable" /\ u.queue = q /\ u.size = 0
      /\ u.closing = s.closing /\ SamePull(u, s) /\ u.got = s.got /\ u.reads = s.reads
    BY <1>2 DEF ReadableType, SamePull
<1>4. ReadableCancelled(s) = ReadableClosed(u)
    BY <1>1, <1>2 DEF ReadableCancelled
<1> QED BY <1>1, <1>3, <1>4, ClosedIs DEF SamePull

LEMMA CloseRequestedIs ==
    ASSUME NEW C, NEW s \in ReadableType(C), CanEnqueue(s)
    PROVE  LET t == CloseRequested(s)
           IN  /\ t \in ReadableType(C) /\ t.closing
               /\ t.queue = s.queue /\ t.size = s.size /\ SamePull(t, s)
               /\ s.queue = <<>> =>
                      /\ t.state = "closed" /\ t.reads = 0
                      /\ Extends(t.got, s.got, End) /\ Len(t.got) = Len(s.got) + s.reads
               /\ s.queue # <<>> => t.state = "readable" /\ t.reads = s.reads /\ t.got = s.got
<1>1. PICK u : u = [s EXCEPT !.closing = TRUE]
    OBVIOUS
<1>2. /\ u \in ReadableType(C) /\ u.state = "readable" /\ u.queue = s.queue /\ u.size = s.size
      /\ u.closing /\ SamePull(u, s) /\ u.got = s.got /\ u.reads = s.reads
    BY <1>1 DEF ReadableType, SamePull, CanEnqueue
<1>3. CloseRequested(s) = IF s.queue = <<>> THEN ReadableClosed(u) ELSE u
    BY <1>1 DEF CloseRequested
<1>4. CASE s.queue = <<>>
    BY <1>2, <1>3, <1>4, ClosedIs DEF SamePull
<1>5. CASE s.queue # <<>>
    BY <1>2, <1>3, <1>5
<1> QED BY <1>4, <1>5

(* Strategies measure the chunks that are enqueued.                         *)
LEMMA EnqueuedIs ==
    ASSUME NEW C, NEW s \in ReadableType(C), NEW c \in C, SizeOf[c] \in Nat
    PROVE  LET t == Enqueued(s, c)
           IN  /\ t \in ReadableType(C) /\ t.state = s.state /\ t.closing = s.closing
               /\ t.started = s.started /\ t.pulls = s.pulls
               /\ s.reads > 0 =>
                      /\ t.reads = s.reads - 1 /\ t.got = Append(s.got, c)
                      /\ t.queue = s.queue /\ t.size = s.size
               /\ s.reads = 0 =>
                      /\ t.reads = 0 /\ t.got = s.got
                      /\ t.queue = Append(s.queue, c) /\ t.size = s.size + SizeOf[c]
               /\ t.pull = IF Pullable(t) /\ WantsMore(t) /\ s.pull = "idle" /\ s.pulls
                           THEN "called" ELSE s.pull
               /\ t.again = (s.again \/ (Pullable(t) /\ WantsMore(t) /\ s.pull # "idle"))
<1>1. PICK u : u = IF s.reads > 0 THEN [s EXCEPT !.reads = @ - 1, !.got = Append(@, c)]
                   ELSE [s EXCEPT !.queue = Append(@, c), !.size = @ + SizeOf[c]]
    OBVIOUS
<1>2. /\ s.reads \in Nat /\ s.size \in Nat
      /\ Append(s.got, c) \in Seq(C \cup {End, Failed}) /\ Append(s.queue, c) \in Seq(C)
    BY DEF ReadableType
<1>3. u \in ReadableType(C)
  <2>1. CASE s.reads > 0
    <3>1. s.reads - 1 \in Nat
        BY <1>2, <2>1
    <3>2. PICK n \in Nat : n = s.reads - 1
        BY <3>1
    <3>3. PICK g \in Seq(C \cup {End, Failed}) : g = Append(s.got, c)
        BY <1>2
    <3>4. u = [s EXCEPT !.reads = n, !.got = g]
        BY <1>1, <2>1, <3>2, <3>3
    <3> QED BY <3>4 DEF ReadableType
  <2>2. CASE ~(s.reads > 0)
    <3>1. PICK n \in Nat : n = s.size + SizeOf[c]
        BY <1>2
    <3>2. PICK q \in Seq(C) : q = Append(s.queue, c)
        BY <1>2
    <3>3. u = [s EXCEPT !.queue = q, !.size = n]
        BY <1>1, <2>2, <3>1, <3>2
    <3> QED BY <3>3 DEF ReadableType
  <2> QED BY <2>1, <2>2
<1>4. /\ u.state = s.state /\ u.closing = s.closing /\ SamePull(u, s)
      /\ s.reads > 0 => /\ u.reads = s.reads - 1 /\ u.got = Append(s.got, c)
                        /\ u.queue = s.queue /\ u.size = s.size
      /\ s.reads = 0 => /\ u.reads = 0 /\ u.got = s.got
                        /\ u.queue = Append(s.queue, c) /\ u.size = s.size + SizeOf[c]
    BY <1>1 DEF ReadableType, SamePull
<1>5. PICK t \in ReadableType(C) : t = Pulled(u)
    BY <1>3, PulledKeeps
<1>6. /\ Alike(t, u)
      /\ t.pull = IF Pullable(u) /\ WantsMore(u) /\ u.pull = "idle" /\ u.pulls
                  THEN "called" ELSE u.pull
      /\ t.again = (u.again \/ (Pullable(u) /\ WantsMore(u) /\ u.pull # "idle"))
    BY <1>3, <1>5, PulledKeeps
<1>7. (Pullable(t) <=> Pullable(u)) /\ (WantsMore(t) <=> WantsMore(u))
    BY <1>6 DEF Alike, Pullable, WantsMore
<1>8. Enqueued(s, c) = t
    BY <1>1, <1>5 DEF Enqueued
<1> QED BY <1>4, <1>6, <1>7, <1>8 DEF Alike, SamePull

(* The reader takes a chunk, waits, or is told how the stream ended.        *)
LEMMA ReadMadeIs ==
    ASSUME NEW C, NEW s \in ReadableType(C)
    PROVE  LET t == ReadMade(s)
           IN  /\ t \in ReadableType(C) /\ t.closing = s.closing
               /\ t.started = s.started /\ t.pulls = s.pulls
               /\ t.state = "readable" => s.state = "readable"
               /\ s.queue = <<>> => t.queue = <<>> /\ t.size = s.size
               /\ s.queue # <<>> =>
                      /\ t.queue = Tail(s.queue)
                      /\ t.size = IF s.size > 0 THEN s.size - 1 ELSE 0
               /\ s.queue # <<>> /\ s.state = "readable" /\ s.reads = 0 =>
                      /\ t.got = Append(s.got, Head(s.queue)) /\ t.reads = 0
                      /\ t.state = IF t.queue = <<>> /\ s.closing THEN "closed" ELSE "readable"
               /\ s.queue = <<>> /\ s.state = "closed" =>
                      /\ t.state = "closed" /\ t.queue = <<>> /\ t.size = s.size /\ t.reads = s.reads
                      /\ t.got = Append(s.got, End)
               /\ s.queue = <<>> /\ s.state = "errored" =>
                      /\ t.state = "errored" /\ t.queue = <<>> /\ t.size = s.size /\ t.reads = s.reads
                      /\ t.got = Append(s.got, Failed)
               /\ s.queue = <<>> /\ s.state = "readable" =>
                      /\ t.state = "readable" /\ t.queue = <<>> /\ t.size = s.size
                      /\ t.reads = s.reads + 1 /\ t.got = s.got
               /\ \/ SamePull(t, s) /\ ~Pullable(t)
                  \/ /\ t.pull = IF Pullable(t) /\ WantsMore(t) /\ s.pull = "idle" /\ s.pulls
                                 THEN "called" ELSE s.pull
                     /\ t.again = (s.again \/ (Pullable(t) /\ WantsMore(t) /\ s.pull # "idle"))
<1>1. CASE s.queue # <<>>
  <2>1. /\ s.size \in Nat /\ Tail(s.queue) \in Seq(C) /\ Head(s.queue) \in C
        /\ Append(s.got, Head(s.queue)) \in Seq(C \cup {End, Failed})
    <3>1. s.size \in Nat /\ s.queue \in Seq(C) /\ s.got \in Seq(C \cup {End, Failed})
        BY DEF ReadableType
    <3>2. Tail(s.queue) \in Seq(C) /\ Head(s.queue) \in C
        BY <1>1, <3>1
    <3> QED BY <3>1, <3>2
  <2>2. PICK n \in Nat : n = IF s.size > 0 THEN s.size - 1 ELSE 0
      BY <2>1
  <2>3. PICK q \in Seq(C) : q = Tail(s.queue)
      BY <2>1
  <2>4. PICK g \in Seq(C \cup {End, Failed}) : g = Append(s.got, Head(s.queue))
      BY <2>1
  <2>5. PICK u : u = [s EXCEPT !.queue = q, !.size = n, !.got = g]
      OBVIOUS
  <2>6. /\ u \in ReadableType(C) /\ u.queue = q /\ u.size = n /\ u.got = g /\ u.state = s.state
        /\ u.closing = s.closing /\ u.reads = s.reads /\ SamePull(u, s)
      BY <2>5 DEF ReadableType, SamePull
  <2>7. u = [s EXCEPT !.queue = Tail(@), !.size = IF @ > 0 THEN @ - 1 ELSE 0,
                      !.got = Append(@, Head(s.queue))]
      BY <2>2, <2>3, <2>4, <2>5 DEF ReadableType
  <2>8. ReadMade(s) = IF u.queue = <<>> /\ u.closing THEN ReadableClosed(u) ELSE Pulled(u)
      BY <1>1, <2>7 DEF ReadMade
  <2>9. CASE u.queue = <<>> /\ u.closing
    <3>1. CASE u.state = "readable"
      <4>1. PICK t : t = ReadableClosed(u)
          OBVIOUS
      <4>2. /\ t \in ReadableType(C) /\ t.state = "closed" /\ t.reads = 0
            /\ t.queue = u.queue /\ t.size = u.size /\ t.closing = u.closing /\ SamePull(t, u)
            /\ u.reads = 0 => t.got = u.got
          BY <2>6, <3>1, <4>1, ClosedIs
      <4>3. ~Pullable(t)
          BY <4>2 DEF Pullable
      <4> QED BY <1>1, <2>2, <2>3, <2>4, <2>6, <2>8, <2>9, <4>1, <4>2, <4>3 DEF SamePull
    <3>2. CASE u.state # "readable"
      <4>1. ReadMade(s) = u
          BY <2>8, <2>9, <3>2 DEF ReadableClosed
      <4>2. ~Pullable(u) /\ s.state # "readable"
          BY <2>6, <3>2 DEF Pullable
      <4> QED BY <1>1, <2>2, <2>3, <2>6, <4>1, <4>2 DEF SamePull
    <3> QED BY <3>1, <3>2
  <2>10. CASE ~(u.queue = <<>> /\ u.closing)
    <3>1. PICK t \in ReadableType(C) : t = Pulled(u)
        BY <2>6, PulledKeeps
    <3>2. /\ Alike(t, u)
          /\ t.pull = IF Pullable(u) /\ WantsMore(u) /\ u.pull = "idle" /\ u.pulls
                      THEN "called" ELSE u.pull
          /\ t.again = (u.again \/ (Pullable(u) /\ WantsMore(u) /\ u.pull # "idle"))
        BY <2>6, <3>1, PulledKeeps
    <3>3. (Pullable(t) <=> Pullable(u)) /\ (WantsMore(t) <=> WantsMore(u))
        BY <3>2 DEF Alike, Pullable, WantsMore
    <3>4. ReadMade(s) = t
        BY <2>8, <2>10, <3>1
    <3>5. /\ t.pull = IF Pullable(t) /\ WantsMore(t) /\ s.pull = "idle" /\ s.pulls
                      THEN "called" ELSE s.pull
          /\ t.again = (s.again \/ (Pullable(t) /\ WantsMore(t) /\ s.pull # "idle"))
        BY <2>6, <3>2, <3>3 DEF SamePull
    <3>6. /\ t.closing = s.closing /\ t.started = s.started /\ t.pulls = s.pulls
          /\ t.queue = q /\ t.got = g /\ t.size = n /\ t.reads = s.reads /\ t.state = s.state
        BY <2>6, <3>2 DEF Alike, SamePull
    <3> QED BY <1>1, <2>2, <2>3, <2>4, <2>6, <2>10, <3>4, <3>5, <3>6
  <2> QED BY <2>9, <2>10
<1>2. CASE s.queue = <<>> /\ s.state \in {"closed", "errored"}
  <2>1. PICK a \in {End, Failed} : ReadMade(s) = [s EXCEPT !.got = Append(@, a)]
                                   /\ a = IF s.state = "closed" THEN End ELSE Failed
      BY <1>2 DEF ReadMade
  <2>2. Append(s.got, a) \in Seq(C \cup {End, Failed})
    <3>1. s.got \in Seq(C \cup {End, Failed})
        BY DEF ReadableType
    <3> QED BY <3>1
  <2>3. PICK g \in Seq(C \cup {End, Failed}) : g = Append(s.got, a)
      BY <2>2
  <2>4. PICK t : t = [s EXCEPT !.got = g]
      OBVIOUS
  <2>5. /\ t \in ReadableType(C) /\ t.got = g /\ t.state = s.state /\ t.queue = s.queue
        /\ t.size = s.size /\ t.closing = s.closing /\ t.reads = s.reads /\ SamePull(t, s)
      BY <2>4 DEF ReadableType, SamePull
  <2>6. ReadMade(s) = t /\ ~Pullable(t)
      BY <1>2, <2>1, <2>3, <2>4, <2>5 DEF Pullable
  <2> QED BY <1>2, <2>1, <2>3, <2>5, <2>6 DEF SamePull
<1>3. CASE s.queue = <<>> /\ s.state = "readable"
  <2>1. PICK n \in Nat : n = s.reads + 1
    <3>1. s.reads \in Nat
        BY DEF ReadableType
    <3> QED BY <3>1
  <2>2. PICK u : u = [s EXCEPT !.reads = n]
      OBVIOUS
  <2>3. /\ u \in ReadableType(C) /\ u.got = s.got /\ u.state = s.state /\ u.queue = s.queue
        /\ u.size = s.size /\ u.closing = s.closing /\ u.reads = n /\ SamePull(u, s)
      BY <2>2 DEF ReadableType, SamePull
  <2>4. ReadMade(s) = Pulled(u)
      BY <1>3, <2>1, <2>2 DEF ReadMade
  <2>5. PICK t \in ReadableType(C) : t = Pulled(u)
      BY <2>3, PulledKeeps
  <2>6. /\ Alike(t, u)
        /\ t.pull = IF Pullable(u) /\ WantsMore(u) /\ u.pull = "idle" /\ u.pulls
                    THEN "called" ELSE u.pull
        /\ t.again = (u.again \/ (Pullable(u) /\ WantsMore(u) /\ u.pull # "idle"))
      BY <2>3, <2>5, PulledKeeps
  <2>7. (Pullable(t) <=> Pullable(u)) /\ (WantsMore(t) <=> WantsMore(u))
      BY <2>6 DEF Alike, Pullable, WantsMore
  <2> QED BY <1>3, <2>1, <2>3, <2>4, <2>5, <2>6, <2>7 DEF Alike, SamePull
<1>4. s.state \in {"readable", "closed", "errored"}
    BY DEF ReadableType
<1> QED BY <1>1, <1>2, <1>3, <1>4

LEMMA TakenIs ==
    ASSUME NEW C, NEW s \in ReadableType(C), s.got # <<>>
    PROVE  LET t == [s EXCEPT !.got = Tail(@)]
           IN  /\ t \in ReadableType(C) /\ t.got = Tail(s.got) /\ SamePull(t, s)
               /\ t.state = s.state /\ t.queue = s.queue /\ t.size = s.size
               /\ t.closing = s.closing /\ t.reads = s.reads
<1>1. s.got \in Seq(C \cup {End, Failed})
    BY DEF ReadableType
<1>2. Tail(s.got) \in Seq(C \cup {End, Failed})
    BY <1>1
<1>3. PICK g \in Seq(C \cup {End, Failed}) : g = Tail(s.got)
    BY <1>2
<1>4. PICK t : t = [s EXCEPT !.got = g]
    OBVIOUS
<1>5. /\ t \in ReadableType(C) /\ t.got = g /\ SamePull(t, s)
      /\ t.state = s.state /\ t.queue = s.queue /\ t.size = s.size
      /\ t.closing = s.closing /\ t.reads = s.reads
    BY <1>4 DEF ReadableType, SamePull
<1>6. t = [s EXCEPT !.got = Tail(@)]
    BY <1>3, <1>4
<1> QED BY <1>3, <1>5, <1>6

-----------------------------------------------------------------------------
(* Each operation keeps what a stream's answers say.                        *)

(* Chunks that are no other answer, and have a size.                        *)
ChunkSet(C) == C \subseteq Nat \ {0} /\ \A c \in C : SizeOf[c] \in Nat

LEMMA AnswersDiffer ==
    ASSUME NEW C, ChunkSet(C)
    PROVE  /\ C \subseteq Nat \ {0} /\ End \notin C /\ Failed \notin C /\ End # Failed
           /\ End = 0 /\ Failed = -1
  BY DEF ChunkSet, End, Failed

LEMMA StreamAlike ==
    ASSUME NEW C, NEW s, NEW t \in ReadableType(C), StreamOK(s, C),
           t.state = s.state, t.queue = s.queue, t.reads = s.reads, t.got = s.got
    PROVE  StreamOK(t, C)
  BY DEF StreamOK

LEMMA StreamEnqueued ==
    ASSUME NEW C, ChunkSet(C), NEW s, StreamOK(s, C), CanEnqueue(s), NEW c \in C
    PROVE  StreamOK(Enqueued(s, c), C)
<1>1. s \in ReadableType(C) /\ s.state = "readable"
    BY DEF StreamOK, CanEnqueue
<1>2. s.queue \in Seq(C) /\ s.reads \in Nat /\ s.got \in Seq(C \cup {End, Failed})
    BY <1>1, ReadableFields
<1>3. PICK t : t = Enqueued(s, c)
    OBVIOUS
<1>4. /\ t \in ReadableType(C) /\ t.state = "readable"
      /\ s.reads > 0 => t.reads = s.reads - 1 /\ t.got = Append(s.got, c) /\ t.queue = s.queue
      /\ s.reads = 0 => t.reads = 0 /\ t.got = s.got /\ t.queue = Append(s.queue, c)
    BY <1>1, <1>3, EnqueuedIs DEF ChunkSet
<1>5. CASE s.reads = 0
  <2>1. t.got = s.got /\ t.reads = 0
      BY <1>4, <1>5
  <2> QED BY <1>1, <1>3, <1>4, <2>1 DEF StreamOK
<1>6. CASE s.reads > 0
  <2>1. \A i \in DOMAIN s.got : s.got[i] \in C
    <3>1. \A i \in DOMAIN s.got : s.got[i] # End /\ s.got[i] # Failed
        BY <1>1 DEF StreamOK
    <3>2. \A i \in DOMAIN s.got : s.got[i] \in C \cup {End, Failed}
        BY <1>2
    <3> QED BY <3>1, <3>2
  <2>2. PICK g \in Seq(C \cup {End, Failed}) : g = s.got
      BY <1>2
  <2>3. \A i \in DOMAIN Append(g, c) : Append(g, c)[i] \in C
      BY <2>1, <2>2
  <2>4. \A i \in DOMAIN t.got : t.got[i] \in C
      BY <1>4, <1>6, <2>2, <2>3
  <2>5. t.queue = <<>>
      BY <1>4, <1>6 DEF StreamOK
  <2> QED BY <1>3, <1>4, <2>4, <2>5, AnswersDiffer DEF StreamOK
<1> QED BY <1>2, <1>5, <1>6

(* A stream that ends answers every read that waits, and all in one way.    *)
LEMMA StreamEnds ==
    ASSUME NEW C, ChunkSet(C), NEW s, StreamOK(s, C), s.state = "readable", NEW a \in {End, Failed},
           NEW t \in ReadableType(C), t.state = (IF a = End THEN "closed" ELSE "errored"),
           t.queue = <<>>, t.reads = 0, Extends(t.got, s.got, a)
    PROVE  StreamOK(t, C)
<1>1. s.got \in Seq(C \cup {End, Failed}) /\ t.got \in Seq(C \cup {End, Failed})
    BY ReadableFields DEF StreamOK
<1>2. \A i \in DOMAIN s.got : s.got[i] \in C
  <2>1. \A i \in DOMAIN s.got : s.got[i] # End /\ s.got[i] # Failed
      BY DEF StreamOK
  <2>2. \A i \in DOMAIN s.got : s.got[i] \in C \cup {End, Failed}
      BY <1>1
  <2> QED BY <2>1, <2>2
<1>3. \A i \in DOMAIN t.got : IF i \in DOMAIN s.got THEN t.got[i] \in C ELSE t.got[i] = a
    BY <1>2 DEF Extends
<1>4. \A i \in DOMAIN t.got : t.got[i] = End => t.state = "closed"
    BY <1>3, AnswersDiffer
<1>5. \A i \in DOMAIN t.got : t.got[i] = Failed => t.state = "errored"
    BY <1>3, AnswersDiffer
<1>6. ASSUME NEW i \in DOMAIN t.got, NEW j \in DOMAIN t.got, i < j, t.got[j] \in C
      PROVE  t.got[i] \in C
  <2>1. j \in DOMAIN s.got
      BY <1>3, <1>6, AnswersDiffer
  <2>2. i \in DOMAIN s.got
    <3>1. DOMAIN s.got = 1..Len(s.got) /\ DOMAIN t.got = 1..Len(t.got) /\ Len(s.got) \in Nat
          /\ Len(t.got) \in Nat
        BY <1>1
    <3> QED BY <1>6, <2>1, <3>1
  <2> QED BY <1>3, <2>2
<1> QED BY <1>4, <1>5, <1>6 DEF StreamOK

LEMMA StreamCloseRequested ==
    ASSUME NEW C, ChunkSet(C), NEW s, StreamOK(s, C), CanEnqueue(s)
    PROVE  StreamOK(CloseRequested(s), C)
<1>1. s \in ReadableType(C) /\ s.state = "readable"
    BY DEF StreamOK, CanEnqueue
<1>2. PICK t : t = CloseRequested(s)
    OBVIOUS
<1>3. /\ t \in ReadableType(C) /\ t.queue = s.queue
      /\ s.queue = <<>> => t.state = "closed" /\ t.reads = 0 /\ Extends(t.got, s.got, End)
      /\ s.queue # <<>> => t.state = "readable" /\ t.reads = s.reads /\ t.got = s.got
    BY <1>1, <1>2, CloseRequestedIs
<1>4. CASE s.queue = <<>>
    BY <1>1, <1>2, <1>3, <1>4, StreamEnds
<1>5. CASE s.queue # <<>>
    BY <1>1, <1>2, <1>3, <1>5, StreamAlike
<1> QED BY <1>4, <1>5

LEMMA StreamErrored ==
    ASSUME NEW C, ChunkSet(C), NEW s, StreamOK(s, C)
    PROVE  StreamOK(ReadableErrored(s), C)
<1>1. CASE s.state = "readable"
  <2>1. PICK t : t = ReadableErrored(s)
      OBVIOUS
  <2>2. /\ t \in ReadableType(C) /\ t.state = "errored" /\ t.reads = 0 /\ t.queue = <<>>
        /\ Extends(t.got, s.got, Failed)
      BY <1>1, <2>1, ErroredIs DEF StreamOK
  <2> QED BY <1>1, <2>1, <2>2, StreamEnds, AnswersDiffer
<1>2. CASE s.state # "readable"
    BY <1>2 DEF ReadableErrored
<1> QED BY <1>1, <1>2

LEMMA StreamCancelled ==
    ASSUME NEW C, ChunkSet(C), NEW s, StreamOK(s, C), s.state = "readable"
    PROVE  StreamOK(ReadableCancelled(s), C)
<1>1. PICK t : t = ReadableCancelled(s)
    OBVIOUS
<1>2. /\ t \in ReadableType(C) /\ t.state = "closed" /\ t.reads = 0 /\ t.queue = <<>>
      /\ Extends(t.got, s.got, End)
    BY <1>1, CancelledIs DEF StreamOK
<1> QED BY <1>1, <1>2, StreamEnds

LEMMA StreamRead ==
    ASSUME NEW C, ChunkSet(C), NEW s, StreamOK(s, C)
    PROVE  StreamOK(ReadMade(s), C)
<1>1. s \in ReadableType(C)
    BY DEF StreamOK
<1>2. /\ s.queue \in Seq(C) /\ s.reads \in Nat /\ s.got \in Seq(C \cup {End, Failed})
      /\ s.state \in {"readable", "closed", "errored"}
    BY <1>1, ReadableFields
<1>3. PICK t : t = ReadMade(s)
    OBVIOUS
<1>4. t \in ReadableType(C)
    BY <1>1, <1>3, ReadMadeIs
<1>5. PICK g \in Seq(C \cup {End, Failed}) : g = s.got
    BY <1>2
<1>6. /\ \A i \in DOMAIN g : g[i] = End => s.state = "closed"
      /\ \A i \in DOMAIN g : g[i] = Failed => s.state = "errored"
      /\ \A i, j \in DOMAIN g : i < j /\ g[j] \in C => g[i] \in C
    BY <1>5 DEF StreamOK
<1>7. \A i \in DOMAIN g : g[i] \in C \cup {End, Failed}
    OBVIOUS
<1>8. CASE s.queue # <<>>
  <2>1. s.state = "readable" /\ s.reads = 0
      BY <1>2, <1>8 DEF StreamOK
  <2>2. Head(s.queue) \in C
      BY <1>2, <1>8
  <2>3. PICK c \in C : c = Head(s.queue)
      BY <2>2
  <2>4. t.got = Append(g, c) /\ t.reads = 0 /\ t.queue = Tail(s.queue)
        /\ t.state = (IF t.queue = <<>> /\ s.closing THEN "closed" ELSE "readable")
      BY <1>1, <1>3, <1>5, <1>8, <2>1, <2>3, ReadMadeIs
  <2>5. \A i \in DOMAIN g : g[i] \in C
      BY <1>6, <1>7, <2>1
  <2>6. \A i \in DOMAIN Append(g, c) : Append(g, c)[i] \in C
      BY <2>5
  <2>7. \A i \in DOMAIN t.got : t.got[i] \in C
      BY <2>4, <2>6
  <2>8. \A i \in DOMAIN t.got : t.got[i] # End /\ t.got[i] # Failed
      BY <2>7, AnswersDiffer
  <2>9. t.state # "readable" => t.queue = <<>>
      BY <2>4
  <2> QED BY <1>3, <1>4, <2>4, <2>7, <2>8, <2>9 DEF StreamOK
<1>9. CASE s.queue = <<>> /\ s.state \in {"closed", "errored"}
  <2>1. PICK a \in {End, Failed} : a = IF s.state = "closed" THEN End ELSE Failed
      OBVIOUS
  <2>2. t.state = s.state /\ t.queue = <<>> /\ t.reads = s.reads /\ t.got = Append(g, a)
      BY <1>1, <1>3, <1>5, <1>9, <2>1, ReadMadeIs
  <2>3. s.reads = 0
      BY <1>9 DEF StreamOK
  <2>4. PICK h : h = Append(g, a)
      OBVIOUS
  <2>5. /\ DOMAIN h = 1..(Len(g) + 1) /\ h[Len(g) + 1] = a /\ \A i \in 1..Len(g) : h[i] = g[i]
        /\ DOMAIN g = 1..Len(g) /\ Len(g) \in Nat
      BY <2>4
  <2>6. \A i \in DOMAIN h : i \in DOMAIN g \/ h[i] = a
      BY <2>5
  <2>7. \A i \in DOMAIN h : h[i] = End => t.state = "closed"
      BY <1>6, <1>9, <2>1, <2>2, <2>5, <2>6, AnswersDiffer
  <2>8. \A i \in DOMAIN h : h[i] = Failed => t.state = "errored"
      BY <1>6, <1>9, <2>1, <2>2, <2>5, <2>6, AnswersDiffer
  <2>9. ASSUME NEW i \in DOMAIN h, NEW j \in DOMAIN h, i < j, h[j] \in C PROVE h[i] \in C
    <3>1. j \in DOMAIN g
        BY <2>6, <2>9, AnswersDiffer
    <3>2. i \in DOMAIN g
        BY <2>5, <2>9, <3>1
    <3> QED BY <1>6, <2>5, <2>9, <3>1, <3>2
  <2> QED BY <1>3, <1>4, <2>2, <2>3, <2>4, <2>7, <2>8, <2>9 DEF StreamOK
<1>10. CASE s.queue = <<>> /\ s.state = "readable"
  <2>1. t.state = "readable" /\ t.queue = <<>> /\ t.got = g
      BY <1>1, <1>3, <1>5, <1>10, ReadMadeIs
  <2> QED BY <1>3, <1>4, <1>6, <1>10, <2>1 DEF StreamOK
<1> QED BY <1>2, <1>8, <1>9, <1>10

(* The first answer has been reacted to.                                    *)
LEMMA StreamTaken ==
    ASSUME NEW C, ChunkSet(C), NEW s, StreamOK(s, C), s.got # <<>>
    PROVE  StreamOK([s EXCEPT !.got = Tail(@)], C)
<1>1. s \in ReadableType(C)
    BY DEF StreamOK
<1>2. PICK t : t = [s EXCEPT !.got = Tail(@)]
    OBVIOUS
<1>3. /\ t \in ReadableType(C) /\ t.got = Tail(s.got) /\ t.state = s.state
      /\ t.queue = s.queue /\ t.reads = s.reads
    BY <1>1, <1>2, TakenIs
<1>4. s.got \in Seq(C \cup {End, Failed})
    BY <1>1, ReadableFields
<1>5. PICK g \in Seq(C \cup {End, Failed}) : g = s.got
    BY <1>4
<1>6. \A i \in DOMAIN Tail(g) : i + 1 \in DOMAIN g /\ Tail(g)[i] = g[i + 1] /\ i \in Nat
    BY <1>5
<1>7. \A i \in DOMAIN t.got : i + 1 \in DOMAIN s.got /\ t.got[i] = s.got[i + 1] /\ i \in Nat
    BY <1>3, <1>5, <1>6
<1>8. \A i, j \in DOMAIN t.got : i < j => i + 1 < j + 1
    BY <1>7
<1> QED BY <1>2, <1>3, <1>7, <1>8 DEF StreamOK

(* releaseLock() with no read waiting.                                      *)
LEMMA ReleasedIdle ==
    ASSUME NEW C, NEW s \in ReadableType(C), s.reads = 0
    PROVE  Released(s) = s
<1>1. PICK t : t = Answered(s, Failed)
    OBVIOUS
<1>2. /\ t \in ReadableType(C) /\ t.reads = 0 /\ t.got = s.got
      /\ \A f \in {"state", "queue", "size", "closing", "started", "pulls", "pull", "again"} :
             t[f] = s[f]
    BY <1>1, AnsweredKeeps
<1>3. /\ t.state = s.state /\ t.queue = s.queue /\ t.size = s.size /\ t.closing = s.closing
      /\ t.started = s.started /\ t.pulls = s.pulls /\ t.pull = s.pull /\ t.again = s.again
    BY <1>2
<1>4. t = s
    BY <1>2, <1>3 DEF ReadableType
<1> QED BY <1>1, <1>4 DEF Released

-----------------------------------------------------------------------------
(* What a step makes of the answers and the queue of a stream.              *)

Stays(t, s) == t.state = s.state /\ t.closing = s.closing /\ t.queue = s.queue /\ t.got = s.got
Takes(t, s, c) ==
    /\ CanEnqueue(t)
    /\ \/ s.queue = <<>> /\ t.queue = <<>> /\ t.got = Append(s.got, c)
       \/ t.got = s.got /\ t.queue = Append(s.queue, c)
Ends(t, s) ==
    /\ ~CanEnqueue(t)
    /\ \E a \in {End, Failed} : Extends(t.got, s.got, a)
    /\ t.queue = <<>> \/ (t.queue = s.queue /\ t.got = s.got)
Gives(t, s) ==
    /\ t.closing = s.closing
    /\ \/ /\ s.queue # <<>>
          /\ t.queue = Tail(s.queue) /\ t.got = Append(s.got, Head(s.queue))
          /\ t.state = s.state \/ (t.state = "closed" /\ s.closing)
       \/ /\ s.queue = <<>> /\ t.queue = <<>> /\ t.state = s.state /\ s.state # "readable"
          /\ \E a \in {End, Failed} : t.got = Append(s.got, a)
       \/ t.state = s.state /\ t.queue = s.queue /\ t.got = s.got

LEMMA EnqueuedTakes ==
    ASSUME NEW C, ChunkSet(C), NEW s, StreamOK(s, C), CanEnqueue(s), NEW c \in C
    PROVE  Takes(Enqueued(s, c), s, c)
<1>1. s \in ReadableType(C)
    BY DEF StreamOK
<1>2. s.reads \in Nat
    BY <1>1, ReadableFields
<1>3. PICK t : t = Enqueued(s, c)
    OBVIOUS
<1>4. /\ t.state = s.state /\ t.closing = s.closing
      /\ s.reads > 0 => t.got = Append(s.got, c) /\ t.queue = s.queue
      /\ s.reads = 0 => t.got = s.got /\ t.queue = Append(s.queue, c)
    BY <1>1, <1>3, EnqueuedIs DEF ChunkSet
<1>5. CanEnqueue(t)
    BY <1>4 DEF CanEnqueue
<1>6. s.reads > 0 => s.queue = <<>>
    BY DEF StreamOK
<1> QED BY <1>2, <1>3, <1>4, <1>5, <1>6 DEF Takes

LEMMA CloseEndsIt ==
    ASSUME NEW C, ChunkSet(C), NEW s, StreamOK(s, C), CanEnqueue(s)
    PROVE  LET t == CloseRequested(s) IN Ends(t, s) /\ t.queue = s.queue /\ t.state # "errored"
<1>1. s \in ReadableType(C)
    BY DEF StreamOK
<1>2. PICK t : t = CloseRequested(s)
    OBVIOUS
<1>3. /\ t \in ReadableType(C) /\ t.closing /\ t.queue = s.queue
      /\ s.queue = <<>> => t.state = "closed" /\ Extends(t.got, s.got, End)
      /\ s.queue # <<>> => t.state = "readable" /\ t.got = s.got
    BY <1>1, <1>2, CloseRequestedIs
<1>4. PICK g \in Seq(C \cup {End, Failed}) : g = s.got
    BY <1>1, ReadableFields
<1>5. Extends(g, g, End)
    BY DEF Extends
<1>6. ~CanEnqueue(t)
    BY <1>3 DEF CanEnqueue
<1> QED BY <1>2, <1>3, <1>4, <1>5, <1>6 DEF Ends

LEMMA ErrorEndsIt ==
    ASSUME NEW C, ChunkSet(C), NEW s, StreamOK(s, C)
    PROVE  LET t == ReadableErrored(s)
           IN  t = s \/ (s.state = "readable" /\ Ends(t, s) /\ t.state = "errored" /\ t.queue = <<>>)
<1>1. CASE s.state = "readable"
  <2>1. PICK t : t = ReadableErrored(s)
      OBVIOUS
  <2>2. t.state = "errored" /\ t.queue = <<>> /\ Extends(t.got, s.got, Failed)
      BY <1>1, <2>1, ErroredIs DEF StreamOK
  <2> QED BY <1>1, <2>1, <2>2 DEF Ends, CanEnqueue
<1>2. CASE s.state # "readable"
    BY <1>2 DEF ReadableErrored
<1> QED BY <1>1, <1>2

LEMMA CancelEndsIt ==
    ASSUME NEW C, ChunkSet(C), NEW s, StreamOK(s, C), s.state = "readable"
    PROVE  Ends(ReadableCancelled(s), s)
<1>1. PICK t : t = ReadableCancelled(s)
    OBVIOUS
<1>2. t.state = "closed" /\ t.queue = <<>> /\ Extends(t.got, s.got, End)
    BY <1>1, CancelledIs DEF StreamOK
<1> QED BY <1>1, <1>2 DEF Ends, CanEnqueue

LEMMA ReadGives ==
    ASSUME NEW C, ChunkSet(C), NEW s, StreamOK(s, C)
    PROVE  Gives(ReadMade(s), s)
<1>1. s \in ReadableType(C)
    BY DEF StreamOK
<1>2. s.state \in {"readable", "closed", "errored"} /\ s.reads \in Nat
    BY <1>1, ReadableFields
<1>3. PICK t : t = ReadMade(s)
    OBVIOUS
<1>4. t.closing = s.closing
    BY <1>1, <1>3, ReadMadeIs
<1>5. CASE s.queue # <<>>
  <2>1. s.state = "readable" /\ s.reads = 0
      BY <1>2, <1>5 DEF StreamOK
  <2>2. /\ t.queue = Tail(s.queue) /\ t.got = Append(s.got, Head(s.queue))
        /\ t.state = (IF t.queue = <<>> /\ s.closing THEN "closed" ELSE "readable")
      BY <1>1, <1>3, <1>5, <2>1, ReadMadeIs
  <2> QED BY <1>3, <1>4, <1>5, <2>1, <2>2 DEF Gives
<1>6. CASE s.queue = <<>> /\ s.state = "closed"
  <2>1. t.state = "closed" /\ t.queue = <<>> /\ t.got = Append(s.got, End)
      BY <1>1, <1>3, <1>6, ReadMadeIs
  <2> QED BY <1>3, <1>4, <1>6, <2>1 DEF Gives
<1>7. CASE s.queue = <<>> /\ s.state = "errored"
  <2>1. t.state = "errored" /\ t.queue = <<>> /\ t.got = Append(s.got, Failed)
      BY <1>1, <1>3, <1>7, ReadMadeIs
  <2> QED BY <1>3, <1>4, <1>7, <2>1 DEF Gives
<1>8. CASE s.queue = <<>> /\ s.state = "readable"
  <2>1. t.state = "readable" /\ t.queue = <<>> /\ t.got = s.got
      BY <1>1, <1>3, <1>8, ReadMadeIs
  <2> QED BY <1>3, <1>4, <1>8, <2>1 DEF Gives
<1> QED BY <1>2, <1>5, <1>6, <1>7, <1>8

-----------------------------------------------------------------------------
(* Sequences that are put together: FlattenSeq, without a recursion.       *)

(* The pieces put together one by one. *)
Joins(f, q) == f = [i \in 1..Len(q) |-> IF i = 1 THEN q[i] ELSE f[i - 1] \o q[i]]

LEMMA FlattenIs ==
    \A q : Len(q) # 0 => FlattenSeq(q) = (CHOOSE f : Joins(f, q))[Len(q)]
BY Zenon DEF FlattenSeq, Joins

LEMMA LeastOf ==
    ASSUME NEW T, T \subseteq Nat, T # {}
    PROVE  \E x \in T : \A y \in T : x <= y
<1> DEFINE I == {1..n : n \in T}
<1>1. I \subseteq FiniteSubsetsOf(Nat) /\ I # {}
  <2>1. ASSUME NEW n \in T PROVE 1..n \in FiniteSubsetsOf(Nat)
    <3>1. n \in Int /\ 1 \in Int
        OBVIOUS
    <3>2. IsFiniteSet(1..n)
        BY <3>1, FS_Interval
    <3>3. 1..n \subseteq Nat
        OBVIOUS
    <3> QED BY <3>2, <3>3 DEF FiniteSubsetsOf
  <2> QED BY <2>1
<1>2. IsWellFoundedOn(StrictSubsetOrdering(Nat), FiniteSubsetsOf(Nat))
    BY FS_StrictSubsetOrderingWellFounded
<1>3. PICK A \in I : \A B \in I : ~(<<B, A>> \in StrictSubsetOrdering(Nat))
  <2> HIDE DEF I
  <2> QED BY <1>1, <1>2, WFMin
<1>4. PICK x \in T : A = 1..x
    OBVIOUS
<1>5. ASSUME NEW y \in T PROVE x <= y
  <2>1. 1..y \in I
      OBVIOUS
  <2>2. ~(<<1..y, A>> \in StrictSubsetOrdering(Nat))
      BY <1>3, <2>1
  <2>3. 1..y \in FiniteSubsetsOf(Nat) /\ A \in FiniteSubsetsOf(Nat)
      BY <1>1, <2>1
  <2>4. ~(1..y \subseteq 1..x /\ 1..y # 1..x)
      BY <1>4, <2>2, <2>3 DEF StrictSubsetOrdering
  <2>5. SUFFICES ASSUME y < x PROVE FALSE
      OBVIOUS
  <2>6. 1..y \subseteq 1..x /\ x \in 1..x /\ x \notin 1..y
      BY <2>5
  <2> QED BY <2>4, <2>6
<1> QED BY <1>5

(* Counting up: a set of numbers that holds 0 and with a number the next.  *)
LEMMA CountUp ==
    ASSUME NEW n \in Nat, NEW T, 0 \in T, \A i \in 0..(n - 1) : i \in T => i + 1 \in T
    PROVE  0..n \subseteq T
<1> DEFINE M == {i \in 0..n : i \notin T}
<1>1. SUFFICES ASSUME M # {} PROVE FALSE
    OBVIOUS
<1>2. M \subseteq Nat
    OBVIOUS
<1>3. PICK x \in M : \A y \in M : x <= y
  <2> HIDE DEF M
  <2> QED BY <1>1, <1>2, LeastOf
<1>4. x \in 0..n /\ x \notin T /\ x # 0
    BY <1>3
<1>5. x - 1 \in 0..(n - 1) /\ x - 1 \in 0..n /\ ~(x <= x - 1)
    BY <1>4
<1>6. x - 1 \in T
    BY <1>3, <1>5
<1>7. (x - 1) + 1 = x
    BY <1>4
<1> QED BY <1>4, <1>5, <1>6, <1>7

(* The partial results of putting together: f[i] is the first i pieces.    *)
Partial(f, q, n, S) ==
    /\ f \in [0..n -> Seq(S)]
    /\ f[0] = <<>>
    /\ \A i \in 1..n : f[i] = f[i - 1] \o q[i]

LEMMA PartialExists ==
    ASSUME NEW S, NEW q \in Seq(Seq(S))
    PROVE  \E f : Partial(f, q, Len(q), S)
<1> DEFINE n == Len(q)
           T == {k \in 0..n : \E f : Partial(f, q, k, S)}
<1>0. n \in Nat
    OBVIOUS
<1>1. 0 \in T
  <2> DEFINE f == [i \in 0..0 |-> <<>>]
  <2>1. f \in [0..0 -> Seq(S)] /\ f[0] = <<>>
      BY EmptySeq
  <2>2. Partial(f, q, 0, S)
      BY <2>1 DEF Partial
  <2> QED BY <1>0, <2>2
<1>2. ASSUME NEW k \in 0..(n - 1), k \in T PROVE k + 1 \in T
  <2>1. PICK f : Partial(f, q, k, S)
      BY <1>2
  <2>2. k \in 0..k /\ k + 1 \in 1..n /\ k \in Nat /\ k + 1 \in 0..n
      BY <1>0, <1>2
  <2>3. q[k + 1] \in Seq(S)
      BY <2>2, ElementOfSeq
  <2> DEFINE g == [i \in 0..(k + 1) |-> IF i <= k THEN f[i] ELSE f[k] \o q[k + 1]]
  <2>4. f[k] \in Seq(S) /\ f[k] \o q[k + 1] \in Seq(S)
      BY <2>1, <2>2, <2>3, ConcatProperties, Zenon DEF Partial
  <2>5. \A i \in 0..(k + 1) : i <= k => i \in 0..k
      BY <2>2
  <2>6. g \in [0..(k + 1) -> Seq(S)]
      BY <2>1, <2>4, <2>5 DEF Partial
  <2>7. g[0] = <<>>
      BY <2>1, <2>2 DEF Partial
  <2>8. ASSUME NEW i \in 1..(k + 1) PROVE g[i] = g[i - 1] \o q[i]
    <3>1. i - 1 \in 0..(k + 1) /\ i - 1 <= k /\ i \in 0..(k + 1)
        BY <2>2
    <3>2. CASE i = k + 1
      <4>0. k + 1 \in 0..(k + 1) /\ ~(k + 1 <= k) /\ k \in 0..(k + 1) /\ k <= k /\ (k + 1) - 1 = k
          BY <2>2
      <4>1. g[k + 1] = f[k] \o q[k + 1] /\ g[k] = f[k]
          BY <4>0
      <4> QED BY <3>2, <4>0, <4>1
    <3>3. CASE i # k + 1
      <4>1. i \in 1..k
          BY <2>2, <3>3
      <4>2. g[i] = f[i] /\ g[i - 1] = f[i - 1]
          BY <2>2, <3>1, <4>1
      <4> QED BY <2>1, <4>1, <4>2 DEF Partial
    <3> QED BY <3>2, <3>3
  <2>9. Partial(g, q, k + 1, S)
    <3> HIDE DEF g
    <3> QED BY <2>6, <2>7, <2>8 DEF Partial
  <2> QED BY <2>2, <2>9
<1>3. 0..n \subseteq T
  <2> HIDE DEF T, n
  <2> QED BY <1>0, <1>1, <1>2, CountUp
<1>4. n \in 0..n
    BY <1>0
<1> QED BY <1>3, <1>4

LEMMA FlattenIsPartial ==
    ASSUME NEW S, NEW q \in Seq(Seq(S)), NEW f, Partial(f, q, Len(q), S)
    PROVE  FlattenSeq(q) = f[Len(q)]
<1> DEFINE n == Len(q)
<1>0. n \in Nat
    OBVIOUS
<1>1. CASE n = 0
  <2>1. q = <<>>
      BY <1>1
  <2>2. FlattenSeq(q) = q
      BY <1>1 DEF FlattenSeq
  <2> QED BY <1>1, <2>1, <2>2 DEF Partial
<1>2. CASE n # 0
  <2> DEFINE h == CHOOSE j : Joins(j, q)
             e == [i \in 1..n |-> f[i]]
  <2>1. Joins(e, q)
    <3>1. ASSUME NEW i \in 1..n PROVE e[i] = IF i = 1 THEN q[i] ELSE e[i - 1] \o q[i]
      <4>1. /\ f[i] = f[i - 1] \o q[i]
            /\ q[i] \in Seq(S)
            /\ i - 1 \in 0..n
        <5>1. f[i] = f[i - 1] \o q[i]
            BY DEF Partial
        <5>2. q[i] \in Seq(S)
            BY ElementOfSeq
        <5>3. i - 1 \in 0..n
            BY <1>0
        <5> QED BY <5>1, <5>2, <5>3
      <4>2. CASE i = 1
        <5>1. f[i - 1] = <<>>
            BY <4>2 DEF Partial
        <5>2. <<>> \o q[i] = q[i]
            BY <4>1, ConcatEmptySeq, Zenon
        <5> QED BY <4>1, <4>2, <5>1, <5>2
      <4>3. CASE i # 1
        <5>1. i - 1 \in 1..n
            BY <1>0, <4>3
        <5> QED BY <4>1, <4>3, <5>1
      <4> QED BY <4>2, <4>3
    <3> QED BY <3>1 DEF Joins
  <2>2. Joins(h, q)
    <3> HIDE DEF e
    <3> QED BY <2>1, Zenon
  <2> DEFINE T == {0} \cup {i \in 1..n : h[i] = f[i]}
  <2>3. ASSUME NEW i \in 0..(n - 1), i \in T PROVE i + 1 \in T
    <3>1. i + 1 \in 1..n /\ (i + 1) - 1 = i
        BY <1>0, <2>3
    <3> HIDE DEF h
    <3>2. h[i + 1] = IF i + 1 = 1 THEN q[i + 1] ELSE h[(i + 1) - 1] \o q[i + 1]
        BY <2>2, <3>1 DEF Joins
    <3>3. e[i + 1] = IF i + 1 = 1 THEN q[i + 1] ELSE e[(i + 1) - 1] \o q[i + 1]
      <4> HIDE DEF e
      <4> QED BY <2>1, <3>1 DEF Joins
    <3>4. e[i + 1] = f[i + 1]
        BY <3>1
    <3>5. CASE i = 0
        BY <3>1, <3>2, <3>3, <3>4, <3>5
    <3>6. CASE i # 0
      <4>1. i \in 1..n /\ h[i] = f[i]
          BY <1>0, <2>3, <3>6
      <4>2. e[i] = f[i]
          BY <4>1
      <4> QED BY <3>1, <3>2, <3>3, <3>4, <3>6, <4>1, <4>2
    <3> QED BY <3>5, <3>6
  <2>4. 0..n \subseteq T
    <3> HIDE DEF T, n
    <3>1. 0 \in T
        BY DEF T
    <3> QED BY <1>0, <2>3, <3>1, CountUp
  <2>5. h[n] = f[n]
    <3> HIDE DEF h
    <3> QED BY <1>0, <1>2, <2>4
  <2>6. FlattenSeq(q) = h[n]
      BY <1>2, FlattenIs, Zenon
  <2> QED BY <2>5, <2>6
<1> QED BY <1>1, <1>2

(* What putting together gives.                                            *)
LEMMA FlattenType ==
    ASSUME NEW S, NEW q \in Seq(Seq(S))
    PROVE  FlattenSeq(q) \in Seq(S)
<1>0. PICK n \in Nat : n = Len(q)
    OBVIOUS
<1>1. PICK f : Partial(f, q, n, S)
    BY <1>0, PartialExists
<1>2. f[n] \in Seq(S)
    BY <1>1 DEF Partial
<1>3. FlattenSeq(q) = f[n]
    BY <1>0, <1>1, FlattenIsPartial
<1> QED BY <1>2, <1>3

LEMMA FlattenNone == FlattenSeq(<<>>) = <<>>
BY DEF FlattenSeq

(* Two sequences of pieces that agree up to m, or but for the first.        *)
Joined(x, a, b) == x = a \o b
Agree(q, p, m) == \A i \in 1..m : q[i] = p[i]
Shifted(q, p, m, S) == q[1] \in Seq(S) /\ \A i \in 1..m : p[i] = q[i + 1] /\ p[i] \in Seq(S)

LEMMA PartialGrows ==
    ASSUME NEW S, NEW q, NEW p, NEW f, NEW g, NEW m \in Nat,
           Partial(f, q, m, S), Partial(g, p, m + 1, S), Agree(q, p, m)
    PROVE  Joined(g[m + 1], f[m], p[m + 1])
<1> DEFINE T == {i \in 0..m : f[i] = g[i]}
<1>1. 0 \in T
  <2>1. f[0] = <<>> /\ g[0] = <<>>
      BY DEF Partial
  <2> QED BY <2>1
<1>2. ASSUME NEW i \in 0..(m - 1), i \in T PROVE i + 1 \in T
  <2>1. i + 1 \in 1..m /\ i + 1 \in 1..(m + 1) /\ (i + 1) - 1 = i /\ i + 1 \in 0..m
      OBVIOUS
  <2>2. f[i + 1] = f[(i + 1) - 1] \o q[i + 1] /\ g[i + 1] = g[(i + 1) - 1] \o p[i + 1] /\ q[i + 1] = p[i + 1]
      BY <2>1 DEF Partial, Agree
  <2>3. f[i] = g[i]
      BY <1>2
  <2> QED BY <2>1, <2>2, <2>3
<1>3. 0..m \subseteq T
  <2> HIDE DEF T
  <2> QED BY <1>1, <1>2, CountUp
<1>4. m + 1 \in 1..(m + 1) /\ (m + 1) - 1 = m /\ m \in 0..m
    OBVIOUS
<1>5. g[m + 1] = g[(m + 1) - 1] \o p[m + 1]
    BY <1>4, Zenon DEF Partial
<1> QED BY <1>3, <1>4, <1>5 DEF Joined

LEMMA FlattenAppend ==
    ASSUME NEW S, NEW q \in Seq(Seq(S)), NEW c \in Seq(S)
    PROVE  Joined(FlattenSeq(Append(q, c)), FlattenSeq(q), c)
<1>1. PICK m \in Nat : m = Len(q)
    OBVIOUS
<1>2. PICK p : p = Append(q, c)
    OBVIOUS
<1>3. /\ p \in Seq(Seq(S)) /\ Len(p) = m + 1
      /\ \A i \in 1..m : p[i] = q[i]
      /\ p[m + 1] = c
    BY <1>1, <1>2
<1>4. PICK f : Partial(f, q, m, S)
    BY <1>1, PartialExists
<1>5. PICK g : Partial(g, p, m + 1, S)
    BY <1>3, PartialExists
<1>6. Agree(q, p, m)
    BY <1>3 DEF Agree
<1>7. Joined(g[m + 1], f[m], p[m + 1])
    BY <1>4, <1>5, <1>6, PartialGrows, Zenon
<1>8. FlattenSeq(p) = g[m + 1] /\ FlattenSeq(q) = f[m]
    BY <1>1, <1>3, <1>4, <1>5, FlattenIsPartial
<1> QED BY <1>2, <1>3, <1>7, <1>8 DEF Joined

Associates(a, b, c) == (a \o b) \o c = a \o (b \o c)
LEMMA JoinsAssociate == \A S : \A a, b, c \in Seq(S) : Associates(a, b, c)
BY ConcatAssociative DEF Associates

LEMMA FlattenConcat ==
    ASSUME NEW S, NEW a \in Seq(Seq(S)), NEW b \in Seq(Seq(S))
    PROVE  FlattenSeq(a \o b) = FlattenSeq(a) \o FlattenSeq(b)
<1> DEFINE Holds(x) == FlattenSeq(a \o x) = FlattenSeq(a) \o FlattenSeq(x)
           n == Len(b)
           T == {k \in 0..n : \A x \in Seq(Seq(S)) : Len(x) = k => Holds(x)}
<1>0. n \in Nat
    BY LenProperties
<1>1. 0 \in T
  <2>1. ASSUME NEW x \in Seq(Seq(S)), Len(x) = 0 PROVE Holds(x)
    <3>1. x = <<>>
        BY <2>1, EmptySeq
    <3>2. a \o x = a
        BY <3>1, ConcatEmptySeq
    <3>3. FlattenSeq(x) = <<>>
        BY <3>1, FlattenNone
    <3>4. FlattenSeq(a) \in Seq(S)
        BY FlattenType
    <3> QED BY <3>2, <3>3, <3>4, ConcatEmptySeq, Zenon
  <2> QED BY <1>0, <2>1
<1>2. ASSUME NEW k \in 0..(n - 1), k \in T PROVE k + 1 \in T
  <2>0. k + 1 \in 0..n /\ k \in Nat
      BY <1>0
  <2>1. ASSUME NEW x \in Seq(Seq(S)), Len(x) = k + 1 PROVE Holds(x)
    <3>1. x # <<>>
        BY <2>0, <2>1, EmptySeq
    <3>2. PICK c \in Seq(Seq(S)), e \in Seq(S) : x = Append(c, e)
        BY <3>1, SequenceEmptyOrAppend
    <3>3. Len(c) \in Nat /\ Len(x) = Len(c) + 1
        BY <3>2, AppendProperties, LenProperties
    <3>4. Len(c) = k
        BY <2>0, <2>1, <3>3
    <3>5. Holds(c)
        BY <1>2, <3>4
    <3>6. a \o c \in Seq(Seq(S))
        BY ConcatProperties
    <3>7. a \o x = Append(a \o c, e)
      <4>1. <<e>> \in Seq(Seq(S))
          OBVIOUS
      <4>2. x = c \o <<e>> /\ Append(a \o c, e) = (a \o c) \o <<e>>
          BY <3>2, <3>6, AppendIsConcat, Zenon
      <4>3. Associates(a, c, <<e>>)
          BY <4>1, JoinsAssociate
      <4> QED BY <4>2, <4>3, Zenon DEF Associates
    <3>8. Joined(FlattenSeq(Append(a \o c, e)), FlattenSeq(a \o c), e) /\ Joined(FlattenSeq(Append(c, e)), FlattenSeq(c), e)
        BY <3>6, FlattenAppend
    <3>9. FlattenSeq(a) \in Seq(S) /\ FlattenSeq(c) \in Seq(S)
        BY FlattenType
    <3>10. (FlattenSeq(a) \o FlattenSeq(c)) \o e = FlattenSeq(a) \o (FlattenSeq(c) \o e)
      <4>1. PICK fa \in Seq(S), fc \in Seq(S) : fa = FlattenSeq(a) /\ fc = FlattenSeq(c)
          BY <3>9
      <4>2. Associates(fa, fc, e)
          BY JoinsAssociate
      <4> QED BY <4>1, <4>2, Zenon DEF Associates
    <3> QED BY <3>2, <3>5, <3>7, <3>8, <3>10, Zenon DEF Joined
  <2> HIDE DEF Holds
  <2> QED BY <2>0, <2>1
<1>3. 0..n \subseteq T
  <2> HIDE DEF T, n
  <2> QED BY <1>0, <1>1, <1>2, CountUp
<1>4. n \in T
  <2> HIDE DEF T, n
  <2> QED BY <1>0, <1>3
<1> QED BY <1>4

LEMMA FlattenSingle ==
    ASSUME NEW S, NEW c \in Seq(S)
    PROVE  FlattenSeq(<<c>>) = c
<1>1. <<>> \in Seq(Seq(S)) /\ Append(<<>>, c) = <<c>>
    OBVIOUS
<1>2. Joined(FlattenSeq(Append(<<>>, c)), FlattenSeq(<<>>), c)
    BY <1>1, FlattenAppend
<1> QED BY <1>1, <1>2, FlattenNone, ConcatEmptySeq, Zenon DEF Joined

(* PiecesOf that are all empty give nothing.                                 *)
LEMMA FlattenEmpties ==
    ASSUME NEW S, NEW q \in Seq(Seq(S)), \A i \in 1..Len(q) : q[i] = <<>>
    PROVE  FlattenSeq(q) = <<>>
<1>0. PICK n \in Nat : n = Len(q)
    BY LenProperties
<1>1. PICK f : Partial(f, q, n, S)
    BY <1>0, PartialExists
<1> DEFINE T == {k \in 0..n : f[k] = <<>>}
<1>2. 0 \in T
  <2>1. f[0] = <<>>
      BY <1>1 DEF Partial
  <2> QED BY <2>1
<1>3. ASSUME NEW k \in 0..(n - 1), k \in T PROVE k + 1 \in T
  <2>1. k + 1 \in 1..n /\ k + 1 \in 0..n /\ (k + 1) - 1 = k
      OBVIOUS
  <2>2. f[k + 1] = f[(k + 1) - 1] \o q[k + 1]
      BY <1>1, <2>1 DEF Partial
  <2>3. q[k + 1] = <<>> /\ f[k] = <<>>
      BY <1>0, <1>3, <2>1
  <2>4. f[k + 1] = <<>> \o <<>>
      BY <2>1, <2>2, <2>3, Zenon
  <2>5. <<>> \in Seq(S)
      BY EmptySeq
  <2> QED BY <2>1, <2>4, <2>5, ConcatEmptySeq
<1>4. 0..n \subseteq T
  <2> HIDE DEF T
  <2> QED BY <1>2, <1>3, CountUp
<1>5. f[n] = <<>>
    BY <1>4
<1> QED BY <1>0, <1>1, <1>5, FlattenIsPartial

-----------------------------------------------------------------------------
(* Each element of a list replaced by what it gives: Chosen(list, g).      *)
Each(list, g) == [i \in 1..Len(list) |-> g[list[i]]]
Chosen(list, g) == FlattenSeq(Each(list, g))

Piecewise(p, list, g, R) ==
    p \in Seq(Seq(R)) /\ Len(p) = Len(list) /\ \A i \in 1..Len(list) : p[i] = g[list[i]]

LEMMA EachIs ==
    ASSUME NEW S, NEW R, NEW list \in Seq(S), NEW g \in [S -> Seq(R)]
    PROVE  Piecewise(Each(list, g), list, g, R)
<1>1. Len(list) \in Nat /\ \A i \in 1..Len(list) : list[i] \in S
    BY LenProperties, ElementOfSeq
<1>2. \A i \in 1..Len(list) : g[list[i]] \in Seq(R)
    BY <1>1
<1>3. Each(list, g) \in Seq(Seq(R))
    BY <1>1, <1>2, IsASeq DEF Each
<1> QED BY <1>1, <1>2, <1>3 DEF Each, Piecewise

LEMMA ChosenType ==
    ASSUME NEW S, NEW R, NEW list \in Seq(S), NEW g \in [S -> Seq(R)]
    PROVE  Chosen(list, g) \in Seq(R)
BY EachIs, FlattenType DEF Chosen, Piecewise

LEMMA ChosenNone == \A g : Chosen(<<>>, g) = <<>>
<1> TAKE g
<1>1. Len(<<>>) = 0 /\ Each(<<>>, g) = <<>>
    BY DEF Each
<1> QED BY <1>1, FlattenNone DEF Chosen

LEMMA ChosenConcat ==
    ASSUME NEW S, NEW R, NEW a \in Seq(S), NEW b \in Seq(S), NEW g \in [S -> Seq(R)]
    PROVE  Joined(Chosen(a \o b, g), Chosen(a, g), Chosen(b, g))
<1>1. /\ a \o b \in Seq(S) /\ Len(a \o b) = Len(a) + Len(b) /\ Len(a) \in Nat /\ Len(b) \in Nat
      /\ \A i \in 1..Len(a) + Len(b) : (a \o b)[i] = IF i <= Len(a) THEN a[i] ELSE b[i - Len(a)]
    BY ConcatProperties, LenProperties
<1>2. PICK p, q, pq : p = Each(a, g) /\ q = Each(b, g) /\ pq = Each(a \o b, g)
    OBVIOUS
<1>3. /\ p \in Seq(Seq(R)) /\ Len(p) = Len(a) /\ \A i \in 1..Len(a) : p[i] = g[a[i]]
      /\ q \in Seq(Seq(R)) /\ Len(q) = Len(b) /\ \A i \in 1..Len(b) : q[i] = g[b[i]]
      /\ pq \in Seq(Seq(R)) /\ Len(pq) = Len(a \o b) /\ \A i \in 1..Len(a \o b) : pq[i] = g[(a \o b)[i]]
  <2>1. PICK ab \in Seq(S) : ab = a \o b
      BY <1>1
  <2>2. Piecewise(p, a, g, R)
      BY <1>2, EachIs
  <2>3. Piecewise(q, b, g, R)
      BY <1>2, EachIs
  <2>4. Piecewise(pq, ab, g, R)
      BY <1>2, <2>1, EachIs
  <2> QED BY <2>1, <2>2, <2>3, <2>4 DEF Piecewise
<1>4. /\ p \o q \in Seq(Seq(R)) /\ Len(p \o q) = Len(p) + Len(q)
      /\ \A i \in 1..Len(p) + Len(q) : (p \o q)[i] = IF i <= Len(p) THEN p[i] ELSE q[i - Len(p)]
  <2>1. p \in Seq(Seq(R)) /\ q \in Seq(Seq(R))
      BY <1>3
  <2> QED BY <2>1, ConcatProperties
<1>5. ASSUME NEW i \in 1..Len(pq) PROVE pq[i] = (p \o q)[i]
  <2>1. i \in 1..Len(a) + Len(b) /\ i \in 1..Len(a \o b) /\ i \in 1..Len(p) + Len(q)
      BY <1>1, <1>3
  <2>2. CASE i <= Len(a)
    <3>1. i \in 1..Len(a)
        BY <1>1, <2>1, <2>2
    <3> QED BY <1>1, <1>3, <1>4, <2>1, <2>2, <3>1
  <2>3. CASE ~(i <= Len(a))
    <3>1. i - Len(a) \in 1..Len(b)
        BY <1>1, <2>1, <2>3
    <3>2. pq[i] = g[(a \o b)[i]] /\ (a \o b)[i] = b[i - Len(a)]
        BY <1>1, <1>3, <2>1, <2>3
    <3>3. (p \o q)[i] = q[i - Len(p)] /\ q[i - Len(a)] = g[b[i - Len(a)]] /\ Len(p) = Len(a)
        BY <1>3, <1>4, <2>1, <2>3, <3>1
    <3> QED BY <3>2, <3>3
  <2> QED BY <2>2, <2>3
<1>6. pq = p \o q
  <2>1. PICK r \in Seq(Seq(R)) : r = p \o q
      BY <1>4
  <2>2. Len(pq) = Len(r) /\ pq \in Seq(Seq(R)) /\ \A i \in 1..Len(pq) : pq[i] = r[i]
      BY <1>1, <1>3, <1>4, <1>5, <2>1
  <2>3. pq = r
      BY <2>2, SeqEqual
  <2> QED BY <2>1, <2>3
<1>7. FlattenSeq(p \o q) = FlattenSeq(p) \o FlattenSeq(q)
    BY <1>3, FlattenConcat
<1> QED BY <1>2, <1>6, <1>7, Zenon DEF Chosen, Joined

LEMMA ChosenSingle ==
    ASSUME NEW S, NEW R, NEW e \in S, NEW g \in [S -> Seq(R)]
    PROVE  Chosen(<<e>>, g) = g[e]
<1>1. Each(<<e>>, g) = <<g[e]>>
    BY DEF Each
<1> QED BY <1>1, FlattenSingle DEF Chosen

LEMMA ChosenSame ==
    ASSUME NEW list, NEW g, NEW h, \A i \in 1..Len(list) : g[list[i]] = h[list[i]]
    PROVE  Chosen(list, g) = Chosen(list, h)
<1>1. Each(list, g) = Each(list, h)
    BY DEF Each
<1> QED BY <1>1 DEF Chosen

LEMMA ChosenNothing ==
    ASSUME NEW S, NEW R, NEW list \in Seq(S), NEW g \in [S -> Seq(R)], \A i \in 1..Len(list) : g[list[i]] = <<>>
    PROVE  Chosen(list, g) = <<>>
<1>1. PICK p : p = Each(list, g)
    OBVIOUS
<1>2. Piecewise(p, list, g, R)
    BY <1>1, EachIs
<1>3. p \in Seq(Seq(R)) /\ \A i \in 1..Len(p) : p[i] = <<>>
    BY <1>2 DEF Piecewise
<1> QED BY <1>1, <1>3, FlattenEmpties DEF Chosen

(* Chosen from what was chosen.                                            *)
Composed(both, g, h, S, R, Q) ==
    g \in [S -> Seq(R)] /\ h \in [R -> Seq(Q)] /\ both = [e \in S |-> Chosen(g[e], h)]
LEMMA ChosenTwice ==
    ASSUME NEW S, NEW R, NEW Q, NEW list \in Seq(S), NEW g, NEW h, NEW both, Composed(both, g, h, S, R, Q)
    PROVE  Chosen(Chosen(list, g), h) = Chosen(list, both)
<1> g \in [S -> Seq(R)] /\ h \in [R -> Seq(Q)]
    BY DEF Composed
<1> DEFINE c == [e \in S |-> Chosen(g[e], h)]
           Holds(x) == Chosen(Chosen(x, g), h) = Chosen(x, c)
           n == Len(list)
           T == {k \in 0..n : \A x \in Seq(S) : Len(x) = k => Holds(x)}
<1>0. n \in Nat
    BY LenProperties
<1>a. c \in [S -> Seq(Q)]
  <2>1. ASSUME NEW e \in S PROVE Chosen(g[e], h) \in Seq(Q)
      BY ChosenType
  <2> QED BY <2>1
<1>1. 0 \in T
  <2>1. ASSUME NEW x \in Seq(S), Len(x) = 0 PROVE Holds(x)
    <3>1. x = <<>>
        BY <2>1, EmptySeq
    <3>2. Chosen(<<>>, g) = <<>> /\ Chosen(<<>>, h) = <<>> /\ Chosen(<<>>, c) = <<>>
        BY ChosenNone, Zenon
    <3> HIDE DEF c
    <3> QED BY <3>1, <3>2, Zenon
  <2> QED BY <1>0, <2>1
<1>2. ASSUME NEW k \in 0..(n - 1), k \in T PROVE k + 1 \in T
  <2>0. k + 1 \in 0..n /\ k \in Nat
      BY <1>0
  <2>1. ASSUME NEW x \in Seq(S), Len(x) = k + 1 PROVE Holds(x)
    <3>1. x # <<>>
        BY <2>0, <2>1, EmptySeq
    <3>2. PICK y \in Seq(S), e \in S : x = Append(y, e)
        BY <3>1, SequenceEmptyOrAppend
    <3>3. Len(y) \in Nat /\ Len(x) = Len(y) + 1
        BY <3>2, AppendProperties, LenProperties
    <3>4. Len(y) = k
        BY <2>0, <2>1, <3>3
    <3>5. Holds(y)
        BY <1>2, <3>4
    <3>6. x = y \o <<e>> /\ <<e>> \in Seq(S)
        BY <3>2, AppendIsConcat
    <3>7. Chosen(x, g) = Chosen(y, g) \o g[e]
      <4>1. PICK z \in Seq(S) : z = <<e>>
          BY <3>6
      <4>2. Joined(Chosen(y \o z, g), Chosen(y, g), Chosen(z, g))
          BY ChosenConcat
      <4>3. Chosen(<<e>>, g) = g[e]
          BY ChosenSingle
      <4> QED BY <3>6, <4>1, <4>2, <4>3, Zenon DEF Joined
    <3>8. Chosen(x, c) = Chosen(y, c) \o Chosen(g[e], h)
      <4> HIDE DEF c
      <4>0. PICK z \in Seq(S) : z = <<e>>
          BY <3>6
      <4>4. Joined(Chosen(y \o z, c), Chosen(y, c), Chosen(z, c))
          BY <1>a, ChosenConcat
      <4>1. Chosen(x, c) = Chosen(y, c) \o Chosen(<<e>>, c)
          BY <3>6, <4>0, <4>4, Zenon DEF Joined
      <4>2. Chosen(<<e>>, c) = c[e]
          BY <1>a, ChosenSingle
      <4>3. c[e] = Chosen(g[e], h)
          BY DEF c
      <4> QED BY <4>1, <4>2, <4>3
    <3>9. Chosen(Chosen(y, g) \o g[e], h) = Chosen(Chosen(y, g), h) \o Chosen(g[e], h)
      <4>1. Chosen(y, g) \in Seq(R) /\ g[e] \in Seq(R)
          BY ChosenType
      <4>2. PICK u \in Seq(R), v \in Seq(R) : u = Chosen(y, g) /\ v = g[e]
          BY <4>1
      <4>3. Joined(Chosen(u \o v, h), Chosen(u, h), Chosen(v, h))
          BY ChosenConcat
      <4> QED BY <4>2, <4>3, Zenon DEF Joined
    <3> HIDE DEF c
    <3> QED BY <3>5, <3>7, <3>8, <3>9, Zenon
  <2> HIDE DEF Holds
  <2> QED BY <2>0, <2>1
<1>3. 0..n \subseteq T
  <2> HIDE DEF T, n
  <2> QED BY <1>0, <1>1, <1>2, CountUp
<1>4. n \in T
  <2> HIDE DEF T, n
  <2> QED BY <1>0, <1>3
<1> QED BY <1>4 DEF Composed

(* A list around one of its elements.                                      *)
Preceding(list, i) == SubSeq(list, 1, i - 1)
Following(list, i) == SubSeq(list, i + 1, Len(list))
Around(list, a, e, b) == list = (a \o <<e>>) \o b

LEMMA Halved ==
    ASSUME NEW S, NEW list \in Seq(S), NEW i \in 1..Len(list)
    PROVE  /\ Preceding(list, i) \in Seq(S) /\ Following(list, i) \in Seq(S)
           /\ Len(Preceding(list, i)) = i - 1 /\ \A j \in 1..(i - 1) : Preceding(list, i)[j] = list[j]
           /\ Len(Following(list, i)) = Len(list) - i /\ \A j \in 1..(Len(list) - i) : Following(list, i)[j] = list[i + j]
<1>0. Len(list) \in Nat /\ \A j \in 1..Len(list) : list[j] \in S
    BY LenProperties, ElementOfSeq
<1>1. /\ Preceding(list, i) \in Seq(S) /\ Len(Preceding(list, i)) = i - 1
      /\ \A j \in 1..(i - 1) : Preceding(list, i)[j] = list[j]
  <2>1. 1 \in Int /\ i - 1 \in Int /\ \A j \in 1..(i - 1) : list[j] \in S
      BY <1>0
  <2> QED BY <1>0, <2>1, SubSeqProperties DEF Preceding
<1>2. /\ Following(list, i) \in Seq(S) /\ Len(Following(list, i)) = Len(list) - i
      /\ \A j \in 1..(Len(list) - i) : Following(list, i)[j] = list[i + j]
  <2>1. i + 1 \in Int /\ Len(list) \in Int /\ \A j \in (i + 1)..Len(list) : list[j] \in S
      BY <1>0
  <2> QED BY <1>0, <2>1, SubSeqProperties DEF Following
<1> QED BY <1>1, <1>2

LEMMA IsAround ==
    ASSUME NEW S, NEW list \in Seq(S), NEW i \in 1..Len(list)
    PROVE  Around(list, Preceding(list, i), list[i], Following(list, i))
<1>0. Len(list) \in Nat /\ list[i] \in S
    BY LenProperties, ElementOfSeq
<1>1. PICK a \in Seq(S), b \in Seq(S), c \in Seq(S) : a = Preceding(list, i) /\ b = Following(list, i) /\ c = <<list[i]>>
  <2>1. <<list[i]>> \in Seq(S)
      BY <1>0
  <2>2. Preceding(list, i) \in Seq(S) /\ Following(list, i) \in Seq(S)
      BY Halved
  <2> QED BY <2>1, <2>2
<1>2. /\ Len(a) = i - 1 /\ \A j \in 1..(i - 1) : a[j] = list[j]
      /\ Len(b) = Len(list) - i /\ \A j \in 1..(Len(list) - i) : b[j] = list[i + j]
      /\ Len(c) = 1 /\ c[1] = list[i]
    BY <1>0, <1>1, Halved
<1>3. PICK ac \in Seq(S) : ac = a \o c
    BY ConcatProperties
<1>4. Len(ac) = i /\ \A j \in 1..i : ac[j] = list[j]
  <2>1. Len(ac) = Len(a) + Len(c) /\ \A j \in 1..(Len(a) + Len(c)) : ac[j] = IF j <= Len(a) THEN a[j] ELSE c[j - Len(a)]
      BY <1>3, ConcatProperties
  <2>2. Len(ac) = i
      BY <1>0, <1>2, <2>1
  <2>3. ASSUME NEW j \in 1..i PROVE ac[j] = list[j]
    <3>1. CASE j = i
        BY <1>0, <1>2, <2>1, <3>1
    <3>2. CASE j # i
      <4>1. j \in 1..(i - 1) /\ j <= Len(a) /\ j \in 1..(Len(a) + Len(c))
          BY <1>0, <1>2, <3>2
      <4> QED BY <1>2, <2>1, <4>1
    <3> QED BY <3>1, <3>2
  <2> QED BY <2>2, <2>3
<1>5. ac \o b \in Seq(S) /\ Len(ac \o b) = Len(list) /\ \A j \in 1..Len(list) : (ac \o b)[j] = list[j]
  <2>1. /\ ac \o b \in Seq(S) /\ Len(ac \o b) = Len(ac) + Len(b)
        /\ \A j \in 1..(Len(ac) + Len(b)) : (ac \o b)[j] = IF j <= Len(ac) THEN ac[j] ELSE b[j - Len(ac)]
      BY ConcatProperties
  <2>2. Len(ac) + Len(b) = Len(list)
      BY <1>0, <1>2, <1>4
  <2>3. ASSUME NEW j \in 1..Len(list) PROVE (ac \o b)[j] = list[j]
    <3>1. CASE j <= i
        BY <1>0, <1>4, <2>1, <2>2, <3>1
    <3>2. CASE ~(j <= i)
      <4>1. j - i \in 1..(Len(list) - i) /\ i + (j - i) = j
          BY <1>0, <3>2
      <4> QED BY <1>0, <1>2, <1>4, <2>1, <2>2, <3>2, <4>1
    <3> QED BY <3>1, <3>2
  <2> QED BY <2>1, <2>2, <2>3
<1>6. ac \o b = list
    BY <1>5, SeqEqual
<1> QED BY <1>1, <1>3, <1>6 DEF Around

Threefold(x, a, c, b) == x = (a \o c) \o b

LEMMA ChosenAround ==
    ASSUME NEW S, NEW R, NEW g \in [S -> Seq(R)], NEW a \in Seq(S), NEW e \in S, NEW b \in Seq(S), NEW list,
           Around(list, a, e, b)
    PROVE  Threefold(Chosen(list, g), Chosen(a, g), g[e], Chosen(b, g))
<1>0. <<e>> \in Seq(S)
    OBVIOUS
<1>1. PICK c \in Seq(S) : c = <<e>>
    BY <1>0
<1>2. PICK ac \in Seq(S) : ac = a \o c
    BY ConcatProperties
<1>3. Joined(Chosen(a \o c, g), Chosen(a, g), Chosen(c, g)) /\ Joined(Chosen(ac \o b, g), Chosen(ac, g), Chosen(b, g))
    BY ChosenConcat
<1>4. Chosen(<<e>>, g) = g[e]
    BY ChosenSingle
<1> QED BY <1>1, <1>2, <1>3, <1>4, Zenon DEF Joined, Around, Threefold

(* One element of a list replaced.                                         *)
LEMMA Replaced ==
    ASSUME NEW S, NEW list \in Seq(S), NEW i \in 1..Len(list), NEW e \in S, NEW new \in Seq(S),
           Len(new) = Len(list), \A j \in 1..Len(list) : new[j] = IF j = i THEN e ELSE list[j]
    PROVE  Around(new, Preceding(list, i), e, Following(list, i))
<1>0. Len(list) \in Nat
    BY LenProperties
<1>1. new \in Seq(S) /\ Len(new) = Len(list) /\ \A j \in 1..Len(list) : new[j] = IF j = i THEN e ELSE list[j]
    OBVIOUS
<1>2. Around(new, Preceding(new, i), new[i], Following(new, i)) /\ new[i] = e
    BY <1>1, IsAround
<1>3. i \in 1..Len(new)
    BY <1>1
<1>4. PICK a, b : a = Preceding(list, i) /\ b = Following(list, i)
    OBVIOUS
<1>5. PICK c, d : c = Preceding(new, i) /\ d = Following(new, i)
    OBVIOUS
<1>6. /\ a \in Seq(S) /\ Len(a) = i - 1 /\ \A j \in 1..(i - 1) : a[j] = list[j]
      /\ b \in Seq(S) /\ Len(b) = Len(list) - i /\ \A j \in 1..(Len(list) - i) : b[j] = list[i + j]
    BY <1>4, Halved
<1>7. /\ c \in Seq(S) /\ Len(c) = i - 1 /\ \A j \in 1..(i - 1) : c[j] = new[j]
      /\ d \in Seq(S) /\ Len(d) = Len(new) - i /\ \A j \in 1..(Len(new) - i) : d[j] = new[i + j]
  <2>1. new \in Seq(S)
      BY <1>1
  <2> QED BY <1>3, <1>5, <2>1, Halved
<1>8. a = c
  <2>1. \A j \in 1..(i - 1) : new[j] = list[j]
      BY <1>0, <1>1
  <2>2. \A j \in 1..Len(a) : a[j] = c[j]
      BY <1>6, <1>7, <2>1
  <2> QED BY <1>6, <1>7, <2>2, SeqEqual
<1>9. b = d
  <2>1. \A j \in 1..(Len(list) - i) : new[i + j] = list[i + j]
      BY <1>0, <1>1
  <2>2. \A j \in 1..Len(b) : b[j] = d[j]
      BY <1>1, <1>6, <1>7, <2>1
  <2> QED BY <1>1, <1>6, <1>7, <2>2, SeqEqual
<1> QED BY <1>1, <1>2, <1>4, <1>5, <1>8, <1>9

(* The first position there is.                                            *)
LEMMA MinIs ==
    ASSUME NEW T, T \subseteq Nat, T # {}
    PROVE  Min(T) \in T /\ \A y \in T : Min(T) <= y
<1>1. PICK x \in T : \A y \in T : x <= y
    BY LeastOf
<1> QED BY <1>1, Zenon DEF Min

-----------------------------------------------------------------------------
(* Headers and FormData.                                                    *)
HeaderName == {"a", Cookie}
Entry == {e \in [name : HeaderName, values : Seq(Nat)] : e.name = Cookie => Len(e.values) = 1}

(* What an entry gives to a list: its values, itself if it has a name, or  *)
(* itself if it has another; and what tells nothing of any name but one.   *)
ValuesIn(n) == [e \in Entry |-> IF e.name = n THEN e.values ELSE <<>>]
Those(n) == [e \in Entry |-> IF e.name = n THEN <<e>> ELSE <<>>]
Besides(n) == [e \in Entry |-> IF e.name = n THEN <<>> ELSE <<e>>]
Of(n, h, R) == h \in [Entry -> Seq(R)] /\ \A e \in Entry : e.name # n => h[e] = <<>>

LEMMA EachIsOf ==
    ASSUME NEW n
    PROVE  /\ Of(n, ValuesIn(n), Nat) /\ Of(n, Those(n), Entry)
           /\ ValuesIn(n) \in [Entry -> Seq(Nat)] /\ Those(n) \in [Entry -> Seq(Entry)]
           /\ Besides(n) \in [Entry -> Seq(Entry)]
<1>1. \A e \in Entry : e.values \in Seq(Nat) /\ <<e>> \in Seq(Entry)
    BY DEF Entry
<1>2. <<>> \in Seq(Nat) /\ <<>> \in Seq(Entry)
    BY EmptySeq
<1>3. ValuesIn(n) \in [Entry -> Seq(Nat)]
    BY <1>1, <1>2 DEF ValuesIn
<1>4. Those(n) \in [Entry -> Seq(Entry)]
    BY <1>1, <1>2 DEF Those
<1>5. Besides(n) \in [Entry -> Seq(Entry)]
    BY <1>1, <1>2 DEF Besides
<1>6. \A e \in Entry : e.name # n => ValuesIn(n)[e] = <<>> /\ Those(n)[e] = <<>>
    BY DEF ValuesIn, Those
<1> QED BY <1>3, <1>4, <1>5, <1>6 DEF Of

LEMMA ListsAreChosen ==
    ASSUME NEW list \in Seq(Entry), NEW n
    PROVE  /\ ValuesOf(list, n) = Chosen(list, ValuesIn(n))
           /\ Filtered(list, Named(list, n)) = Chosen(list, Those(n))
           /\ DeletedHeader(list, n) = Chosen(list, Besides(n))
<1>1. Len(list) \in Nat /\ DOMAIN list = 1..Len(list) /\ \A i \in 1..Len(list) : list[i] \in Entry
    BY LenProperties, ElementOfSeq
<1>2. ValuesOf(list, n) = Chosen(list, ValuesIn(n))
  <2>1. [i \in DOMAIN list |-> IF list[i].name = n THEN list[i].values ELSE <<>>] = Each(list, ValuesIn(n))
      BY <1>1 DEF Each, ValuesIn
  <2> QED BY <2>1 DEF ValuesOf, Chosen
<1>3. Filtered(list, Named(list, n)) = Chosen(list, Those(n))
  <2>1. [i \in DOMAIN list |-> IF i \in Named(list, n) THEN <<list[i]>> ELSE <<>>] = Each(list, Those(n))
      BY <1>1 DEF Each, Those, Named
  <2> QED BY <2>1 DEF Filtered, Chosen
<1>4. DeletedHeader(list, n) = Chosen(list, Besides(n))
  <2>1. [i \in DOMAIN list |-> IF i \in DOMAIN list \ Named(list, n) THEN <<list[i]>> ELSE <<>>] = Each(list, Besides(n))
      BY <1>1 DEF Each, Besides, Named
  <2> QED BY <2>1 DEF DeletedHeader, Filtered, Chosen
<1> QED BY <1>2, <1>3, <1>4

(* What is left when the entries of a name go, or stay.                    *)
LEMMA ChosenOfKept ==
    ASSUME NEW list \in Seq(Entry), NEW m, NEW n, NEW h, NEW W, Of(n, h, W)
    PROVE  Chosen(Chosen(list, Besides(m)), h) = IF m = n THEN <<>> ELSE Chosen(list, h)
<1>0. h \in [Entry -> Seq(W)] /\ \A i \in 1..Len(list) : list[i] \in Entry
    BY ElementOfSeq DEF Of
<1>5. \A e \in Entry : e.name # n => h[e] = <<>>
    BY DEF Of
<1>1. Chosen(<<>>, h) = <<>>
    BY ChosenNone, Zenon
<1>2. \A e \in Entry : Chosen(<<e>>, h) = h[e]
    BY <1>0, ChosenSingle
<1>3. Chosen(Chosen(list, Besides(m)), h) = IF m = n THEN <<>> ELSE Chosen(list, h)
  <2>0. PICK k \in [Entry -> Seq(Entry)] : k = Besides(m)
      BY EachIsOf
  <2>6. PICK g : Composed(g, k, h, Entry, Entry, W)
      BY <1>0 DEF Composed
  <2>1. Chosen(Chosen(list, Besides(m)), h) = Chosen(list, g)
    <3>2. Chosen(Chosen(list, k), h) = Chosen(list, g)
        BY <2>6, ChosenTwice
    <3> QED BY <2>0, <3>2
  <2>2. \A e \in Entry : g[e] = IF e.name = m THEN <<>> ELSE h[e]
      BY <1>1, <1>2, <2>0, <2>6 DEF Composed, Besides
  <2>3. g \in [Entry -> Seq(W)]
    <3>1. <<>> \in Seq(W) /\ \A e \in Entry : h[e] \in Seq(W)
        BY <1>0, EmptySeq
    <3> QED BY <2>2, <2>6, <3>1 DEF Composed
  <2>4. CASE m = n
    <3>1. \A i \in 1..Len(list) : g[list[i]] = <<>>
      <4>1. \A e \in Entry : g[e] = <<>>
          BY <1>5, <2>2, <2>4
      <4> QED BY <1>0, <4>1
    <3>2. Chosen(list, g) = <<>>
        BY <2>3, <3>1, ChosenNothing
    <3> QED BY <2>1, <2>4, <3>2
  <2>5. CASE m # n
    <3>1. \A i \in 1..Len(list) : g[list[i]] = h[list[i]]
      <4>1. \A e \in Entry : g[e] = h[e]
          BY <1>5, <2>2, <2>5
      <4> QED BY <1>0, <4>1
    <3> QED BY <2>1, <2>5, <3>1, ChosenSame
  <2> QED BY <2>4, <2>5
<1> QED BY <1>3

LEMMA ChosenOfThose ==
    ASSUME NEW list \in Seq(Entry), NEW m, NEW n, NEW h, NEW W, Of(n, h, W)
    PROVE  Chosen(Chosen(list, Those(m)), h) = IF m = n THEN Chosen(list, h) ELSE <<>>
<1>0. h \in [Entry -> Seq(W)] /\ \A i \in 1..Len(list) : list[i] \in Entry
    BY ElementOfSeq DEF Of
<1>5. \A e \in Entry : e.name # n => h[e] = <<>>
    BY DEF Of
<1>1. Chosen(<<>>, h) = <<>>
    BY ChosenNone, Zenon
<1>2. \A e \in Entry : Chosen(<<e>>, h) = h[e]
    BY <1>0, ChosenSingle
<1>4. Chosen(Chosen(list, Those(m)), h) = IF m = n THEN Chosen(list, h) ELSE <<>>
  <2>0. PICK k \in [Entry -> Seq(Entry)] : k = Those(m)
      BY EachIsOf
  <2>6. PICK g : Composed(g, k, h, Entry, Entry, W)
      BY <1>0 DEF Composed
  <2>1. Chosen(Chosen(list, Those(m)), h) = Chosen(list, g)
    <3>2. Chosen(Chosen(list, k), h) = Chosen(list, g)
        BY <2>6, ChosenTwice
    <3> QED BY <2>0, <3>2
  <2>2. \A e \in Entry : g[e] = IF e.name = m THEN h[e] ELSE <<>>
      BY <1>1, <1>2, <2>0, <2>6 DEF Composed, Those
  <2>3. g \in [Entry -> Seq(W)]
    <3>1. <<>> \in Seq(W) /\ \A e \in Entry : h[e] \in Seq(W)
        BY <1>0, EmptySeq
    <3> QED BY <2>2, <2>6, <3>1 DEF Composed
  <2>4. CASE m # n
    <3>1. \A i \in 1..Len(list) : g[list[i]] = <<>>
      <4>1. \A e \in Entry : g[e] = <<>>
          BY <1>5, <2>2, <2>4
      <4> QED BY <1>0, <4>1
    <3>2. Chosen(list, g) = <<>>
        BY <2>3, <3>1, ChosenNothing
    <3> QED BY <2>1, <2>4, <3>2
  <2>5. CASE m = n
    <3>1. \A i \in 1..Len(list) : g[list[i]] = h[list[i]]
      <4>1. \A e \in Entry : g[e] = h[e]
          BY <1>5, <2>2, <2>5
      <4> QED BY <1>0, <4>1
    <3> QED BY <2>1, <2>5, <3>1, ChosenSame
  <2> QED BY <2>4, <2>5
<1> QED BY <1>4

(* A list with at most one entry of a name but "set-cookie".               *)
Sole(list) == \A n \in HeaderName : n # Cookie => Len(Chosen(list, Those(n))) <= 1
(* new has the values of list, but for those of m.                         *)
Says(new, list, m, values) ==
    \A n \in HeaderName : ValuesOf(new, n) = IF n = m THEN values ELSE ValuesOf(list, n)
EntryOf(m, values) == [name |-> m, values |-> values]

LEMMA NoneNamed ==
    ASSUME NEW list \in Seq(Entry), NEW m, \A i \in 1..Len(list) : list[i].name # m, NEW h, NEW W, Of(m, h, W)
    PROVE  Chosen(list, h) = <<>>
<1>1. h \in [Entry -> Seq(W)] /\ \A i \in 1..Len(list) : list[i] \in Entry
    BY ElementOfSeq DEF Of
<1>2. \A i \in 1..Len(list) : h[list[i]] = <<>>
    BY <1>1 DEF Of
<1> QED BY <1>1, <1>2, ChosenNothing

LEMMA FirstNamed ==
    ASSUME NEW list \in Seq(Entry), NEW m, Named(list, m) # {}, NEW i, i = Min(Named(list, m))
    PROVE  i \in 1..Len(list) /\ list[i].name = m /\ \A j \in 1..(i - 1) : list[j].name # m
<1>1. Len(list) \in Nat /\ DOMAIN list = 1..Len(list)
    BY LenProperties
<1>2. PICK T : T = Named(list, m)
    OBVIOUS
<1>3. T = {j \in 1..Len(list) : list[j].name = m}
    BY <1>1, <1>2 DEF Named
<1>4. T \subseteq Nat /\ T # {}
    BY <1>1, <1>2, <1>3
<1>5. i \in T /\ \A y \in T : i <= y
    BY <1>2, <1>4, MinIs
<1>6. i \in 1..Len(list) /\ list[i].name = m
    BY <1>3, <1>5
<1>7. ASSUME NEW j \in 1..(i - 1) PROVE list[j].name # m
  <2>1. j \in 1..Len(list) /\ ~(i <= j)
      BY <1>1, <1>6
  <2> QED BY <1>3, <1>5, <2>1
<1> QED BY <1>6, <1>7

LEMMA ChosenAppend ==
    ASSUME NEW list \in Seq(Entry), NEW e \in Entry, NEW n, NEW h, NEW W, Of(n, h, W)
    PROVE  /\ Append(list, e) \in Seq(Entry)
           /\ Chosen(Append(list, e), h) = Chosen(list, h) \o h[e]
<1>0. <<e>> \in Seq(Entry)
    OBVIOUS
<1>1. PICK c \in Seq(Entry) : c = <<e>>
    BY <1>0
<1>2. h \in [Entry -> Seq(W)]
    BY DEF Of
<1>3. Joined(Chosen(list \o c, h), Chosen(list, h), Chosen(c, h))
    BY <1>2, ChosenConcat
<1>4. Chosen(<<e>>, h) = h[e]
    BY <1>2, ChosenSingle
<1>5. Append(list, e) = list \o <<e>> /\ Append(list, e) \in Seq(Entry)
    BY AppendIsConcat, AppendProperties
<1> QED BY <1>1, <1>3, <1>4, <1>5, Zenon DEF Joined

(* Values and entries of a name, type by type.                             *)
LEMMA ChosenTypes ==
    ASSUME NEW list \in Seq(Entry), NEW n, NEW h, NEW W, Of(n, h, W)
    PROVE  Chosen(list, h) \in Seq(W) /\ \A e \in Entry : h[e] \in Seq(W)
<1>1. h \in [Entry -> Seq(W)]
    BY DEF Of
<1> QED BY <1>1, ChosenType

LEMMA DeletedSays ==
    ASSUME NEW list \in Seq(Entry), NEW m
    PROVE  /\ DeletedHeader(list, m) \in Seq(Entry) /\ Says(DeletedHeader(list, m), list, m, <<>>)
           /\ Sole(list) => Sole(DeletedHeader(list, m))
<1>1. PICK new : new = DeletedHeader(list, m)
    OBVIOUS
<1>2. new = Chosen(list, Besides(m))
    BY <1>1, ListsAreChosen
<1>3. new \in Seq(Entry)
    BY <1>2, EachIsOf, ChosenType
<1>4. ASSUME NEW n, NEW h, NEW W, Of(n, h, W) PROVE Chosen(new, h) = IF m = n THEN <<>> ELSE Chosen(list, h)
    BY <1>2, <1>4, ChosenOfKept
<1>5. Says(new, list, m, <<>>)
  <2>1. ASSUME NEW n \in HeaderName PROVE ValuesOf(new, n) = IF n = m THEN <<>> ELSE ValuesOf(list, n)
    <3>1. ValuesOf(new, n) = Chosen(new, ValuesIn(n)) /\ ValuesOf(list, n) = Chosen(list, ValuesIn(n))
        BY <1>3, ListsAreChosen
    <3>2. Of(n, ValuesIn(n), Nat)
        BY EachIsOf
    <3> QED BY <1>4, <3>1, <3>2
  <2> QED BY <2>1 DEF Says
<1>6. ASSUME Sole(list) PROVE Sole(new)
  <2>1. ASSUME NEW n \in HeaderName, n # Cookie PROVE Len(Chosen(new, Those(n))) <= 1
    <3>1. Of(n, Those(n), Entry)
        BY EachIsOf
    <3>2. Chosen(new, Those(n)) = IF m = n THEN <<>> ELSE Chosen(list, Those(n))
        BY <1>4, <3>1
    <3>3. Len(Chosen(list, Those(n))) <= 1
        BY <1>6, <2>1 DEF Sole
    <3> QED BY <3>2, <3>3
  <2> QED BY <2>1 DEF Sole
<1> QED BY <1>1, <1>3, <1>5, <1>6

LEMMA SetChosen ==
    ASSUME NEW list \in Seq(Entry), NEW m, NEW v, EntryOf(m, v) \in Entry,
           NEW n, NEW h, NEW W, Of(n, h, W), NEW new, new = SetHeader(list, m, v)
    PROVE  new \in Seq(Entry) /\ Chosen(new, h) = IF m = n THEN h[EntryOf(m, v)] ELSE Chosen(list, h)
<1>0. Len(list) \in Nat /\ DOMAIN list = 1..Len(list) /\ \A i \in 1..Len(list) : list[i] \in Entry
    BY LenProperties, ElementOfSeq
<1>1. PICK e \in Entry : e = EntryOf(m, v)
    OBVIOUS
<1>2. Chosen(list, h) \in Seq(W) /\ h[e] \in Seq(W)
    BY ChosenTypes
<1>3. m # n => h[e] = <<>>
    BY <1>1 DEF Of, EntryOf
<1>4. CASE Named(list, m) = {}
  <2>1. new = Append(list, e)
      BY <1>1, <1>4 DEF SetHeader, EntryOf
  <2>2. new \in Seq(Entry) /\ Chosen(new, h) = Chosen(list, h) \o h[e]
      BY <2>1, ChosenAppend
  <2>3. CASE m = n
    <3>1. \A i \in 1..Len(list) : list[i].name # m
        BY <1>0, <1>4 DEF Named
    <3>2. Chosen(list, h) = <<>>
        BY <2>3, <3>1, NoneNamed
    <3> QED BY <1>1, <1>2, <2>2, <2>3, <3>2, ConcatEmptySeq
  <2>4. CASE m # n
      BY <1>2, <1>3, <2>2, <2>4, ConcatEmptySeq
  <2> QED BY <2>3, <2>4
<1>5. CASE Named(list, m) # {}
  <2>1. PICK i : i = Min(Named(list, m))
      OBVIOUS
  <2>2. i \in 1..Len(list) /\ list[i].name = m /\ \A j \in 1..(i - 1) : list[j].name # m
      BY <1>5, <2>1, FirstNamed
  <2>3. PICK a \in Seq(Entry), b \in Seq(Entry) : a = Preceding(list, i) /\ b = Following(list, i)
      BY <2>2, Halved
  <2>4. PICK d \in Seq(Entry) : d = DeletedHeader(b, m)
      BY DeletedSays
  <2>5. new = (a \o <<e>>) \o d
      BY <1>1, <1>5, <2>1, <2>3, <2>4, Zenon DEF SetHeader, EntryOf, Preceding, Following
  <2>6. h \in [Entry -> Seq(W)] /\ list[i] \in Entry
      BY <1>0, <2>2 DEF Of
  <2>7. Chosen(new, h) = (Chosen(a, h) \o h[e]) \o Chosen(d, h)
    <3>1. Around(new, a, e, d)
        BY <2>5 DEF Around
    <3>2. Threefold(Chosen(new, h), Chosen(a, h), h[e], Chosen(d, h))
        BY <2>6, <3>1, ChosenAround
    <3> QED BY <3>2 DEF Threefold
  <2>8. Chosen(list, h) = (Chosen(a, h) \o h[list[i]]) \o Chosen(b, h)
    <3>1. PICK c \in Entry : c = list[i]
        BY <2>6
    <3>2. Around(list, a, c, b)
        BY <2>2, <2>3, <3>1, IsAround
    <3>3. Threefold(Chosen(list, h), Chosen(a, h), h[c], Chosen(b, h))
        BY <2>6, <3>2, ChosenAround
    <3> QED BY <3>1, <3>3 DEF Threefold
  <2>9. Chosen(d, h) = IF m = n THEN <<>> ELSE Chosen(b, h)
    <3>1. d = Chosen(b, Besides(m))
        BY <2>4, ListsAreChosen
    <3> QED BY <3>1, ChosenOfKept
  <2>10. new \in Seq(Entry)
    <3>1. <<e>> \in Seq(Entry)
        OBVIOUS
    <3>2. a \o <<e>> \in Seq(Entry)
        BY <3>1, ConcatProperties
    <3> QED BY <2>5, <3>2, ConcatProperties
  <2>11. CASE m = n
    <3>1. \A j \in 1..Len(a) : a[j].name # m
      <4>1. Len(a) = i - 1 /\ \A j \in 1..(i - 1) : a[j] = list[j]
          BY <2>2, <2>3, Halved
      <4> QED BY <2>2, <4>1
    <3>2. Chosen(a, h) = <<>>
        BY <2>11, <3>1, NoneNamed
    <3>3. Chosen(new, h) = (<<>> \o h[e]) \o <<>>
        BY <2>7, <2>9, <2>11, <3>2
    <3> QED BY <1>1, <1>2, <2>10, <2>11, <3>3, ConcatEmptySeq
  <2>12. CASE m # n
    <3>1. h[e] = <<>> /\ h[list[i]] = <<>>
        BY <1>3, <2>2, <2>6, <2>12 DEF Of
    <3>2. Chosen(new, h) = Chosen(list, h)
        BY <2>7, <2>8, <2>9, <2>12, <3>1
    <3> QED BY <2>10, <2>12, <3>2
  <2> QED BY <2>11, <2>12
<1> QED BY <1>4, <1>5

LEMMA SetSays ==
    ASSUME NEW list \in Seq(Entry), NEW m, NEW v, EntryOf(m, v) \in Entry
    PROVE  /\ SetHeader(list, m, v) \in Seq(Entry) /\ Says(SetHeader(list, m, v), list, m, v)
           /\ Sole(list) => Sole(SetHeader(list, m, v))
<1>1. PICK new : new = SetHeader(list, m, v)
    OBVIOUS
<1>2. PICK e \in Entry : e = EntryOf(m, v) /\ e.name = m /\ e.values = v
    BY DEF EntryOf
<1>3. ASSUME NEW n PROVE new \in Seq(Entry) /\ Chosen(new, ValuesIn(n)) = IF m = n THEN v ELSE Chosen(list, ValuesIn(n))
  <2>1. ValuesIn(n)[e] = IF m = n THEN v ELSE <<>>
      BY <1>2 DEF ValuesIn
  <2>2. Of(n, ValuesIn(n), Nat)
      BY EachIsOf
  <2> QED BY <1>1, <1>2, <2>1, <2>2, SetChosen
<1>4. ASSUME NEW n PROVE Len(Chosen(new, Those(n))) = IF m = n THEN 1 ELSE Len(Chosen(list, Those(n)))
  <2>1. m = n => Those(n)[e] = <<e>>
      BY <1>2 DEF Those
  <2>2. Of(n, Those(n), Entry)
      BY EachIsOf
  <2>3. Chosen(new, Those(n)) = IF m = n THEN Those(n)[e] ELSE Chosen(list, Those(n))
    <3>1. PICK h : h = Those(n)
        OBVIOUS
    <3>2. Chosen(new, h) = IF m = n THEN h[EntryOf(m, v)] ELSE Chosen(list, h)
        BY <1>1, <2>2, <3>1, SetChosen
    <3> QED BY <1>2, <3>1, <3>2
  <2>4. CASE m = n
    <3>1. Chosen(new, Those(n)) = <<e>> /\ Len(<<e>>) = 1
        BY <2>1, <2>3, <2>4
    <3> QED BY <2>4, <3>1
  <2>5. CASE m # n
      BY <2>3, <2>5
  <2> QED BY <2>4, <2>5
<1>5. new \in Seq(Entry)
    BY <1>3
<1>6. Says(new, list, m, v)
  <2>1. ASSUME NEW n \in HeaderName PROVE ValuesOf(new, n) = IF n = m THEN v ELSE ValuesOf(list, n)
    <3>1. ValuesOf(new, n) = Chosen(new, ValuesIn(n)) /\ ValuesOf(list, n) = Chosen(list, ValuesIn(n))
        BY <1>5, ListsAreChosen
    <3> QED BY <1>3, <3>1
  <2> QED BY <2>1 DEF Says
<1>7. ASSUME Sole(list) PROVE Sole(new)
  <2>1. ASSUME NEW n \in HeaderName, n # Cookie PROVE Len(Chosen(new, Those(n))) <= 1
    <3>1. Len(Chosen(list, Those(n))) <= 1
        BY <1>7, <2>1 DEF Sole
    <3>2. Len(Chosen(new, Those(n))) = IF m = n THEN 1 ELSE Len(Chosen(list, Those(n)))
        BY <1>4
    <3> QED BY <3>1, <3>2
  <2> QED BY <2>1 DEF Sole
<1> QED BY <1>1, <1>5, <1>6, <1>7

(* append() of a FormData, and of Headers.                                 *)
LEMMA EntrySays ==
    ASSUME NEW list \in Seq(Entry), NEW m, NEW v, EntryOf(m, v) \in Entry
    PROVE  /\ Append(list, EntryOf(m, v)) \in Seq(Entry)
           /\ Says(Append(list, EntryOf(m, v)), list, m, ValuesOf(list, m) \o v)
<1>1. PICK e \in Entry : e = EntryOf(m, v) /\ e.name = m /\ e.values = v
    BY DEF EntryOf
<1>2. PICK new \in Seq(Entry) : new = Append(list, e)
    BY AppendProperties
<1>3. ASSUME NEW n PROVE ValuesOf(new, n) = IF n = m THEN ValuesOf(list, m) \o v ELSE ValuesOf(list, n)
  <2>1. Of(n, ValuesIn(n), Nat)
      BY EachIsOf
  <2>2. ValuesIn(n)[e] = IF n = m THEN v ELSE <<>>
      BY <1>1 DEF ValuesIn
  <2>3. Chosen(Append(list, e), ValuesIn(n)) = Chosen(list, ValuesIn(n)) \o ValuesIn(n)[e]
      BY <2>1, ChosenAppend
  <2>4. Chosen(list, ValuesIn(n)) \in Seq(Nat)
      BY <2>1, ChosenTypes
  <2>5. ValuesOf(new, n) = Chosen(new, ValuesIn(n)) /\ ValuesOf(list, n) = Chosen(list, ValuesIn(n))
      BY ListsAreChosen
  <2>6. Chosen(list, ValuesIn(n)) \o <<>> = Chosen(list, ValuesIn(n))
      BY <2>4, ConcatEmptySeq
  <2>7. CASE n = m
      BY <1>2, <2>2, <2>3, <2>5, <2>7
  <2>8. CASE n # m
      BY <1>2, <2>2, <2>3, <2>5, <2>6, <2>8
  <2> QED BY <2>7, <2>8
<1> QED BY <1>1, <1>2, <1>3 DEF Says

LEMMA AppendedSays ==
    ASSUME NEW list \in Seq(Entry), Sole(list), NEW m \in HeaderName, NEW v, EntryOf(m, v) \in Entry,
           NEW new, new = AppendedHeader(list, m, v)
    PROVE  new \in Seq(Entry) /\ Sole(new) /\ Says(new, list, m, ValuesOf(list, m) \o v)
<1>0. Len(list) \in Nat /\ DOMAIN list = 1..Len(list) /\ \A i \in 1..Len(list) : list[i] \in Entry
    BY LenProperties, ElementOfSeq
<1>a. v \in Seq(Nat)
    BY DEF EntryOf, Entry
<1>1. CASE m = Cookie \/ Named(list, m) = {}
  <2>1. PICK e \in Entry : e = EntryOf(m, v) /\ e.name = m
      BY DEF EntryOf
  <2>2. new = Append(list, e)
      BY <1>1, <2>1 DEF AppendedHeader, EntryOf
  <2>3. new \in Seq(Entry) /\ Says(new, list, m, ValuesOf(list, m) \o v)
      BY <2>1, <2>2, EntrySays
  <2>4. ASSUME NEW n \in HeaderName, n # Cookie PROVE Len(Chosen(new, Those(n))) <= 1
    <3>1. Of(n, Those(n), Entry)
        BY EachIsOf
    <3>2. Chosen(Append(list, e), Those(n)) = Chosen(list, Those(n)) \o Those(n)[e]
        BY <3>1, ChosenAppend
    <3>3. PICK x \in Seq(Entry) : x = Chosen(list, Those(n))
        BY <3>1, ChosenTypes
    <3>4. PICK y \in Seq(Entry) : y = Those(n)[e]
        BY <3>1, ChosenTypes
    <3>5. Len(x) <= 1 /\ Len(x) \in Nat
        BY <2>4, <3>3, LenProperties DEF Sole
    <3>6. Len(x \o y) = Len(x) + Len(y)
        BY ConcatProperties
    <3>7. CASE n = m
      <4>1. \A i \in 1..Len(list) : list[i].name # m
          BY <1>0, <1>1, <2>4, <3>7 DEF Named
      <4>2. x = <<>> /\ Len(<<>>) = 0
          BY <3>1, <3>3, <3>7, <4>1, NoneNamed
      <4>3. y = <<e>> /\ Len(<<e>>) = 1
          BY <2>1, <3>4, <3>7 DEF Those
      <4> QED BY <2>2, <3>2, <3>3, <3>4, <3>6, <4>2, <4>3
    <3>8. CASE n # m
      <4>1. y = <<>> /\ Len(<<>>) = 0
          BY <2>1, <3>4, <3>8 DEF Those
      <4> QED BY <2>2, <3>2, <3>3, <3>4, <3>5, <3>6, <4>1
    <3> QED BY <3>7, <3>8
  <2> QED BY <2>3, <2>4 DEF Sole
<1>2. CASE ~(m = Cookie \/ Named(list, m) = {})
  <2>1. PICK i : i = Min(Named(list, m))
      OBVIOUS
  <2>2. i \in 1..Len(list) /\ list[i].name = m /\ \A j \in 1..(i - 1) : list[j].name # m
      BY <1>2, <2>1, FirstNamed
  <2>3. PICK a \in Seq(Entry), b \in Seq(Entry) : a = Preceding(list, i) /\ b = Following(list, i)
      BY <2>2, Halved
  <2>4. PICK c \in Entry : c = list[i] /\ c.name = m /\ c.values \in Seq(Nat)
      BY <1>0, <2>2 DEF Entry
  <2>5. PICK e \in Entry : e.name = m /\ e.values = c.values \o v /\ e = [c EXCEPT !.values = @ \o v]
    <3>1. c.values \o v \in Seq(Nat)
        BY <1>a, <2>4, ConcatProperties
    <3> QED BY <1>2, <2>4, <3>1 DEF Entry
  <2>6. new = [list EXCEPT ![i] = e]
      BY <1>2, <2>1, <2>4, <2>5 DEF AppendedHeader
  <2>7. new \in Seq(Entry) /\ Around(new, a, e, b)
    <3>1. /\ new \in Seq(Entry) /\ Len(new) = Len(list)
          /\ \A j \in 1..Len(list) : new[j] = IF j = i THEN e ELSE list[j]
        BY <2>2, <2>6, ExceptSeq
    <3> QED BY <2>2, <2>3, <3>1, Replaced
  <2>8. Around(list, a, c, b)
      BY <2>2, <2>3, <2>4, IsAround
  <2>9. \A j \in 1..Len(a) : a[j].name # m
    <3>1. Len(a) = i - 1 /\ \A j \in 1..(i - 1) : a[j] = list[j]
        BY <2>2, <2>3, Halved
    <3> QED BY <2>2, <3>1
  <2>10. ASSUME NEW n, NEW h, NEW W, Of(n, h, W)
         PROVE  /\ Chosen(new, h) = (Chosen(a, h) \o h[e]) \o Chosen(b, h)
                /\ Chosen(list, h) = (Chosen(a, h) \o h[c]) \o Chosen(b, h)
                /\ n # m => h[e] = <<>> /\ h[c] = <<>>
                /\ n = m => Chosen(a, h) = <<>>
    <3>0. h \in [Entry -> Seq(W)]
        BY <2>10 DEF Of
    <3>1. Threefold(Chosen(new, h), Chosen(a, h), h[e], Chosen(b, h))
        BY <2>7, <3>0, ChosenAround
    <3>2. Threefold(Chosen(list, h), Chosen(a, h), h[c], Chosen(b, h))
        BY <2>8, <3>0, ChosenAround
    <3>3. n # m => h[e] = <<>> /\ h[c] = <<>>
        BY <2>4, <2>5, <2>10 DEF Of
    <3>4. n = m => Chosen(a, h) = <<>>
        BY <2>9, <2>10, NoneNamed
    <3> QED BY <3>1, <3>2, <3>3, <3>4 DEF Threefold
  <2>11. Chosen(b, Those(m)) = <<>>
    <3>1. Of(m, Those(m), Entry)
        BY EachIsOf
    <3>2. PICK y \in Seq(Entry) : y = Chosen(b, Those(m))
        BY <3>1, ChosenTypes
    <3>3. Chosen(list, Those(m)) = (<<>> \o Those(m)[c]) \o y
        BY <2>10, <3>1, <3>2
    <3>4. Those(m)[c] = <<c>>
        BY <2>4 DEF Those
    <3>5. <<c>> \in Seq(Entry) /\ Len(<<c>>) = 1
        OBVIOUS
    <3>6. <<>> \o <<c>> = <<c>>
        BY <3>5, ConcatEmptySeq
    <3>7. Len(<<c>> \o y) = 1 + Len(y)
        BY <3>5, ConcatProperties
    <3>8. Len(Chosen(list, Those(m))) <= 1
        BY <1>2 DEF Sole
    <3>9. Len(y) \in Nat /\ 1 + Len(y) <= 1
        BY <3>3, <3>4, <3>6, <3>7, <3>8, LenProperties
    <3> QED BY <3>2, <3>9, EmptySeq
  <2>12. Chosen(b, ValuesIn(m)) = <<>>
    <3>1. Of(m, ValuesIn(m), Nat)
        BY EachIsOf
    <3>2. Chosen(Chosen(b, Those(m)), ValuesIn(m)) = Chosen(b, ValuesIn(m))
        BY <3>1, ChosenOfThose
    <3> QED BY <2>11, <3>2, ChosenNone, Zenon
  <2>13. ASSUME NEW n \in HeaderName
         PROVE  ValuesOf(new, n) = IF n = m THEN ValuesOf(list, m) \o v ELSE ValuesOf(list, n)
    <3>1. Of(n, ValuesIn(n), Nat)
        BY EachIsOf
    <3>2. ValuesOf(new, n) = Chosen(new, ValuesIn(n)) /\ ValuesOf(list, n) = Chosen(list, ValuesIn(n))
        BY <2>7, ListsAreChosen
    <3>3. CASE n # m
        BY <2>10, <3>1, <3>2, <3>3
    <3>4. CASE n = m
      <4>1. ValuesIn(m)[e] = c.values \o v /\ ValuesIn(m)[c] = c.values
          BY <2>4, <2>5 DEF ValuesIn
      <4>2. Chosen(new, ValuesIn(m)) = (<<>> \o (c.values \o v)) \o <<>>
          BY <2>10, <2>12, <3>1, <3>4, <4>1
      <4>3. Chosen(list, ValuesIn(m)) = (<<>> \o c.values) \o <<>>
          BY <2>10, <2>12, <3>1, <3>4, <4>1
      <4>4. PICK x \in Seq(Nat) : x = c.values \o v
          BY <1>a, <2>4, ConcatProperties
      <4>5. (<<>> \o x) \o <<>> = x
          BY ConcatEmptySeq
      <4>6. PICK y \in Seq(Nat) : y = c.values
          BY <2>4
      <4>7. (<<>> \o y) \o <<>> = y
          BY ConcatEmptySeq
      <4> QED BY <3>2, <3>4, <4>2, <4>3, <4>4, <4>5, <4>6, <4>7
    <3> QED BY <3>3, <3>4
  <2>14. ASSUME NEW n \in HeaderName, n # Cookie PROVE Len(Chosen(new, Those(n))) <= 1
    <3>1. Of(n, Those(n), Entry)
        BY EachIsOf
    <3>2. Len(Chosen(list, Those(n))) <= 1
        BY <2>14 DEF Sole
    <3>3. CASE n # m
        BY <2>10, <3>1, <3>2, <3>3
    <3>4. CASE n = m
      <4>1. Those(m)[e] = <<e>>
          BY <2>5 DEF Those
      <4>2. Chosen(new, Those(m)) = (<<>> \o <<e>>) \o <<>>
          BY <2>10, <2>11, <3>1, <3>4, <4>1
      <4>3. <<e>> \in Seq(Entry) /\ Len(<<e>>) = 1
          OBVIOUS
      <4>4. (<<>> \o <<e>>) \o <<>> = <<e>>
          BY <4>3, ConcatEmptySeq
      <4> QED BY <3>4, <4>2, <4>3, <4>4
    <3> QED BY <3>3, <3>4
  <2>15. Sole(new)
      BY <2>14 DEF Sole
  <2>16. Says(new, list, m, ValuesOf(list, m) \o v)
      BY <2>13 DEF Says
  <2> QED BY <2>7, <2>15, <2>16
<1> QED BY <1>1, <1>2

LEMMA PairOfSequences ==
    ASSUME NEW S, NEW x \in S, NEW y \in S
    PROVE  <<x>> \in Seq(S) /\ <<y>> \in Seq(S) /\ <<x>> \o <<y>> = <<x, y>>
<1>1. <<x>> \in Seq(S) /\ <<y>> \in Seq(S) /\ <<x, y>> \in Seq(S)
    OBVIOUS
<1>2. PICK a \in Seq(S), b \in Seq(S), c \in Seq(S) : a = <<x>> /\ b = <<y>> /\ c = <<x, y>>
    BY <1>1
<1>3. Len(a) = 1 /\ Len(b) = 1 /\ Len(c) = 2 /\ a[1] = x /\ b[1] = y /\ c[1] = x /\ c[2] = y
    BY <1>2
<1>4. PICK d \in Seq(S) : d = a \o b
    BY ConcatProperties
<1>5. Len(d) = 2 /\ d[1] = x /\ d[2] = y
  <2>1. Len(d) = Len(a) + Len(b) /\ \A i \in 1..(Len(a) + Len(b)) : d[i] = IF i <= Len(a) THEN a[i] ELSE b[i - Len(a)]
      BY <1>4, ConcatProperties
  <2> QED BY <1>3, <2>1
<1>6. \A i \in 1..Len(d) : d[i] = c[i]
    BY <1>3, <1>5
<1>7. d = c
    BY <1>3, <1>5, <1>6, SeqEqual
<1> QED BY <1>1, <1>2, <1>4, <1>7, Zenon

(* The lines in the order of their names have the same values.             *)
LEMMA LinesSay ==
    ASSUME NEW list \in Seq(Entry)
    PROVE  Lines(list) \in Seq(Entry) /\ \A n \in HeaderName : ValuesOf(Lines(list), n) = ValuesOf(list, n)
<1>1. PICK x \in Seq(Entry), y \in Seq(Entry) : x = Chosen(list, Those("a")) /\ y = Chosen(list, Those(Cookie))
  <2>1. Chosen(list, Those("a")) \in Seq(Entry) /\ Chosen(list, Those(Cookie)) \in Seq(Entry)
      BY EachIsOf, ChosenType
  <2> QED BY <2>1
<1>2. Lines(list) = x \o y
  <2>1. [k \in DOMAIN HeaderNames |-> Filtered(list, Named(list, HeaderNames[k]))] = <<x, y>>
    <3>1. Filtered(list, Named(list, "a")) = x /\ Filtered(list, Named(list, Cookie)) = y
        BY <1>1, ListsAreChosen
    <3>2. DOMAIN HeaderNames = 1..2 /\ HeaderNames[1] = "a" /\ HeaderNames[2] = Cookie
        BY DEF HeaderNames
    <3> QED BY <3>1, <3>2
  <2>2. <<x>> \in Seq(Seq(Entry)) /\ <<y>> \in Seq(Seq(Entry)) /\ <<x>> \o <<y>> = <<x, y>>
      BY PairOfSequences
  <2>3. FlattenSeq(<<x>> \o <<y>>) = FlattenSeq(<<x>>) \o FlattenSeq(<<y>>)
    <3>1. PICK p \in Seq(Seq(Entry)), q \in Seq(Seq(Entry)) : p = <<x>> /\ q = <<y>>
        BY <2>2
    <3>2. FlattenSeq(p \o q) = FlattenSeq(p) \o FlattenSeq(q)
        BY FlattenConcat
    <3> QED BY <3>1, <3>2, Zenon
  <2>4. FlattenSeq(<<x>>) = x /\ FlattenSeq(<<y>>) = y
      BY FlattenSingle
  <2> QED BY <2>1, <2>2, <2>3, <2>4, Zenon DEF Lines, SortedHeaders
<1>3. PICK lines \in Seq(Entry) : lines = x \o y
    BY ConcatProperties
<1>4. ASSUME NEW n \in HeaderName PROVE ValuesOf(lines, n) = ValuesOf(list, n)
  <2>1. Of(n, ValuesIn(n), Nat) /\ ValuesIn(n) \in [Entry -> Seq(Nat)]
      BY EachIsOf
  <2>2. Joined(Chosen(x \o y, ValuesIn(n)), Chosen(x, ValuesIn(n)), Chosen(y, ValuesIn(n)))
      BY <2>1, ChosenConcat
  <2>3. PICK z \in Seq(Nat) : z = Chosen(list, ValuesIn(n))
      BY <2>1, ChosenTypes
  <2>4. Chosen(Chosen(list, Those("a")), ValuesIn(n)) = IF "a" = n THEN z ELSE <<>>
    <3>1. PICK m, h : m = "a" /\ h = ValuesIn(n)
        OBVIOUS
    <3>2. Of(n, h, Nat)
        BY <2>1, <3>1
    <3>3. Chosen(Chosen(list, Those(m)), h) = IF m = n THEN Chosen(list, h) ELSE <<>>
        BY <3>2, ChosenOfThose
    <3> QED BY <2>3, <3>1, <3>3
  <2>5. Chosen(Chosen(list, Those(Cookie)), ValuesIn(n)) = IF Cookie = n THEN z ELSE <<>>
    <3>1. PICK m, h : m = Cookie /\ h = ValuesIn(n)
        OBVIOUS
    <3>2. Of(n, h, Nat)
        BY <2>1, <3>1
    <3>3. Chosen(Chosen(list, Those(m)), h) = IF m = n THEN Chosen(list, h) ELSE <<>>
        BY <3>2, ChosenOfThose
    <3> QED BY <2>3, <3>1, <3>3
  <2>6. z \o <<>> = z /\ <<>> \o z = z
      BY ConcatEmptySeq
  <2>7. Chosen(lines, ValuesIn(n)) = z
    <3>1. "a" # Cookie
        BY DEF Cookie
    <3>2. CASE n = "a"
        BY <1>1, <1>3, <2>2, <2>4, <2>5, <2>6, <3>1, <3>2 DEF Joined
    <3>3. CASE n = Cookie
        BY <1>1, <1>3, <2>2, <2>4, <2>5, <2>6, <3>1, <3>3 DEF Joined
    <3> QED BY <3>2, <3>3 DEF HeaderName
  <2> QED BY <2>3, <2>7, ListsAreChosen
<1> QED BY <1>2, <1>3, <1>4

(* Made line by line.                                                      *)
MadeNext(f, lines, k) == AppendedHeader(f[k - 1], lines[k].name, lines[k].values)
Makes(f, lines, n) == f[0] = <<>> /\ \A k \in 1..n : f[k] = MadeNext(f, lines, k)
Recursion(f, lines) == f = [k \in 0..Len(lines) |-> IF k = 0 THEN <<>> ELSE AppendedHeader(f[k - 1], lines[k].name, lines[k].values)]

LEMMA FromLinesIs == \A lines : FromLines(lines) = (CHOOSE f : Recursion(f, lines))[Len(lines)]
BY Zenon DEF FromLines, Recursion

LEMMA FromLinesMade ==
    ASSUME NEW lines, Len(lines) \in Nat
    PROVE  \E f : Makes(f, lines, Len(lines)) /\ FromLines(lines) = f[Len(lines)]
<1> DEFINE n == Len(lines)
           Some(k) == \E f : Makes(f, lines, k)
           T == {k \in 0..n : Some(k)}
<1>1. 0 \in T
  <2>1. Makes([i \in 0..0 |-> <<>>], lines, 0)
      BY DEF Makes
  <2> QED BY <2>1
<1>2. ASSUME NEW k \in 0..(n - 1), k \in T PROVE k + 1 \in T
  <2>1. PICK f : Makes(f, lines, k)
      BY <1>2
  <2>2. k \in Nat /\ k + 1 \in 0..n
      OBVIOUS
  <2> DEFINE g == [i \in 0..(k + 1) |-> IF i <= k THEN f[i] ELSE AppendedHeader(f[k], lines[k + 1].name, lines[k + 1].values)]
  <2>3. g[0] = <<>>
      BY <2>1, <2>2 DEF Makes
  <2>4. ASSUME NEW i \in 1..(k + 1) PROVE g[i] = MadeNext(g, lines, i)
    <3>1. i \in 0..(k + 1) /\ i - 1 \in 0..(k + 1) /\ i - 1 <= k
        BY <2>2
    <3>2. g[i - 1] = f[i - 1]
        BY <3>1
    <3>3. CASE i <= k
      <4>1. i \in 1..k /\ g[i] = f[i]
          BY <2>2, <3>1, <3>3
      <4>2. f[i] = MadeNext(f, lines, i)
          BY <2>1, <4>1 DEF Makes
      <4> HIDE DEF g
      <4> QED BY <3>2, <4>1, <4>2 DEF MadeNext
    <3>4. CASE ~(i <= k)
      <4>1. i = k + 1 /\ i - 1 = k
          BY <2>2, <3>4
      <4>2. g[i] = AppendedHeader(f[k], lines[k + 1].name, lines[k + 1].values)
          BY <3>1, <3>4
      <4> HIDE DEF g
      <4> QED BY <3>2, <4>1, <4>2 DEF MadeNext
    <3> QED BY <3>3, <3>4
  <2>5. Makes(g, lines, k + 1)
    <3> HIDE DEF g
    <3> QED BY <2>3, <2>4 DEF Makes
  <2> QED BY <2>2, <2>5
<1>3. Some(n)
  <2> HIDE DEF Some
  <2>1. 0..n \subseteq T
    <3> HIDE DEF T
    <3> QED BY <1>1, <1>2, CountUp
  <2> QED BY <2>1
<1>4. PICK f : Makes(f, lines, n)
    BY <1>3
<1> DEFINE e == [k \in 0..n |-> f[k]]
<1>5. Recursion(e, lines)
  <2>1. ASSUME NEW k \in 0..n
        PROVE  e[k] = IF k = 0 THEN <<>> ELSE AppendedHeader(e[k - 1], lines[k].name, lines[k].values)
    <3>1. CASE k = 0
        BY <1>4, <3>1 DEF Makes
    <3>2. CASE k # 0
      <4>1. k \in 1..n /\ k - 1 \in 0..n
          BY <3>2
      <4>2. f[k] = MadeNext(f, lines, k) /\ e[k] = f[k] /\ e[k - 1] = f[k - 1]
          BY <1>4, <4>1 DEF Makes
      <4> HIDE DEF e
      <4> QED BY <3>2, <4>2 DEF MadeNext
    <3> QED BY <3>1, <3>2
  <2>2. e = [k \in 0..n |-> IF k = 0 THEN <<>> ELSE AppendedHeader(e[k - 1], lines[k].name, lines[k].values)]
      BY <2>1
  <2> HIDE DEF e
  <2> QED BY <2>2 DEF Recursion
<1>6. PICK h : h = CHOOSE j : Recursion(j, lines)
    OBVIOUS
<1>7. Recursion(h, lines)
  <2> HIDE DEF e
  <2> QED BY <1>5, <1>6, Zenon
<1>8. Makes(h, lines, n)
  <2>1. ASSUME NEW k \in 0..n
        PROVE  h[k] = IF k = 0 THEN <<>> ELSE AppendedHeader(h[k - 1], lines[k].name, lines[k].values)
      BY <1>7 DEF Recursion
  <2>2. 0 \in 0..n /\ \A k \in 1..n : k \in 0..n /\ k # 0
      OBVIOUS
  <2> QED BY <2>1, <2>2 DEF Makes, MadeNext
<1>9. FromLines(lines) = h[n]
    BY <1>6, FromLinesIs, Zenon
<1> QED BY <1>8, <1>9

LEMMA FromLinesSays ==
    ASSUME NEW lines \in Seq(Entry), NEW n \in HeaderName
    PROVE  FromLines(lines) \in Seq(Entry) /\ ValuesOf(FromLines(lines), n) = ValuesOf(lines, n)
<1>0. PICK m \in Nat : m = Len(lines)
    BY LenProperties
<1>1. \A k \in 1..m : lines[k] \in Entry
    BY <1>0, ElementOfSeq
<1>2. PICK f : Makes(f, lines, m) /\ FromLines(lines) = f[m]
    BY <1>0, FromLinesMade
<1>3. ValuesIn(n) \in [Entry -> Seq(Nat)]
    BY EachIsOf
<1>4. PICK p : p = Each(lines, ValuesIn(n))
    OBVIOUS
<1>5. Piecewise(p, lines, ValuesIn(n), Nat)
    BY <1>3, <1>4, EachIs
<1>6. p \in Seq(Seq(Nat)) /\ Len(p) = m /\ \A k \in 1..m : p[k] = ValuesIn(n)[lines[k]]
    BY <1>0, <1>5 DEF Piecewise
<1>7. PICK g : Partial(g, p, m, Nat)
    BY <1>6, PartialExists
<1> DEFINE T == {k \in 0..m : f[k] \in Seq(Entry) /\ Sole(f[k]) /\ ValuesOf(f[k], n) = g[k]}
<1>8. 0 \in T
  <2>1. f[0] = <<>> /\ g[0] = <<>> /\ <<>> \in Seq(Entry)
      BY <1>2, <1>7, EmptySeq DEF Makes, Partial
  <2>2. \A h : Chosen(<<>>, h) = <<>>
      BY ChosenNone, Zenon
  <2>3. Sole(<<>>)
    <3>1. Len(<<>>) <= 1
        BY EmptySeq
    <3> QED BY <2>2, <3>1, Zenon DEF Sole
  <2>4. ValuesOf(<<>>, n) = <<>>
    <3>1. PICK z \in Seq(Entry) : z = <<>>
        BY <2>1
    <3>2. ValuesOf(z, n) = Chosen(z, ValuesIn(n))
        BY ListsAreChosen
    <3> QED BY <2>2, <3>1, <3>2
  <2>5. f[0] \in Seq(Entry) /\ Sole(f[0]) /\ ValuesOf(f[0], n) = g[0]
      BY <2>1, <2>3, <2>4, Zenon
  <2> QED BY <2>5
<1>9. ASSUME NEW k \in 0..(m - 1), k \in T PROVE k + 1 \in T
  <2>1. k + 1 \in 1..m /\ k + 1 \in 0..m /\ (k + 1) - 1 = k
      OBVIOUS
  <2>2. PICK s \in Seq(Entry) : s = f[k] /\ Sole(s) /\ ValuesOf(s, n) = g[k]
      BY <1>9
  <2>3. PICK e \in Entry : e = lines[k + 1]
      BY <1>1, <2>1
  <2>4. e.name \in HeaderName /\ EntryOf(e.name, e.values) = e
      BY <2>3 DEF Entry, EntryOf
  <2>5. PICK new : new = AppendedHeader(s, e.name, e.values)
      OBVIOUS
  <2>6. f[k + 1] = new
      BY <1>2, <2>1, <2>2, <2>3, <2>5 DEF Makes, MadeNext
  <2>7. new \in Seq(Entry) /\ Sole(new) /\ Says(new, s, e.name, ValuesOf(s, e.name) \o e.values)
    <3>1. PICK x, v : x = e.name /\ v = e.values
        OBVIOUS
    <3>2. EntryOf(x, v) \in Entry /\ x \in HeaderName
        BY <2>3, <2>4, <3>1
    <3>3. new = AppendedHeader(s, x, v)
        BY <2>5, <3>1
    <3>4. new \in Seq(Entry) /\ Sole(new) /\ Says(new, s, x, ValuesOf(s, x) \o v)
        BY <2>2, <3>2, <3>3, AppendedSays
    <3> QED BY <3>1, <3>4
  <2>8. ValuesOf(new, n) = g[k] \o ValuesIn(n)[e]
    <3>1. ValuesOf(new, n) = IF n = e.name THEN ValuesOf(s, e.name) \o e.values ELSE ValuesOf(s, n)
        BY <2>7 DEF Says
    <3>2. ValuesIn(n)[e] = IF e.name = n THEN e.values ELSE <<>>
        BY <2>3 DEF ValuesIn
    <3>3. g[k] \in Seq(Nat)
        BY <1>7, <2>1 DEF Partial
    <3>4. g[k] \o <<>> = g[k]
        BY <3>3, ConcatEmptySeq
    <3> QED BY <2>2, <3>1, <3>2, <3>4
  <2>9. g[k + 1] = g[k] \o ValuesIn(n)[e]
    <3>1. g[k + 1] = g[(k + 1) - 1] \o p[k + 1]
        BY <1>7, <2>1 DEF Partial
    <3> QED BY <1>6, <2>1, <2>3, <3>1
  <2> QED BY <2>1, <2>6, <2>7, <2>8, <2>9
<1>10. 0..m \subseteq T
  <2> HIDE DEF T
  <2> QED BY <1>8, <1>9, CountUp
<1>11. f[m] \in Seq(Entry) /\ ValuesOf(f[m], n) = g[m]
    BY <1>10
<1>12. ValuesOf(lines, n) = g[m]
  <2>1. FlattenSeq(p) = g[m]
      BY <1>6, <1>7, FlattenIsPartial
  <2>2. ValuesOf(lines, n) = Chosen(lines, ValuesIn(n))
      BY ListsAreChosen
  <2> QED BY <1>4, <2>1, <2>2 DEF Chosen
<1> QED BY <1>2, <1>11, <1>12

-----------------------------------------------------------------------------
(* URLSearchParams and the query of a URL.                                  *)
Char == DOMAIN Escape
AnyChar == Char \cup {Lone}
PairSet == Encodable \X Encodable
AnyPair == Texts \X Texts

LEMMA CharsAre ==
    /\ Char = {"x", " ", "&", "=", "+", "%"} /\ Encodable = Seq(Char) /\ Texts = Seq(AnyChar)
    /\ Escape["x"] = "x" /\ Escape[" "] = "+" /\ Escape["&"] = "%26"
    /\ Escape["="] = "%3D" /\ Escape["+"] = "%2B" /\ Escape["%"] = "%25"
BY DEF Char, AnyChar, Escape, Encodable, Texts

LEMMA EscapeIs ==
    /\ \A c \in Char : /\ Escape[c] \in QueryChars /\ Escape[c] # "=" /\ Escape[c] # "&"
                      /\ Escape[c] # "%" /\ Escape[c] # Lone
    /\ \A c, d \in Char : Escape[c] = Escape[d] => c = d
    /\ \A w \in QueryChars : w # "=" /\ w # "&" /\ w # "%" /\ w # Lone => \E c \in Char : Escape[c] = w
<1>1. \A c \in Char : Escape[c] \in QueryChars
    BY DEF QueryChars, Char
<1>2. \A c \in Char : Escape[c] # "=" /\ Escape[c] # "&" /\ Escape[c] # "%" /\ Escape[c] # Lone
    BY CharsAre DEF Lone
<1>3. \A c, d \in Char : Escape[c] = Escape[d] => c = d
  <2> SUFFICES ASSUME NEW c \in Char, NEW d \in Char, Escape[c] = Escape[d] PROVE c = d
      OBVIOUS
  <2>1. c = "x" \/ c = " " \/ c = "&" \/ c = "=" \/ c = "+" \/ c = "%"
      BY CharsAre
  <2>2. d = "x" \/ d = " " \/ d = "&" \/ d = "=" \/ d = "+" \/ d = "%"
      BY CharsAre
  <2> QED BY <2>1, <2>2, CharsAre
<1>4. \A w \in QueryChars : w # "=" /\ w # "&" /\ w # "%" /\ w # Lone => \E c \in Char : Escape[c] = w
    BY DEF QueryChars, Char
<1> QED BY <1>1, <1>2, <1>3, <1>4

(* One character decoded.                                                  *)
DecodedChar(w) == IF w \in {"=", Lone} THEN w ELSE CHOOSE c \in DOMAIN Escape : Escape[c] = w

LEMMA DecodedCharIs ==
    /\ \A c \in Char : DecodedChar(Escape[c]) = c
    /\ \A w \in QueryChars : w # "&" /\ w # "%" => DecodedChar(w) \in AnyChar
<1>1. ASSUME NEW w \in QueryChars, NEW c \in Char, w = Escape[c] PROVE DecodedChar(w) = c
  <2>1. w # "=" /\ w # Lone
      BY <1>1, EscapeIs
  <2>2. PICK d : d = CHOOSE e \in Char : Escape[e] = w
      OBVIOUS
  <2>3. d \in Char /\ Escape[d] = w
      BY <1>1, <2>2, Zenon
  <2>4. d = c
      BY <1>1, <2>3, EscapeIs
  <2> QED BY <2>1, <2>2, <2>4, Zenon DEF DecodedChar, Char
<1>2. ASSUME NEW c \in Char PROVE DecodedChar(Escape[c]) = c
    BY <1>1, EscapeIs
<1>3. ASSUME NEW w \in QueryChars, w # "&", w # "%" PROVE DecodedChar(w) \in AnyChar
  <2>1. CASE w = "=" \/ w = Lone
      BY <2>1, CharsAre DEF DecodedChar, AnyChar
  <2>2. CASE w # "=" /\ w # Lone
    <3>1. PICK c \in Char : Escape[c] = w
        BY <1>3, <2>2, EscapeIs
    <3> QED BY <1>1, <3>1 DEF AnyChar
  <2> QED BY <2>1, <2>2
<1> QED BY <1>2, <1>3

LEMMA EncodedIs ==
    ASSUME NEW t \in Encodable
    PROVE  /\ Encoded(t) \in Seq(QueryChars) /\ Len(Encoded(t)) = Len(t)
           /\ \A i \in 1..Len(t) : Encoded(t)[i] = Escape[t[i]] /\ t[i] \in Char
<1>1. t \in Seq(Char)
    BY CharsAre
<1>2. Len(t) \in Nat /\ DOMAIN t = 1..Len(t) /\ \A i \in 1..Len(t) : t[i] \in Char
    BY <1>1, LenProperties, ElementOfSeq
<1>3. \A i \in 1..Len(t) : Escape[t[i]] \in QueryChars
    BY <1>2, EscapeIs
<1>4. Encoded(t) = [i \in 1..Len(t) |-> Escape[t[i]]]
    BY <1>2 DEF Encoded
<1>5. [i \in 1..Len(t) |-> Escape[t[i]]] \in Seq(QueryChars)
    BY <1>2, <1>3, IsASeq
<1> QED BY <1>2, <1>4, <1>5

LEMMA DecodedIs ==
    ASSUME NEW part \in Seq(QueryChars)
    PROVE  Decoded(part) = [i \in 1..Len(part) |-> DecodedChar(part[i])]
<1>1. DOMAIN part = 1..Len(part)
    BY LenProperties
<1> QED BY <1>1 DEF Decoded, DecodedChar

LEMMA DecodedEncoded ==
    ASSUME NEW t \in Encodable
    PROVE  Decoded(Encoded(t)) = t
<1>1. t \in Seq(Char)
    BY CharsAre
<1>2. Len(t) \in Nat
    BY <1>1, LenProperties
<1>3. PICK e \in Seq(QueryChars) : e = Encoded(t) /\ Len(e) = Len(t) /\ \A i \in 1..Len(t) : e[i] = Escape[t[i]] /\ t[i] \in Char
    BY EncodedIs
<1>4. PICK d : d = Decoded(e)
    OBVIOUS
<1>5. d = [i \in 1..Len(t) |-> DecodedChar(e[i])]
    BY <1>3, <1>4, DecodedIs
<1>6. \A i \in 1..Len(t) : d[i] = t[i] /\ d[i] \in Char
    BY <1>3, <1>5, DecodedCharIs
<1>7. d \in Seq(Char) /\ Len(d) = Len(t)
  <2>1. \A i \in 1..Len(t) : DecodedChar(e[i]) \in Char
      BY <1>5, <1>6
  <2>2. [i \in 1..Len(t) |-> DecodedChar(e[i])] \in Seq(Char)
      BY <1>2, <2>1, IsASeq
  <2> QED BY <1>2, <1>5, <2>2
<1>8. d = t
    BY <1>1, <1>6, <1>7, SeqEqual
<1> QED BY <1>3, <1>4, <1>8

LEMMA DecodedType ==
    ASSUME NEW part \in Seq(QueryChars), \A i \in 1..Len(part) : part[i] # "&" /\ part[i] # "%"
    PROVE  Decoded(part) \in Texts
<1>1. Len(part) \in Nat /\ \A i \in 1..Len(part) : part[i] \in QueryChars
    BY LenProperties, ElementOfSeq
<1>2. \A i \in 1..Len(part) : DecodedChar(part[i]) \in AnyChar
    BY <1>1, DecodedCharIs
<1>3. [i \in 1..Len(part) |-> DecodedChar(part[i])] \in Seq(AnyChar)
    BY <1>1, <1>2, IsASeq
<1> QED BY <1>3, CharsAre, DecodedIs

-----------------------------------------------------------------------------
(* A part of a query, and its pair.                                        *)
LEMMA MinUnique ==
    ASSUME NEW T, T \subseteq Nat, NEW x \in T, \A y \in T : x <= y
    PROVE  Min(T) = x
<1>1. Min(T) \in T /\ \A y \in T : Min(T) <= y
    BY MinIs
<1>2. Min(T) <= x /\ x <= Min(T) /\ x \in Nat /\ Min(T) \in Nat
    BY <1>1
<1> QED BY <1>2

(* The part of a pair.                                                     *)
Joint(e, f) == (e \o <<"=">>) \o f

IsJoint(x, e, f) ==
    /\ x \in Seq(QueryChars) /\ Len(x) = Len(e) + 1 + Len(f)
    /\ \A i \in 1..Len(e) : x[i] = e[i]
    /\ x[Len(e) + 1] = "="
    /\ \A i \in 1..Len(f) : x[Len(e) + 1 + i] = f[i]

LEMMA JointIs ==
    ASSUME NEW e \in Seq(QueryChars), NEW f \in Seq(QueryChars), NEW x, x = Joint(e, f)
    PROVE  IsJoint(x, e, f)
<1>0. Len(e) \in Nat /\ Len(f) \in Nat
    BY LenProperties
<1>1. "=" \in QueryChars
    BY DEF QueryChars
<1>2. <<"=">> \in Seq(QueryChars)
    BY <1>1
<1>3. PICK c \in Seq(QueryChars) : c = <<"=">> /\ Len(c) = 1 /\ c[1] = "="
    BY <1>2
<1>4. PICK d \in Seq(QueryChars) : d = e \o c
    BY ConcatProperties
<1>5. Len(d) = Len(e) + 1 /\ \A i \in 1..(Len(e) + 1) : d[i] = IF i <= Len(e) THEN e[i] ELSE c[i - Len(e)]
    BY <1>3, <1>4, ConcatProperties
<1>6. PICK y \in Seq(QueryChars) : y = d \o f
    BY ConcatProperties
<1>7. Len(y) = Len(d) + Len(f) /\ \A i \in 1..(Len(d) + Len(f)) : y[i] = IF i <= Len(d) THEN d[i] ELSE f[i - Len(d)]
    BY <1>6, ConcatProperties
<1>8. x = y
    BY <1>3, <1>4, <1>6, Zenon DEF Joint
<1>9. \A i \in 1..Len(e) : y[i] = e[i]
  <2> TAKE i \in 1..Len(e)
  <2>1. i \in 1..(Len(e) + 1) /\ i <= Len(e) /\ i \in 1..(Len(d) + Len(f)) /\ i <= Len(d)
      BY <1>0, <1>5
  <2> QED BY <1>5, <1>7, <2>1
<1>10. y[Len(e) + 1] = "="
  <2>1. Len(e) + 1 \in 1..(Len(e) + 1) /\ ~(Len(e) + 1 <= Len(e)) /\ (Len(e) + 1) - Len(e) = 1
        /\ Len(e) + 1 \in 1..(Len(d) + Len(f)) /\ Len(e) + 1 <= Len(d)
      BY <1>0, <1>5
  <2> QED BY <1>3, <1>5, <1>7, <2>1
<1>11. \A i \in 1..Len(f) : y[Len(e) + 1 + i] = f[i]
  <2> TAKE i \in 1..Len(f)
  <2>1. Len(e) + 1 + i \in 1..(Len(d) + Len(f)) /\ ~(Len(e) + 1 + i <= Len(d)) /\ (Len(e) + 1 + i) - Len(d) = i
      BY <1>0, <1>5
  <2> QED BY <1>7, <2>1
<1>12. Len(y) = Len(e) + 1 + Len(f)
    BY <1>5, <1>7
<1> QED BY <1>8, <1>9, <1>10, <1>11, <1>12 DEF IsJoint

LEMMA PairOfJoint ==
    ASSUME NEW n \in Encodable, NEW v \in Encodable, NEW x, x = Joint(Encoded(n), Encoded(v))
    PROVE  /\ x \in Seq(QueryChars) /\ Len(x) # 0 /\ \A i \in 1..Len(x) : x[i] # "&"
           /\ PairOf(x) = <<n, v>>
<1>1. PICK e \in Seq(QueryChars) : e = Encoded(n) /\ Len(e) = Len(n) /\ \A i \in 1..Len(n) : e[i] = Escape[n[i]] /\ n[i] \in Char
    BY EncodedIs
<1>2. PICK f \in Seq(QueryChars) : f = Encoded(v) /\ Len(f) = Len(v) /\ \A i \in 1..Len(v) : f[i] = Escape[v[i]] /\ v[i] \in Char
    BY EncodedIs
<1>3. PICK k \in Nat, l \in Nat : k = Len(e) /\ l = Len(f)
    BY LenProperties
<1>4. IsJoint(x, e, f)
    BY <1>1, <1>2, JointIs
<1>5. /\ x \in Seq(QueryChars) /\ Len(x) = k + 1 + l /\ x[k + 1] = "="
      /\ \A i \in 1..k : x[i] = e[i]
      /\ \A i \in 1..l : x[k + 1 + i] = f[i]
    BY <1>3, <1>4 DEF IsJoint
<1>6. \A i \in 1..k : e[i] # "=" /\ e[i] # "&"
    BY <1>1, <1>3, EscapeIs
<1>7. \A i \in 1..l : f[i] # "="  /\ f[i] # "&"
    BY <1>2, <1>3, EscapeIs
<1>8. \A i \in 1..Len(x) : x[i] # "&"
  <2> TAKE i \in 1..Len(x)
  <2>1. CASE i <= k
    <3>1. i \in 1..k
        BY <1>5, <2>1
    <3> QED BY <1>5, <1>6, <3>1
  <2>2. CASE i = k + 1
      BY <1>5, <2>2
  <2>3. CASE i > k + 1
    <3>1. i - (k + 1) \in 1..l /\ k + 1 + (i - (k + 1)) = i
        BY <1>5, <2>3
    <3> QED BY <1>5, <1>7, <3>1
  <2> QED BY <2>1, <2>2, <2>3
<1>9. Equals(x) = {i \in 1..(k + 1 + l) : x[i] = "="}
  <2>1. DOMAIN x = 1..(k + 1 + l)
      BY <1>5, LenProperties
  <2> QED BY <2>1 DEF Equals
<1>10. Equals(x) # {} /\ Min(Equals(x)) = k + 1
  <2>1. PICK T : T = Equals(x)
      OBVIOUS
  <2>2. T \subseteq Nat /\ k + 1 \in T
      BY <1>5, <1>9, <2>1
  <2>3. ASSUME NEW y \in T PROVE k + 1 <= y
    <3>1. SUFFICES ASSUME ~(k + 1 <= y) PROVE FALSE
        OBVIOUS
    <3>2. y \in 1..k /\ x[y] = "="
        BY <1>9, <2>1, <3>1
    <3> QED BY <1>5, <1>6, <3>2
  <2> QED BY <2>1, <2>2, <2>3, MinUnique
<1>11. SubSeq(x, 1, (k + 1) - 1) = e
  <2>1. /\ SubSeq(x, 1, k) \in Seq(QueryChars) /\ Len(SubSeq(x, 1, k)) = k
        /\ \A i \in 1..k : SubSeq(x, 1, k)[i] = x[i]
    <3>1. 1 \in Int /\ k \in Int /\ \A i \in 1..k : x[i] \in QueryChars
        BY <1>3, <1>5, ElementOfSeq
    <3> QED BY <3>1, SubSeqProperties
  <2>2. PICK s \in Seq(QueryChars) : s = SubSeq(x, 1, k) /\ Len(s) = k /\ \A i \in 1..k : s[i] = x[i]
      BY <2>1
  <2>3. s = e
      BY <1>3, <1>5, <2>2, SeqEqual
  <2>4. (k + 1) - 1 = k
      OBVIOUS
  <2> QED BY <2>2, <2>3, <2>4
<1>12. SubSeq(x, (k + 1) + 1, Len(x)) = f
  <2>0. PICK a \in Int, b \in Int : a = (k + 1) + 1 /\ b = k + 1 + l
      OBVIOUS
  <2>1. /\ SubSeq(x, a, b) \in Seq(QueryChars) /\ Len(SubSeq(x, a, b)) = IF a <= b THEN b - a + 1 ELSE 0
        /\ \A i \in 1..(b - a + 1) : SubSeq(x, a, b)[i] = x[a + i - 1]
    <3>1. \A i \in a..b : x[i] \in QueryChars
        BY <1>5, <2>0, ElementOfSeq
    <3> QED BY <3>1, SubSeqProperties
  <2>2. PICK s \in Seq(QueryChars) : s = SubSeq(x, a, b) /\ Len(s) = l /\ \A i \in 1..l : s[i] = x[k + 1 + i]
    <3>1. a <= b + 1 /\ b - a + 1 = l /\ a = k + 2
        BY <2>0
    <3>2. PICK s \in Seq(QueryChars) : /\ s = SubSeq(x, a, b) /\ Len(s) = IF a <= b THEN b - a + 1 ELSE 0
                                   /\ \A i \in 1..(b - a + 1) : s[i] = x[a + i - 1]
        BY <2>1
    <3>3. Len(s) = l
        BY <3>1, <3>2
    <3>4. ASSUME NEW i \in 1..l PROVE s[i] = x[k + 1 + i]
      <4>1. a + i - 1 = k + 1 + i /\ i \in 1..(b - a + 1)
          BY <3>1
      <4> QED BY <3>2, <4>1
    <3> QED BY <3>2, <3>3, <3>4
  <2>3. s = f
      BY <1>3, <1>5, <2>2, SeqEqual
  <2> QED BY <1>5, <2>0, <2>2, <2>3
<1>13. PairOf(x) = <<Decoded(e), Decoded(f)>>
    BY <1>10, <1>11, <1>12 DEF PairOf
<1>14. Decoded(e) = n /\ Decoded(f) = v
    BY <1>1, <1>2, DecodedEncoded
<1> QED BY <1>5, <1>8, <1>13, <1>14

-----------------------------------------------------------------------------
(* The parts of a query, one by one.                                       *)
LEMMA FlattenOne ==
    ASSUME NEW S, NEW q \in Seq(Seq(S)), NEW i \in 1..Len(q), \A j \in 1..Len(q) : j # i => q[j] = <<>>
    PROVE  FlattenSeq(q) = q[i]
<1>1. PICK n \in Nat : n = Len(q)
    BY LenProperties
<1>2. PICK a, b : a = Preceding(q, i) /\ b = Following(q, i)
    OBVIOUS
<1>3. /\ a \in Seq(Seq(S)) /\ b \in Seq(Seq(S))
      /\ Len(a) = i - 1 /\ \A j \in 1..(i - 1) : a[j] = q[j]
      /\ Len(b) = n - i /\ \A j \in 1..(n - i) : b[j] = q[i + j]
    BY <1>1, <1>2, Halved
<1>4. PICK e \in Seq(S) : e = q[i]
    BY ElementOfSeq
<1>5. FlattenSeq(a) = <<>>
  <2>1. \A j \in 1..Len(a) : a[j] = <<>>
    <3> TAKE j \in 1..Len(a)
    <3>1. j \in 1..(i - 1) /\ j \in 1..Len(q) /\ j # i
        BY <1>1, <1>3
    <3> QED BY <1>3, <3>1
  <2> QED BY <1>3, <2>1, FlattenEmpties
<1>6. FlattenSeq(b) = <<>>
  <2>1. \A j \in 1..Len(b) : b[j] = <<>>
    <3> TAKE j \in 1..Len(b)
    <3>1. j \in 1..(n - i) /\ i + j \in 1..Len(q) /\ i + j # i
        BY <1>1, <1>3
    <3> QED BY <1>3, <3>1
  <2> QED BY <1>3, <2>1, FlattenEmpties
<1>7. <<e>> \in Seq(Seq(S))
    OBVIOUS
<1>8. PICK c \in Seq(Seq(S)) : c = <<e>>
    BY <1>7
<1>9. FlattenSeq(c) = e
    BY <1>8, FlattenSingle
<1>10. PICK d \in Seq(Seq(S)) : d = a \o c
    BY <1>3, <1>8, ConcatProperties
<1>11. q = d \o b
  <2>1. q \in Seq(Seq(S))
      OBVIOUS
  <2>2. Around(q, Preceding(q, i), q[i], Following(q, i))
      BY <2>1, IsAround
  <2>3. Around(q, a, e, b)
      BY <1>2, <1>4, <2>2
  <2>4. q = (a \o <<e>>) \o b
      BY <2>3 DEF Around
  <2>5. d = a \o <<e>>
      BY <1>8, <1>10, Zenon
  <2> QED BY <2>4, <2>5, Zenon
<1>12. FlattenSeq(d) = <<>> \o e
  <2>1. FlattenSeq(a \o c) = FlattenSeq(a) \o FlattenSeq(c)
      BY <1>3, FlattenConcat
  <2> QED BY <1>5, <1>9, <1>10, <2>1, Zenon
<1>13. FlattenSeq(d) = e
    BY <1>4, <1>12, ConcatEmptySeq
<1>14. FlattenSeq(d \o b) = FlattenSeq(d) \o FlattenSeq(b)
    BY <1>3, <1>10, FlattenConcat
<1>15. FlattenSeq(d \o b) = e
    BY <1>4, <1>6, <1>13, <1>14, ConcatEmptySeq
<1> QED BY <1>4, <1>11, <1>15

(* What Parsed makes of each position.                                     *)
PieceAt(q, i) == IF Starts(q, i) THEN <<PairOf(PartAt(q, i))>> ELSE <<>>
PiecesOf(q) == [i \in 1..Len(q) |-> PieceAt(q, i)]

LEMMA ParsedIs ==
    ASSUME NEW q \in Seq(QueryChars)
    PROVE  Parsed(q) = FlattenSeq(PiecesOf(q))
<1>1. DOMAIN q = 1..Len(q)
    BY LenProperties
<1> QED BY <1>1 DEF Parsed, PiecesOf, PieceAt

LEMMA CutsAre ==
    ASSUME NEW q \in Seq(QueryChars), NEW i \in 1..Len(q)
    PROVE  /\ Min(Cuts(q, i)) \in (i + 1)..(Len(q) + 1) /\ Min(Cuts(q, i)) \in Cuts(q, i)
           /\ \A k \in Cuts(q, i) : Min(Cuts(q, i)) <= k
<1>1. Len(q) \in Nat
    BY LenProperties
<1>2. Cuts(q, i) \subseteq (i + 1)..(Len(q) + 1) /\ Len(q) + 1 \in Cuts(q, i)
    BY <1>1 DEF Cuts
<1>3. PICK T : T = Cuts(q, i)
    OBVIOUS
<1>4. T \subseteq Nat /\ T # {}
    BY <1>1, <1>2, <1>3
<1>5. Min(T) \in T /\ \A k \in T : Min(T) <= k
    BY <1>4, MinIs
<1> QED BY <1>2, <1>3, <1>5

LEMMA LastPart ==
    ASSUME NEW q \in Seq(QueryChars), NEW k \in 0..(Len(q) - 1), k = 0 \/ q[k] = "&",
           \A j \in (k + 1)..Len(q) : q[j] # "&"
    PROVE  /\ PieceAt(q, k + 1) = <<PairOf(SubSeq(q, k + 1, Len(q)))>>
           /\ \A j \in (k + 2)..Len(q) : PieceAt(q, j) = <<>>
<1>1. PICK n \in Nat : n = Len(q)
    BY LenProperties
<1>2. PICK i \in 1..n : i = k + 1
    BY <1>1
<1>3. Starts(q, i)
  <2>1. q[i] # "&"
      BY <1>1, <1>2
  <2>2. i > 1 => q[i - 1] = "&"
    <3>1. i - 1 = k /\ (i > 1 => k # 0)
        BY <1>2
    <3> QED BY <3>1
  <2> QED BY <2>1, <2>2 DEF Starts
<1>4. Min(Cuts(q, i)) = n + 1
  <2>1. PICK m \in (i + 1)..(n + 1) : m = Min(Cuts(q, i)) /\ m \in Cuts(q, i)
      BY <1>1, CutsAre
  <2>2. m > n \/ q[m] = "&"
      BY <1>1, <2>1 DEF Cuts
  <2>3. m <= n => m \in (k + 1)..Len(q)
      BY <1>1, <1>2
  <2> QED BY <2>1, <2>2, <2>3
<1>5. PartAt(q, i) = SubSeq(q, i, n)
  <2>1. (n + 1) - 1 = n
      OBVIOUS
  <2> QED BY <1>4, <2>1 DEF PartAt
<1>6. ASSUME NEW j \in (k + 2)..Len(q) PROVE PieceAt(q, j) = <<>>
  <2>1. j > 1 /\ j - 1 \in (k + 1)..Len(q)
      BY <1>1
  <2>2. ~Starts(q, j)
      BY <2>1 DEF Starts
  <2> QED BY <2>2 DEF PieceAt
<1>7. PieceAt(q, i) = <<PairOf(SubSeq(q, i, n))>>
    BY <1>3, <1>5 DEF PieceAt
<1> QED BY <1>1, <1>2, <1>6, <1>7

(* The pairs at any of the positions of a query, wherever parts begin.     *)
PairsAt(q) == {PairOf(PartAt(q, i)) : i \in 1..Len(q)}

LEMMA PiecesType ==
    ASSUME NEW q \in Seq(QueryChars)
    PROVE  /\ PiecesOf(q) \in Seq(Seq(PairsAt(q))) /\ Len(PiecesOf(q)) = Len(q)
           /\ \A i \in 1..Len(q) : PiecesOf(q)[i] = PieceAt(q, i) /\ PieceAt(q, i) \in Seq(PairsAt(q))
<1>1. Len(q) \in Nat
    BY LenProperties
<1>2. \A i \in 1..Len(q) : PieceAt(q, i) \in Seq(PairsAt(q))
  <2> TAKE i \in 1..Len(q)
  <2>1. PICK S : S = PairsAt(q)
      OBVIOUS
  <2>2. PICK p \in S : p = PairOf(PartAt(q, i))
      BY <2>1 DEF PairsAt
  <2>3. <<p>> \in Seq(S) /\ <<>> \in Seq(S)
      OBVIOUS
  <2> QED BY <2>1, <2>2, <2>3 DEF PieceAt
<1>3. [i \in 1..Len(q) |-> PieceAt(q, i)] \in Seq(Seq(PairsAt(q)))
    BY <1>1, <1>2, IsASeq
<1> QED BY <1>1, <1>2, <1>3 DEF PiecesOf

(* A query of one part.                                                    *)
LEMMA PartAlone ==
    ASSUME NEW q \in Seq(QueryChars), Len(q) # 0, \A j \in 1..Len(q) : q[j] # "&"
    PROVE  Parsed(q) = <<PairOf(q)>>
<1>1. Len(q) \in Nat
    BY LenProperties
<1>2. 0 \in 0..(Len(q) - 1) /\ \A j \in (0 + 1)..Len(q) : q[j] # "&"
    BY <1>1
<1>3. PICK p : p = PiecesOf(q)
    OBVIOUS
<1>4. p \in Seq(Seq(PairsAt(q))) /\ Len(p) = Len(q) /\ \A i \in 1..Len(q) : p[i] = PieceAt(q, i)
    BY <1>3, PiecesType
<1>5. PieceAt(q, 0 + 1) = <<PairOf(SubSeq(q, 0 + 1, Len(q)))>> /\ \A j \in (0 + 2)..Len(q) : PieceAt(q, j) = <<>>
    BY <1>2, LastPart
<1>6. p[1] = <<PairOf(q)>>
  <2>1. SubSeq(q, 1, Len(q)) = q
      BY SubSeqFull
  <2>2. 0 + 1 = 1 /\ 1 \in 1..Len(q)
      BY <1>1
  <2> QED BY <1>4, <1>5, <2>1, <2>2
<1>7. 1 \in 1..Len(p) /\ \A j \in 1..Len(p) : j # 1 => p[j] = <<>>
    BY <1>1, <1>4, <1>5
<1>8. FlattenSeq(p) = p[1]
    BY <1>4, <1>7, FlattenOne
<1> QED BY <1>3, <1>6, <1>8, ParsedIs

(* A query with one more part.                                             *)
Longer(y, q, x) == y = (q \o <<"&">>) \o x
IsLonger(y, q, x) ==
    /\ y \in Seq(QueryChars) /\ Len(y) = Len(q) + 1 + Len(x)
    /\ \A i \in 1..Len(q) : y[i] = q[i]
    /\ y[Len(q) + 1] = "&"
    /\ \A i \in 1..Len(x) : y[Len(q) + 1 + i] = x[i]

LEMMA LongerIs ==
    ASSUME NEW q \in Seq(QueryChars), NEW x \in Seq(QueryChars), NEW y, Longer(y, q, x)
    PROVE  IsLonger(y, q, x)
<1>0. Len(q) \in Nat /\ Len(x) \in Nat
    BY LenProperties
<1>1. "&" \in QueryChars
    BY DEF QueryChars
<1>2. <<"&">> \in Seq(QueryChars)
    BY <1>1
<1>3. PICK c \in Seq(QueryChars) : c = <<"&">> /\ Len(c) = 1 /\ c[1] = "&"
    BY <1>2
<1>4. PICK d \in Seq(QueryChars) : d = q \o c
    BY ConcatProperties
<1>5. Len(d) = Len(q) + 1 /\ \A i \in 1..(Len(q) + 1) : d[i] = IF i <= Len(q) THEN q[i] ELSE c[i - Len(q)]
    BY <1>3, <1>4, ConcatProperties
<1>6. PICK z \in Seq(QueryChars) : z = d \o x
    BY ConcatProperties
<1>7. Len(z) = Len(d) + Len(x) /\ \A i \in 1..(Len(d) + Len(x)) : z[i] = IF i <= Len(d) THEN d[i] ELSE x[i - Len(d)]
    BY <1>6, ConcatProperties
<1>8. y = z
    BY <1>3, <1>4, <1>6, Zenon DEF Longer
<1>9. \A i \in 1..Len(q) : z[i] = q[i]
  <2> TAKE i \in 1..Len(q)
  <2>1. i \in 1..(Len(q) + 1) /\ i <= Len(q) /\ i \in 1..(Len(d) + Len(x)) /\ i <= Len(d)
      BY <1>0, <1>5
  <2> QED BY <1>5, <1>7, <2>1
<1>10. z[Len(q) + 1] = "&"
  <2>1. Len(q) + 1 \in 1..(Len(q) + 1) /\ ~(Len(q) + 1 <= Len(q)) /\ (Len(q) + 1) - Len(q) = 1
        /\ Len(q) + 1 \in 1..(Len(d) + Len(x)) /\ Len(q) + 1 <= Len(d)
      BY <1>0, <1>5
  <2> QED BY <1>3, <1>5, <1>7, <2>1
<1>11. \A i \in 1..Len(x) : z[Len(q) + 1 + i] = x[i]
  <2> TAKE i \in 1..Len(x)
  <2>1. Len(q) + 1 + i \in 1..(Len(d) + Len(x)) /\ ~(Len(q) + 1 + i <= Len(d)) /\ (Len(q) + 1 + i) - Len(d) = i
      BY <1>0, <1>5
  <2> QED BY <1>7, <2>1
<1>12. Len(z) = Len(q) + 1 + Len(x)
    BY <1>5, <1>7
<1> QED BY <1>8, <1>9, <1>10, <1>11, <1>12 DEF IsLonger

(* The parts a query had are not changed by one more.                      *)
LEMMA EarlierPart ==
    ASSUME NEW q \in Seq(QueryChars), NEW x \in Seq(QueryChars), NEW y, IsLonger(y, q, x), NEW i \in 1..Len(q)
    PROVE  PieceAt(y, i) = PieceAt(q, i)
<1>1. PICK n \in Nat, l \in Nat : n = Len(q) /\ l = Len(x)
    BY LenProperties
<1>2. /\ y \in Seq(QueryChars) /\ Len(y) = n + 1 + l
      /\ \A j \in 1..n : y[j] = q[j]
      /\ y[n + 1] = "&"
    BY <1>1 DEF IsLonger
<1>3. Starts(y, i) <=> Starts(q, i)
  <2>1. y[i] = q[i]
      BY <1>1, <1>2
  <2>2. i > 1 => y[i - 1] = q[i - 1]
    <3>1. i > 1 => i - 1 \in 1..n
        BY <1>1
    <3> QED BY <1>2, <3>1
  <2> QED BY <2>1, <2>2 DEF Starts
<1>4. PICK m \in (i + 1)..(n + 1) : m = Min(Cuts(q, i)) /\ m \in Cuts(q, i) /\ \A k \in Cuts(q, i) : m <= k
    BY <1>1, CutsAre
<1>5. Min(Cuts(y, i)) = m
  <2>1. PICK T : T = Cuts(y, i)
      OBVIOUS
  <2>2. T = {k \in (i + 1)..(n + 1 + l + 1) : k > n + 1 + l \/ y[k] = "&"}
      BY <1>2, <2>1 DEF Cuts
  <2>3. T \subseteq Nat
      BY <1>1, <2>2
  <2>4. m \in T
    <3>1. m > n \/ q[m] = "&"
        BY <1>1, <1>4 DEF Cuts
    <3>2. m \in (i + 1)..(n + 1 + l + 1)
        BY <1>1, <1>4
    <3>3. y[m] = "&"
      <4>1. CASE m = n + 1
          BY <1>2, <4>1
      <4>2. CASE m # n + 1
        <5>1. m \in 1..n /\ ~(m > n)
            BY <1>1, <1>4, <4>2
        <5> QED BY <1>2, <3>1, <5>1
      <4> QED BY <4>1, <4>2
    <3> QED BY <2>2, <3>2, <3>3
  <2>5. ASSUME NEW k \in T PROVE m <= k
    <3>1. k \in (i + 1)..(n + 1 + l + 1) /\ (k > n + 1 + l \/ y[k] = "&")
        BY <2>2
    <3>2. CASE k > n
        BY <1>4, <3>1, <3>2
    <3>3. CASE ~(k > n)
      <4>1. k \in 1..n /\ k \in (i + 1)..(n + 1) /\ ~(k > n + 1 + l)
          BY <1>1, <3>1, <3>3
      <4>2. q[k] = "&"
          BY <1>2, <3>1, <4>1
      <4>3. k \in Cuts(q, i)
          BY <1>1, <4>1, <4>2 DEF Cuts
      <4> QED BY <1>4, <4>3
    <3> QED BY <3>2, <3>3
  <2> QED BY <2>1, <2>3, <2>4, <2>5, MinUnique
<1>6. PartAt(y, i) = PartAt(q, i)
  <2>1. PICK a \in Int, b \in Int : a = i /\ b = m - 1 /\ a <= b /\ b <= n /\ 1 <= a
      BY <1>1, <1>4
  <2>2. PICK c \in Nat : c = b - a + 1
      BY <2>1
  <2>3. PICK s \in Seq(QueryChars) : s = SubSeq(q, a, b) /\ Len(s) = c /\ \A j \in 1..c : s[j] = q[a + j - 1]
    <3>1. \A j \in a..b : q[j] \in QueryChars
        BY <1>1, <2>1, ElementOfSeq
    <3>2. /\ SubSeq(q, a, b) \in Seq(QueryChars) /\ Len(SubSeq(q, a, b)) = IF a <= b THEN b - a + 1 ELSE 0
          /\ \A j \in 1..(b - a + 1) : SubSeq(q, a, b)[j] = q[a + j - 1]
        BY <3>1, SubSeqProperties
    <3> QED BY <2>1, <2>2, <3>2
  <2>4. PICK t \in Seq(QueryChars) : t = SubSeq(y, a, b) /\ Len(t) = c /\ \A j \in 1..c : t[j] = y[a + j - 1]
    <3>1. \A j \in a..b : y[j] \in QueryChars
        BY <1>1, <1>2, <2>1, ElementOfSeq
    <3>2. /\ SubSeq(y, a, b) \in Seq(QueryChars) /\ Len(SubSeq(y, a, b)) = IF a <= b THEN b - a + 1 ELSE 0
          /\ \A j \in 1..(b - a + 1) : SubSeq(y, a, b)[j] = y[a + j - 1]
        BY <3>1, SubSeqProperties
    <3> QED BY <2>1, <2>2, <3>2
  <2>5. ASSUME NEW j \in 1..c PROVE s[j] = t[j]
    <3>1. a + j - 1 \in 1..n
        BY <1>1, <2>1, <2>2
    <3> QED BY <1>2, <2>3, <2>4, <3>1
  <2>6. s = t
      BY <2>3, <2>4, <2>5, SeqEqual
  <2> QED BY <1>4, <1>5, <2>1, <2>3, <2>4, <2>6 DEF PartAt
<1> QED BY <1>3, <1>6 DEF PieceAt

LEMMA PartAdded ==
    ASSUME NEW q \in Seq(QueryChars), NEW x \in Seq(QueryChars), Len(x) # 0, \A j \in 1..Len(x) : x[j] # "&",
           NEW y, Longer(y, q, x)
    PROVE  y \in Seq(QueryChars) /\ Parsed(y) = Parsed(q) \o <<PairOf(x)>>
<1>1. PICK n \in Nat, l \in Nat : n = Len(q) /\ l = Len(x)
    BY LenProperties
<1>2. IsLonger(y, q, x)
    BY LongerIs
<1>3. /\ y \in Seq(QueryChars) /\ Len(y) = n + 1 + l
      /\ y[n + 1] = "&"
      /\ \A i \in 1..l : y[n + 1 + i] = x[i]
    BY <1>1, <1>2 DEF IsLonger
<1>4. PICK S : S = PairsAt(y)
    OBVIOUS
<1>5. \A i \in 1..(n + 1 + l) : PieceAt(y, i) \in Seq(S)
    BY <1>3, <1>4, PiecesType
<1>6. PICK p : p = PiecesOf(q)
    OBVIOUS
<1>7. p \in Seq(Seq(S)) /\ Len(p) = n /\ \A i \in 1..n : p[i] = PieceAt(y, i)
  <2>1. \A i \in 1..n : PieceAt(q, i) = PieceAt(y, i)
      BY <1>1, <1>2, EarlierPart
  <2>2. \A i \in 1..n : PieceAt(q, i) \in Seq(S)
    <3> TAKE i \in 1..n
    <3>1. i \in 1..(n + 1 + l)
        OBVIOUS
    <3> QED BY <1>5, <2>1, <3>1
  <2>3. [i \in 1..n |-> PieceAt(q, i)] \in Seq(Seq(S))
      BY <2>2, IsASeq
  <2>4. p = [i \in 1..n |-> PieceAt(q, i)]
      BY <1>1, <1>6 DEF PiecesOf
  <2> QED BY <2>1, <2>3, <2>4
<1>8. PICK r : r = [i \in 1..(1 + l) |-> PieceAt(y, n + i)]
    OBVIOUS
<1>9. r \in Seq(Seq(S)) /\ Len(r) = 1 + l /\ \A i \in 1..(1 + l) : r[i] = PieceAt(y, n + i)
  <2>1. \A i \in 1..(1 + l) : PieceAt(y, n + i) \in Seq(S)
    <3> TAKE i \in 1..(1 + l)
    <3>1. n + i \in 1..(n + 1 + l)
        OBVIOUS
    <3> QED BY <1>5, <3>1
  <2>2. [i \in 1..(1 + l) |-> PieceAt(y, n + i)] \in Seq(Seq(S))
      BY <2>1, IsASeq
  <2> QED BY <1>8, <2>2
<1>10. PiecesOf(y) = p \o r
  <2>1. PICK a : a = PiecesOf(y)
      OBVIOUS
  <2>2. a \in Seq(Seq(S)) /\ Len(a) = n + 1 + l /\ \A i \in 1..(n + 1 + l) : a[i] = PieceAt(y, i)
      BY <1>3, <1>4, <2>1, PiecesType
  <2>3. PICK b \in Seq(Seq(S)) : b = p \o r
      BY <1>7, <1>9, ConcatProperties
  <2>4. Len(b) = n + 1 + l /\ \A i \in 1..(n + 1 + l) : b[i] = IF i <= n THEN p[i] ELSE r[i - n]
    <3>1. Len(b) = Len(p) + Len(r) /\ \A i \in 1..(Len(p) + Len(r)) : b[i] = IF i <= Len(p) THEN p[i] ELSE r[i - Len(p)]
        BY <1>7, <1>9, <2>3, ConcatProperties
    <3>2. Len(p) + Len(r) = n + 1 + l
        BY <1>7, <1>9
    <3> QED BY <1>7, <3>1, <3>2
  <2>5. ASSUME NEW i \in 1..(n + 1 + l) PROVE a[i] = b[i]
    <3>1. CASE i <= n
      <4>1. i \in 1..n
          BY <3>1
      <4> QED BY <1>7, <2>2, <2>4, <3>1, <4>1
    <3>2. CASE ~(i <= n)
      <4>1. i - n \in 1..(1 + l) /\ n + (i - n) = i
          BY <3>2
      <4> QED BY <1>9, <2>2, <2>4, <3>2, <4>1
    <3> QED BY <3>1, <3>2
  <2>6. a = b
      BY <2>2, <2>4, <2>3, <2>5, SeqEqual
  <2> QED BY <2>1, <2>3, <2>6
<1>11. PICK k \in 0..(Len(y) - 1) : k = n + 1
    BY <1>1, <1>3
<1>12. PieceAt(y, k + 1) = <<PairOf(SubSeq(y, k + 1, Len(y)))>> /\ \A j \in (k + 2)..Len(y) : PieceAt(y, j) = <<>>
  <2>1. \A j \in (k + 1)..Len(y) : y[j] # "&"
    <3> TAKE j \in (k + 1)..Len(y)
    <3>1. j - (n + 1) \in 1..l /\ n + 1 + (j - (n + 1)) = j
        BY <1>3, <1>11
    <3> QED BY <1>1, <1>3, <3>1
  <2>2. y[k] = "&"
      BY <1>3, <1>11
  <2> QED BY <1>3, <2>1, <2>2, LastPart
<1>13. SubSeq(y, k + 1, Len(y)) = x
  <2>1. PICK a \in Int, b \in Int : a = n + 2 /\ b = n + 1 + l /\ b - a + 1 = l /\ a <= b
      BY <1>1
  <2>2. \A i \in a..b : y[i] \in QueryChars
      BY <1>3, <2>1, ElementOfSeq
  <2>3. PICK s \in Seq(QueryChars) : /\ s = SubSeq(y, a, b) /\ Len(s) = IF a <= b THEN b - a + 1 ELSE 0
                                 /\ \A i \in 1..(b - a + 1) : s[i] = y[a + i - 1]
    <3>1. /\ SubSeq(y, a, b) \in Seq(QueryChars) /\ Len(SubSeq(y, a, b)) = IF a <= b THEN b - a + 1 ELSE 0
          /\ \A i \in 1..(b - a + 1) : SubSeq(y, a, b)[i] = y[a + i - 1]
        BY <2>2, SubSeqProperties
    <3> QED BY <3>1
  <2>4. Len(s) = l
      BY <2>1, <2>3
  <2>5. ASSUME NEW i \in 1..l PROVE s[i] = x[i]
    <3>1. a + i - 1 = n + 1 + i /\ i \in 1..(b - a + 1)
        BY <2>1
    <3> QED BY <1>3, <2>3, <3>1
  <2>6. s = x
      BY <1>1, <2>3, <2>4, <2>5, SeqEqual
  <2> QED BY <1>3, <1>11, <2>1, <2>3, <2>6
<1>14. r[2] = <<PairOf(x)>>
  <2>1. n + 2 = k + 1 /\ 2 \in 1..(1 + l)
      BY <1>1, <1>11
  <2> QED BY <1>9, <1>12, <1>13, <2>1
<1>15. ASSUME NEW j \in 1..Len(r), j # 2 PROVE r[j] = <<>>
  <2>1. j \in 1..(1 + l)
      BY <1>9
  <2>2. CASE j = 1
    <3>1. ~Starts(y, n + 1)
        BY <1>3 DEF Starts
    <3>2. PieceAt(y, n + 1) = <<>>
        BY <3>1 DEF PieceAt
    <3> QED BY <1>9, <2>1, <2>2, <3>2
  <2>3. CASE j # 1
    <3>1. n + j \in (k + 2)..Len(y)
        BY <1>3, <1>11, <1>15, <2>1, <2>3
    <3> QED BY <1>9, <1>12, <2>1, <3>1
  <2> QED BY <2>2, <2>3
<1>16. FlattenSeq(r) = r[2]
  <2>1. 2 \in 1..Len(r)
      BY <1>1, <1>9
  <2> QED BY <1>9, <1>15, <2>1, FlattenOne
<1>17. FlattenSeq(p \o r) = FlattenSeq(p) \o FlattenSeq(r)
    BY <1>7, <1>9, FlattenConcat
<1>18. FlattenSeq(p) = Parsed(q)
    BY <1>6, ParsedIs
<1>19. Parsed(y) = FlattenSeq(p \o r)
    BY <1>3, <1>10, ParsedIs
<1> QED BY <1>3, <1>14, <1>16, <1>17, <1>18, <1>19

-----------------------------------------------------------------------------
(* What toString() writes reads back as the same pairs.                    *)
PartOf(pair) == Joint(Encoded(pair[1]), Encoded(pair[2]))
Separator(i) == IF i = 1 THEN <<>> ELSE <<"&">>
WrittenAt(pairs, i) == ((Separator(i) \o Encoded(pairs[i][1])) \o <<"=">>) \o Encoded(pairs[i][2])
WrittenAll(pairs) == [i \in 1..Len(pairs) |-> WrittenAt(pairs, i)]

LEMMA SerializedIs ==
    ASSUME NEW pairs \in Seq(PairSet)
    PROVE  Serialized(pairs) = FlattenSeq(WrittenAll(pairs))
<1>1. DOMAIN pairs = 1..Len(pairs)
    BY LenProperties
<1> QED BY <1>1 DEF Serialized, WrittenAll, WrittenAt, Separator

LEMMA WrittenAtIs ==
    ASSUME NEW pairs \in Seq(PairSet), NEW i \in 1..Len(pairs)
    PROVE  WrittenAt(pairs, i) = Separator(i) \o PartOf(pairs[i])
<1>1. PICK p \in PairSet : p = pairs[i]
    BY ElementOfSeq
<1>2. p[1] \in Encodable /\ p[2] \in Encodable
    BY DEF PairSet
<1>3. PICK e \in Seq(QueryChars), f \in Seq(QueryChars) : e = Encoded(p[1]) /\ f = Encoded(p[2])
    BY <1>2, EncodedIs
<1>4. "=" \in QueryChars /\ "&" \in QueryChars
    BY DEF QueryChars
<1>5. <<"=">> \in Seq(QueryChars) /\ <<"&">> \in Seq(QueryChars) /\ <<>> \in Seq(QueryChars)
    BY <1>4
<1>6. PICK c \in Seq(QueryChars), s \in Seq(QueryChars) : c = <<"=">> /\ s = Separator(i)
    BY <1>5 DEF Separator
<1>7. PICK g \in Seq(QueryChars) : g = e \o c
    BY ConcatProperties
<1>8. Associates(s, e, c) /\ Associates(s, g, f)
    BY JoinsAssociate
<1>9. (s \o e) \o c = s \o g
    BY <1>7, <1>8, Zenon DEF Associates
<1>10. (s \o g) \o f = s \o (g \o f)
    BY <1>8, Zenon DEF Associates
<1>11. ((s \o e) \o c) \o f = s \o (g \o f)
    BY <1>9, <1>10, Zenon
<1>12. PartOf(p) = g \o f
    BY <1>3, <1>6, <1>7, Zenon DEF PartOf, Joint
<1> QED BY <1>1, <1>3, <1>6, <1>11, <1>12, Zenon DEF WrittenAt

LEMMA PartsAre ==
    ASSUME NEW p \in PairSet
    PROVE  /\ PartOf(p) \in Seq(QueryChars) /\ Len(PartOf(p)) # 0 /\ \A i \in 1..Len(PartOf(p)) : PartOf(p)[i] # "&"
           /\ PairOf(PartOf(p)) = p
<1>1. p[1] \in Encodable /\ p[2] \in Encodable /\ p = <<p[1], p[2]>>
    BY DEF PairSet
<1>2. PICK x : x = PartOf(p)
    OBVIOUS
<1>3. x = Joint(Encoded(p[1]), Encoded(p[2]))
    BY <1>2 DEF PartOf
<1>4. x \in Seq(QueryChars) /\ Len(x) # 0 /\ (\A i \in 1..Len(x) : x[i] # "&") /\ PairOf(x) = <<p[1], p[2]>>
    BY <1>1, <1>3, PairOfJoint
<1> QED BY <1>1, <1>2, <1>4

(* The first pairs of a list.                                              *)
Upto(pairs, k) == [i \in 1..k |-> pairs[i]]

LEMMA UptoIs ==
    ASSUME NEW S, NEW pairs \in Seq(S), NEW k \in 0..Len(pairs)
    PROVE  Upto(pairs, k) \in Seq(S) /\ Len(Upto(pairs, k)) = k /\ \A i \in 1..k : Upto(pairs, k)[i] = pairs[i]
<1>1. Len(pairs) \in Nat
    BY LenProperties
<1>2. k \in Nat /\ \A i \in 1..k : pairs[i] \in S
  <2>1. k \in Nat /\ \A i \in 1..k : i \in 1..Len(pairs)
      BY <1>1
  <2> QED BY <2>1, ElementOfSeq
<1>3. [i \in 1..k |-> pairs[i]] \in Seq(S)
    BY <1>2, IsASeq
<1> QED BY <1>2, <1>3 DEF Upto

(* Reads back, and is a query.                                             *)
Returns(pairs) == Serialized(pairs) \in Seq(QueryChars) /\ Parsed(Serialized(pairs)) = pairs

LEMMA WrittenType ==
    ASSUME NEW pairs \in Seq(PairSet)
    PROVE  /\ WrittenAll(pairs) \in Seq(Seq(QueryChars)) /\ Len(WrittenAll(pairs)) = Len(pairs)
           /\ \A i \in 1..Len(pairs) : WrittenAll(pairs)[i] = WrittenAt(pairs, i) /\ WrittenAt(pairs, i) \in Seq(QueryChars)
<1>1. Len(pairs) \in Nat
    BY LenProperties
<1>2. \A i \in 1..Len(pairs) : WrittenAt(pairs, i) \in Seq(QueryChars)
  <2> TAKE i \in 1..Len(pairs)
  <2>1. PICK p \in PairSet : p = pairs[i]
      BY ElementOfSeq
  <2>2. PartOf(p) \in Seq(QueryChars)
      BY PartsAre
  <2>3. "&" \in QueryChars
      BY DEF QueryChars
  <2>4. <<"&">> \in Seq(QueryChars) /\ <<>> \in Seq(QueryChars)
      BY <2>3
  <2>5. Separator(i) \in Seq(QueryChars)
      BY <2>4 DEF Separator
  <2>6. Separator(i) \o PartOf(p) \in Seq(QueryChars)
      BY <2>2, <2>5, ConcatProperties
  <2> QED BY <2>1, <2>6, WrittenAtIs
<1>3. [i \in 1..Len(pairs) |-> WrittenAt(pairs, i)] \in Seq(Seq(QueryChars))
    BY <1>1, <1>2, IsASeq
<1> QED BY <1>1, <1>2, <1>3 DEF WrittenAll

LEMMA SerializedGrows ==
    ASSUME NEW pairs \in Seq(PairSet), NEW k \in 1..Len(pairs)
    PROVE  Serialized(Upto(pairs, k)) = Serialized(Upto(pairs, k - 1)) \o (Separator(k) \o PartOf(pairs[k]))
<1>1. PICK n \in Nat : n = Len(pairs)
    BY LenProperties
<1>2. k \in 0..Len(pairs) /\ k - 1 \in 0..Len(pairs)
    BY <1>1
<1>3. PICK a \in Seq(PairSet) : a = Upto(pairs, k) /\ Len(a) = k /\ \A i \in 1..k : a[i] = pairs[i]
    BY <1>2, UptoIs
<1>4. PICK b \in Seq(PairSet) : b = Upto(pairs, k - 1) /\ Len(b) = k - 1 /\ \A i \in 1..(k - 1) : b[i] = pairs[i]
    BY <1>2, UptoIs
<1>5. PICK v \in Seq(Seq(QueryChars)) : v = WrittenAll(a) /\ Len(v) = k /\ \A i \in 1..k : v[i] = WrittenAt(a, i) /\ v[i] \in Seq(QueryChars)
    BY <1>3, WrittenType
<1>6. PICK w \in Seq(Seq(QueryChars)) : w = WrittenAll(b) /\ Len(w) = k - 1 /\ \A i \in 1..(k - 1) : w[i] = WrittenAt(b, i)
    BY <1>4, WrittenType
<1>7. PICK c \in Seq(QueryChars) : c = v[k]
    BY <1>1, <1>5
<1>8. PICK u \in Seq(Seq(QueryChars)) : u = Append(w, c) /\ Len(u) = k /\ \A i \in 1..k : u[i] = IF i = k THEN c ELSE w[i]
  <2>1. Len(w) = k - 1
      BY <1>6
  <2>2. Append(w, c) \in Seq(Seq(QueryChars)) /\ Len(Append(w, c)) = k
        /\ \A i \in 1..k : Append(w, c)[i] = IF i = k THEN c ELSE w[i]
      BY <1>1, <2>1
  <2> QED BY <2>2
<1>9. v = u
  <2>1. ASSUME NEW i \in 1..k PROVE v[i] = u[i]
    <3>1. CASE i = k
        BY <1>7, <1>8, <3>1
    <3>2. CASE i # k
      <4>1. i \in 1..(k - 1)
          BY <1>1, <3>2
      <4>2. a[i] = b[i]
          BY <1>3, <1>4, <4>1
      <4>3. WrittenAt(a, i) = WrittenAt(b, i)
          BY <4>2 DEF WrittenAt
      <4> QED BY <1>5, <1>6, <1>8, <3>2, <4>1, <4>3
    <3> QED BY <3>1, <3>2
  <2> QED BY <1>5, <1>8, <2>1, SeqEqual
<1>10. Joined(FlattenSeq(u), FlattenSeq(w), c)
    BY <1>8, FlattenAppend
<1>11. FlattenSeq(v) = FlattenSeq(w) \o c
    BY <1>9, <1>10 DEF Joined
<1>12. c = Separator(k) \o PartOf(pairs[k])
  <2>1. k \in 1..Len(a) /\ a[k] = pairs[k]
      BY <1>1, <1>3
  <2>2. WrittenAt(a, k) = Separator(k) \o PartOf(a[k])
      BY <2>1, WrittenAtIs
  <2>3. c = WrittenAt(a, k)
      BY <1>1, <1>5, <1>7
  <2> QED BY <2>1, <2>2, <2>3, Zenon
<1>13. Serialized(a) = FlattenSeq(v) /\ Serialized(b) = FlattenSeq(w)
    BY <1>5, <1>6, SerializedIs
<1> QED BY <1>3, <1>4, <1>11, <1>12, <1>13, Zenon

LEMMA ReturnsNext ==
    ASSUME NEW pairs \in Seq(PairSet), NEW k \in 1..Len(pairs), Returns(Upto(pairs, k - 1))
    PROVE  Returns(Upto(pairs, k))
<1>1. PICK n \in Nat : n = Len(pairs)
    BY LenProperties
<1>2. k \in 0..Len(pairs) /\ k - 1 \in 0..Len(pairs)
    BY <1>1
<1>3. PICK a \in Seq(PairSet) : a = Upto(pairs, k) /\ Len(a) = k /\ \A i \in 1..k : a[i] = pairs[i]
    BY <1>2, UptoIs
<1>4. PICK b \in Seq(PairSet) : b = Upto(pairs, k - 1) /\ Len(b) = k - 1 /\ \A i \in 1..(k - 1) : b[i] = pairs[i]
    BY <1>2, UptoIs
<1>5. PICK p \in PairSet : p = pairs[k]
    BY ElementOfSeq
<1>6. PICK x \in Seq(QueryChars) : /\ x = PartOf(p) /\ Len(x) # 0 /\ \A i \in 1..Len(x) : x[i] # "&"
                               /\ PairOf(x) = p
    BY PartsAre
<1>7. PICK q \in Seq(QueryChars) : q = Serialized(b) /\ Parsed(q) = b
    BY <1>4 DEF Returns
<1>8. PICK y : y = Serialized(a)
    OBVIOUS
<1>9. y = q \o (Separator(k) \o x)
    BY <1>3, <1>4, <1>5, <1>6, <1>7, <1>8, SerializedGrows
<1>10. CASE k = 1
  <2>1. b = <<>>
      BY <1>4, <1>10, EmptySeq
  <2>2. q = <<>>
    <3>1. WrittenAll(b) = <<>>
      <4>1. WrittenAll(b) \in Seq(Seq(QueryChars)) /\ Len(WrittenAll(b)) = 0
          BY <1>4, <1>10, WrittenType
      <4> QED BY <4>1, EmptySeq
    <3> QED BY <1>7, <3>1, SerializedIs, FlattenNone
  <2>3. Separator(k) = <<>>
      BY <1>10 DEF Separator
  <2>4. <<>> \o x = x /\ Separator(k) \o x = x
      BY <2>3, ConcatEmptySeq
  <2>5. y = x
      BY <1>9, <2>2, <2>4
  <2>6. Parsed(x) = <<p>>
      BY <1>6, PartAlone
  <2>7. <<p>> = a
      BY <1>3, <1>5, <1>10
  <2> QED BY <1>3, <1>8, <2>5, <2>6, <2>7 DEF Returns
<1>11. CASE k # 1
  <2>1. "&" \in QueryChars
      BY DEF QueryChars
  <2>2. <<"&">> \in Seq(QueryChars)
      BY <2>1
  <2>3. PICK s \in Seq(QueryChars) : s = <<"&">>
      BY <2>2
  <2>4. Separator(k) = s
      BY <1>11, <2>3 DEF Separator
  <2>5. Associates(q, s, x)
      BY JoinsAssociate
  <2>6. y = (q \o s) \o x
      BY <1>9, <2>4, <2>5, Zenon DEF Associates
  <2>7. Longer(y, q, x)
      BY <2>3, <2>6, Zenon DEF Longer
  <2>8. y \in Seq(QueryChars) /\ Parsed(y) = Parsed(q) \o <<PairOf(x)>>
      BY <1>6, <2>7, PartAdded
  <2>9. b \o <<p>> = a
    <3>1. <<p>> \in Seq(PairSet)
        OBVIOUS
    <3>2. PICK c \in Seq(PairSet) : c = <<p>> /\ Len(c) = 1 /\ c[1] = p
        BY <3>1
    <3>3. PICK d \in Seq(PairSet) : d = b \o c
        BY ConcatProperties
    <3>4. Len(d) = k /\ \A i \in 1..k : d[i] = IF i <= k - 1 THEN b[i] ELSE c[i - (k - 1)]
      <4>1. Len(d) = Len(b) + Len(c) /\ \A i \in 1..(Len(b) + Len(c)) : d[i] = IF i <= Len(b) THEN b[i] ELSE c[i - Len(b)]
          BY <3>3, ConcatProperties
      <4>2. Len(b) + Len(c) = k
          BY <1>1, <1>4, <3>2
      <4> QED BY <1>4, <4>1, <4>2
    <3>5. ASSUME NEW i \in 1..k PROVE d[i] = a[i]
      <4>1. CASE i <= k - 1
        <5>1. i \in 1..(k - 1)
            BY <1>1, <4>1
        <5> QED BY <1>3, <1>4, <3>4, <4>1, <5>1
      <4>2. CASE ~(i <= k - 1)
        <5>1. i = k /\ i - (k - 1) = 1
            BY <1>1, <4>2
        <5> QED BY <1>3, <1>5, <3>2, <3>4, <4>2, <5>1
      <4> QED BY <4>1, <4>2
    <3>6. d = a
        BY <1>3, <3>4, <3>5, SeqEqual
    <3> QED BY <3>2, <3>3, <3>6
  <2>10. Parsed(y) = b \o <<p>>
      BY <1>6, <1>7, <2>8
  <2>11. Parsed(y) = a
      BY <2>9, <2>10
  <2> QED BY <1>3, <1>8, <2>8, <2>11 DEF Returns
<1> QED BY <1>10, <1>11

(***************************************************************************)
(* Whatever names and values a URLSearchParams holds, of those that        *)
(* encodeURIComponent accepts (none with a lone surrogate), the query that *)
(* toString() writes for them has only characters a query may have and is  *)
(* parsed to the same list of pairs: nothing is lost by escaping "&", "=", *)
(* "+", "%" and spaces, nor by the empty parts that parsing leaves out.    *)
(***************************************************************************)
THEOREM RoundTrip ==
    ASSUME NEW pairs, Encodes(pairs)
    PROVE  Serialized(pairs) \in Seq(QueryChars) /\ Parsed(Serialized(pairs)) = pairs
<1>0. pairs \in Seq(PairSet)
    BY DEF Encodes, PairSet
<1>1. PICK n \in Nat : n = Len(pairs)
    BY <1>0, LenProperties
<1>2. PICK T : T = {k \in 0..n : Returns(Upto(pairs, k))}
    OBVIOUS
<1>3. 0 \in T
  <2>1. Upto(pairs, 0) \in Seq(PairSet) /\ Len(Upto(pairs, 0)) = 0
      BY <1>0, <1>1, UptoIs
  <2>2. Upto(pairs, 0) = <<>>
      BY <2>1, EmptySeq
  <2>3. <<>> \in Seq(PairSet) /\ <<>> \in Seq(QueryChars) /\ <<>> \in Seq(Seq(QueryChars))
      OBVIOUS
  <2>4. Len(<<>>) = 0
      OBVIOUS
  <2>5. Serialized(<<>>) = <<>>
    <3>1. WrittenAll(<<>>) \in Seq(Seq(QueryChars)) /\ Len(WrittenAll(<<>>)) = 0
        BY <2>3, <2>4, WrittenType
    <3>2. WrittenAll(<<>>) = <<>>
        BY <3>1, EmptySeq
    <3> QED BY <2>3, <3>2, SerializedIs, FlattenNone
  <2>6. Parsed(<<>>) = <<>>
    <3>1. PiecesOf(<<>>) \in Seq(Seq(PairsAt(<<>>))) /\ Len(PiecesOf(<<>>)) = 0
        BY <2>3, <2>4, PiecesType
    <3>2. PiecesOf(<<>>) = <<>>
        BY <3>1, EmptySeq
    <3> QED BY <2>3, <3>2, ParsedIs, FlattenNone
  <2>7. Returns(Upto(pairs, 0))
      BY <2>2, <2>3, <2>5, <2>6 DEF Returns
  <2> QED BY <1>2, <2>7
<1>4. ASSUME NEW i \in 0..(n - 1), i \in T PROVE i + 1 \in T
  <2>1. PICK k \in 1..n : k = i + 1 /\ k - 1 = i
      BY <1>1
  <2>2. Returns(Upto(pairs, k - 1))
      BY <1>2, <1>4, <2>1
  <2>3. Returns(Upto(pairs, k))
      BY <1>0, <1>1, <2>2, ReturnsNext
  <2> QED BY <1>2, <2>1, <2>3
<1>5. 0..n \subseteq T
    BY <1>3, <1>4, CountUp
<1>6. Returns(Upto(pairs, n))
  <2>1. n \in 0..n
      OBVIOUS
  <2> QED BY <1>2, <1>5, <2>1
<1>7. Upto(pairs, n) = pairs
  <2>1. Upto(pairs, n) \in Seq(PairSet) /\ Len(Upto(pairs, n)) = n /\ \A i \in 1..n : Upto(pairs, n)[i] = pairs[i]
    <3>1. n \in 0..Len(pairs)
        BY <1>1
    <3> QED BY <1>0, <3>1, UptoIs
  <2> QED BY <1>0, <1>1, <2>1, SeqEqual
<1> QED BY <1>6, <1>7 DEF Returns

-----------------------------------------------------------------------------
(* What the operations of URLSearchParams leave are lists of pairs.        *)
LEMMA FilteredType ==
    ASSUME NEW S, NEW list \in Seq(S), NEW keep
    PROVE  Filtered(list, keep) \in Seq(S)
<1>1. Len(list) \in Nat /\ DOMAIN list = 1..Len(list)
    BY LenProperties
<1>2. ASSUME NEW i \in 1..Len(list) PROVE (IF i \in keep THEN <<list[i]>> ELSE <<>>) \in Seq(S)
  <2>1. PICK e \in S : e = list[i]
      BY ElementOfSeq
  <2>2. <<e>> \in Seq(S) /\ <<>> \in Seq(S)
      OBVIOUS
  <2> QED BY <2>1, <2>2
<1>3. [i \in 1..Len(list) |-> IF i \in keep THEN <<list[i]>> ELSE <<>>] \in Seq(Seq(S))
    BY <1>1, <1>2, IsASeq
<1>4. PICK q \in Seq(Seq(S)) : q = [i \in 1..Len(list) |-> IF i \in keep THEN <<list[i]>> ELSE <<>>]
    BY <1>3
<1>5. Filtered(list, keep) = FlattenSeq(q)
    BY <1>1, <1>4 DEF Filtered
<1> QED BY <1>5, FlattenType

LEMMA PairsTyped ==
    ASSUME NEW pairs \in Seq(AnyPair), NEW name \in Texts, NEW value \in Texts
    PROVE  /\ Append(pairs, <<name, value>>) \in Seq(AnyPair)
           /\ SetPair(pairs, name, value) \in Seq(AnyPair)
           /\ DeletedPairs(pairs, name) \in Seq(AnyPair)
           /\ DeletedPair(pairs, name, value) \in Seq(AnyPair)
<1>1. PICK p \in AnyPair : p = <<name, value>>
    BY DEF AnyPair
<1>2. Append(pairs, p) \in Seq(AnyPair)
    OBVIOUS
<1>3. DeletedPairs(pairs, name) \in Seq(AnyPair) /\ DeletedPair(pairs, name, value) \in Seq(AnyPair)
    BY FilteredType DEF DeletedPairs, DeletedPair
<1>4. ASSUME PairsNamed(pairs, name) # {} PROVE SetPair(pairs, name, value) \in Seq(AnyPair)
  <2>1. PairsNamed(pairs, name) \subseteq 1..Len(pairs) /\ Len(pairs) \in Nat
      BY LenProperties DEF PairsNamed
  <2>2. PICK T : T = PairsNamed(pairs, name)
      OBVIOUS
  <2>3. T \subseteq Nat /\ T # {}
      BY <1>4, <2>1, <2>2
  <2>4. Min(T) \in T
      BY <2>3, MinIs
  <2>5. PICK i \in 1..Len(pairs) : i = Min(PairsNamed(pairs, name))
      BY <2>1, <2>2, <2>4
  <2>6. PICK a \in Seq(AnyPair), b \in Seq(AnyPair) : a = SubSeq(pairs, 1, i - 1) /\ b = SubSeq(pairs, i + 1, Len(pairs))
      BY Halved DEF Preceding, Following
  <2>7. <<p>> \in Seq(AnyPair)
      OBVIOUS
  <2>8. PICK c \in Seq(AnyPair) : c = <<p>>
      BY <2>7
  <2>9. PICK d \in Seq(AnyPair) : d = DeletedPairs(b, name)
      BY FilteredType DEF DeletedPairs
  <2>10. PICK e \in Seq(AnyPair) : e = a \o c
      BY ConcatProperties
  <2>11. PICK f \in Seq(AnyPair) : f = e \o d
      BY ConcatProperties
  <2>12. SetPair(pairs, name, value) = f
    <3>1. SetPair(pairs, name, value) = SubSeq(pairs, 1, i - 1) \o <<<<name, value>>>> \o DeletedPairs(SubSeq(pairs, i + 1, Len(pairs)), name)
        BY <1>4, <2>5, Zenon DEF SetPair
    <3> QED BY <1>1, <2>6, <2>8, <2>9, <2>10, <2>11, <3>1, Zenon
  <2> QED BY <2>12
<1>5. SetPair(pairs, name, value) \in Seq(AnyPair)
  <2>1. CASE PairsNamed(pairs, name) = {}
      BY <1>1, <1>2, <2>1 DEF SetPair
  <2> QED BY <1>4, <2>1
<1> QED BY <1>1, <1>2, <1>3, <1>5

LEMMA SortedTyped ==
    ASSUME NEW pairs \in Seq(AnyPair), NEW names \in Seq(Texts)
    PROVE  SortedPairs(pairs, names) \in Seq(AnyPair)
<1>1. Len(names) \in Nat /\ DOMAIN names = 1..Len(names)
    BY LenProperties
<1>2. \A k \in 1..Len(names) : Filtered(pairs, PairsNamed(pairs, names[k])) \in Seq(AnyPair)
    BY FilteredType
<1>3. [k \in 1..Len(names) |-> Filtered(pairs, PairsNamed(pairs, names[k]))] \in Seq(Seq(AnyPair))
    BY <1>1, <1>2, IsASeq
<1>4. PICK q \in Seq(Seq(AnyPair)) : q = [k \in 1..Len(names) |-> Filtered(pairs, PairsNamed(pairs, names[k]))]
    BY <1>3
<1>5. SortedPairs(pairs, names) = FlattenSeq(q)
    BY <1>1, <1>4 DEF SortedPairs
<1> QED BY <1>5, FlattenType

(* A query that decodes is a list of pairs.                                *)
PlainPart(part) == part \in Seq(QueryChars) /\ \A i \in 1..Len(part) : part[i] # "&" /\ part[i] # "%"

LEMMA PlainParts ==
    ASSUME NEW part, PlainPart(part), NEW a \in Int, NEW b \in Int, 1 <= a, b <= Len(part)
    PROVE  PlainPart(SubSeq(part, a, b))
<1>1. part \in Seq(QueryChars) /\ Len(part) \in Nat /\ \A i \in 1..Len(part) : part[i] # "&" /\ part[i] # "%"
    BY LenProperties DEF PlainPart
<1>2. \A i \in a..b : part[i] \in QueryChars /\ part[i] # "&" /\ part[i] # "%"
  <2> TAKE i \in a..b
  <2>1. i \in 1..Len(part)
      BY <1>1
  <2> QED BY <1>1, <2>1, ElementOfSeq
<1>3. /\ SubSeq(part, a, b) \in Seq(QueryChars)
      /\ Len(SubSeq(part, a, b)) = IF a <= b THEN b - a + 1 ELSE 0
      /\ \A i \in 1..(b - a + 1) : SubSeq(part, a, b)[i] = part[a + i - 1]
    BY <1>2, SubSeqProperties
<1>4. PICK s \in Seq(QueryChars) : /\ s = SubSeq(part, a, b) /\ Len(s) = IF a <= b THEN b - a + 1 ELSE 0
                               /\ \A i \in 1..(b - a + 1) : s[i] = part[a + i - 1]
    BY <1>3
<1>5. ASSUME NEW i \in 1..Len(s) PROVE s[i] # "&" /\ s[i] # "%"
  <2>1. a <= b /\ i \in 1..(b - a + 1)
      BY <1>4
  <2>2. a + i - 1 \in a..b
      BY <2>1
  <2> QED BY <1>2, <1>4, <2>1, <2>2
<1> QED BY <1>4, <1>5 DEF PlainPart

LEMMA PairTyped ==
    ASSUME NEW part, PlainPart(part)
    PROVE  PairOf(part) \in AnyPair
<1>1. Len(part) \in Nat /\ DOMAIN part = 1..Len(part)
    BY LenProperties DEF PlainPart
<1>2. \A s : PlainPart(s) => Decoded(s) \in Texts
    BY DecodedType DEF PlainPart
<1>3. <<>> \in Texts
  <2>1. <<>> \in Seq(AnyChar)
      OBVIOUS
  <2> QED BY <2>1, CharsAre
<1>4. CASE Equals(part) = {}
    BY <1>2, <1>3, <1>4 DEF PairOf, AnyPair
<1>5. CASE Equals(part) # {}
  <2>1. Equals(part) \subseteq 1..Len(part)
      BY <1>1 DEF Equals
  <2>2. PICK T : T = Equals(part)
      OBVIOUS
  <2>3. T \subseteq Nat /\ T # {}
      BY <1>1, <1>5, <2>1, <2>2
  <2>4. Min(T) \in T
      BY <2>3, MinIs
  <2>5. PICK eq \in 1..Len(part) : eq = Min(Equals(part))
      BY <2>1, <2>2, <2>4
  <2>6. PlainPart(SubSeq(part, 1, eq - 1))
    <3>1. 1 \in Int /\ eq - 1 \in Int /\ 1 <= 1 /\ eq - 1 <= Len(part)
        BY <1>1
    <3> QED BY <3>1, PlainParts
  <2>7. PlainPart(SubSeq(part, eq + 1, Len(part)))
    <3>1. eq + 1 \in Int /\ Len(part) \in Int /\ 1 <= eq + 1 /\ Len(part) <= Len(part)
        BY <1>1
    <3> QED BY <3>1, PlainParts
  <2>8. PairOf(part) = <<Decoded(SubSeq(part, 1, eq - 1)), Decoded(SubSeq(part, eq + 1, Len(part)))>>
      BY <1>5, <2>5 DEF PairOf
  <2> QED BY <1>2, <2>6, <2>7, <2>8 DEF AnyPair
<1> QED BY <1>4, <1>5

LEMMA ParsedTyped ==
    ASSUME NEW q \in Seq(QueryChars), ~Malformed(q)
    PROVE  Parsed(q) \in Seq(AnyPair)
<1>1. Len(q) \in Nat /\ DOMAIN q = 1..Len(q)
    BY LenProperties
<1>2. \A i \in 1..Len(q) : q[i] # "%"
    BY <1>1 DEF Malformed, ToSet
<1>3. ASSUME NEW i \in 1..Len(q), Starts(q, i) PROVE PlainPart(PartAt(q, i))
  <2>1. PICK m \in (i + 1)..(Len(q) + 1) : /\ m = Min(Cuts(q, i)) /\ m \in Cuts(q, i)
                                         /\ \A k \in Cuts(q, i) : m <= k
      BY CutsAre
  <2>2. \A j \in i..(m - 1) : q[j] \in QueryChars /\ q[j] # "&" /\ q[j] # "%"
    <3> TAKE j \in i..(m - 1)
    <3>1. j \in 1..Len(q) /\ j < m
        BY <1>1
    <3>2. q[j] # "&"
      <4>1. CASE j = i
          BY <1>3, <4>1 DEF Starts
      <4>2. CASE j # i
        <5>1. j \in (i + 1)..(Len(q) + 1)
            BY <1>1, <3>1, <4>2
        <5>2. j \notin Cuts(q, i)
            BY <2>1, <3>1
        <5> QED BY <5>1, <5>2 DEF Cuts
      <4> QED BY <4>1, <4>2
    <3> QED BY <1>2, <3>1, <3>2, ElementOfSeq
  <2>3. PICK a \in Int, b \in Int : a = i /\ b = m - 1 /\ a <= b
      BY <1>1
  <2>4. /\ SubSeq(q, a, b) \in Seq(QueryChars)
        /\ Len(SubSeq(q, a, b)) = IF a <= b THEN b - a + 1 ELSE 0
        /\ \A j \in 1..(b - a + 1) : SubSeq(q, a, b)[j] = q[a + j - 1]
    <3>1. PICK S : S = QueryChars
        OBVIOUS
    <3>2. \A j \in a..b : q[j] \in S
        BY <2>2, <2>3, <3>1
    <3>3. /\ SubSeq(q, a, b) \in Seq(S) /\ Len(SubSeq(q, a, b)) = IF a <= b THEN b - a + 1 ELSE 0
          /\ \A j \in 1..(b - a + 1) : SubSeq(q, a, b)[j] = q[a + j - 1]
        BY <3>2, SubSeqProperties
    <3> QED BY <3>1, <3>3
  <2>5. PICK s \in Seq(QueryChars) : /\ s = SubSeq(q, a, b) /\ Len(s) = IF a <= b THEN b - a + 1 ELSE 0
                                 /\ \A j \in 1..(b - a + 1) : s[j] = q[a + j - 1]
      BY <2>4
  <2>6. ASSUME NEW j \in 1..Len(s) PROVE s[j] # "&" /\ s[j] # "%"
    <3>1. j \in 1..(b - a + 1)
        BY <2>3, <2>5
    <3>2. a + j - 1 \in i..(m - 1)
        BY <2>3, <3>1
    <3> QED BY <2>2, <2>5, <3>1, <3>2
  <2>7. PartAt(q, i) = s
      BY <2>1, <2>3, <2>5 DEF PartAt
  <2> QED BY <2>6, <2>7 DEF PlainPart
<1>4. \A i \in 1..Len(q) : PieceAt(q, i) \in Seq(AnyPair)
  <2> TAKE i \in 1..Len(q)
  <2>1. CASE Starts(q, i)
    <3>1. PICK p \in AnyPair : p = PairOf(PartAt(q, i))
        BY <1>3, <2>1, PairTyped
    <3>2. <<p>> \in Seq(AnyPair)
        OBVIOUS
    <3> QED BY <2>1, <3>1, <3>2 DEF PieceAt
  <2>2. CASE ~Starts(q, i)
      BY <2>2 DEF PieceAt
  <2> QED BY <2>1, <2>2
<1>5. [i \in 1..Len(q) |-> PieceAt(q, i)] \in Seq(Seq(AnyPair))
    BY <1>1, <1>4, IsASeq
<1>6. PiecesOf(q) \in Seq(Seq(AnyPair))
    BY <1>5 DEF PiecesOf
<1> QED BY <1>6, ParsedIs, FlattenType
=============================================================================
