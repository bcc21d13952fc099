-------------------------- MODULE StreamPipe_proofs --------------------------
(***************************************************************************)
(* Chunks through a TransformStream, for any number of chunks and reads,   *)
(* any sizes and any high-water mark: the consumer gets what was made, in  *)
(* order and whole, and a source is pulled when and only when it should.   *)
(***************************************************************************)
EXTENDS StreamPipe, WebValues_proofs

(* The pulls of a source that has a pull().                                 *)
PullOK(s) ==
    s.pulls =>
        /\ Pullable(s) /\ WantsMore(s) => s.pull # "idle"
        /\ s.pull \in {"called", "running"} => s.started /\ (CanEnqueue(s) => WantsMore(s))
        /\ s.pull = "acted" /\ Pullable(s) /\ WantsMore(s) => s.again
SpaceOK(s) ==
    /\ Len(s.queue) <= s.size
    /\ s.pulls => Len(s.queue) <= IF HighWaterMark > 0 THEN HighWaterMark ELSE 1

SinkOK ==
    /\ sink \in WritableType(Chunk)
    /\ sink.before <= Len(sink.queue)
    /\ sink.before > 0 => sink.close = "called"
    /\ sink.running => sink.queue # <<>>
    /\ sink.start = "failed" => broken # {}

(* The pipe holds one answer, or waits for one, while it reads.             *)
ReaderOK ==
    /\ src.reads + Len(src.got) = IF pipe = "reading" THEN 1 ELSE 0
    /\ src.state = "closed" => src.closing
    /\ src.closing => Piped /\ promised = sent

(* Through a pipe chunks come one at a time, and none is left out as long   *)
(* as nothing went wrong: n of them are through, one may be in hand, and m  *)
(* were made.                                                               *)
Numbered(g) == \A i \in DOMAIN g : g[i] \in Chunk => g[i] = i
Behind(q, n) == \A i \in DOMAIN q : q[i] = n + i
Has(g) == g # <<>> /\ Head(g) \in Chunk
InHand(g, w) == IF Has(g) THEN 1 ELSE Len(w)
Flow(g, q, state, w, n, m) ==
    /\ Behind(w, n) /\ (Has(g) => Head(g) = n + 1)
    /\ Behind(q, n + InHand(g, w))
    /\ state # "errored" => n + InHand(g, w) + Len(q) = m
Passed(s) == Len(s.got) + Len(s.queue)
Through == Passed(out)
Flowing ==
    /\ CanEnqueue(out)
    /\ \/ pipe \in {"ready", "reading"}
       \/ pipe = "writing" /\ (sink.queue # <<>> \/ sink.last = "done")
FrontOf(s) == Numbered(s.got) /\ Behind(s.queue, Len(s.got))
WriteOK ==
    /\ sink.queue # <<>> => pipe = "writing" /\ Len(sink.queue) = 1
    /\ sink.close # "none" => pipe \in {"closing", "done", "failed"} /\ src.state = "closed"
FlowOK == Flowing => Flow(src.got, src.queue, src.state, sink.queue, Through, sent)
PipedOK == Piped => FrontOf(out) /\ WriteOK /\ FlowOK

(* A script's writes are under way in the order it made them: g answered,   *)
(* q enqueued, w waiting, and none after m.                                 *)
Ascends(g) == \A i, j \in DOMAIN g : i < j /\ g[j] \in Chunk => g[i] < g[j]
Increasing(q) == \A i, j \in DOMAIN q : i < j => q[i] < q[j]
Before(p, q) == \A i \in DOMAIN p, j \in DOMAIN q : p[i] < q[j]
UpTo(q, m) == \A i \in DOMAIN q : q[i] <= m
Line(g, q, w, m) ==
    /\ Ascends(g) /\ Increasing(q) /\ Increasing(w)
    /\ Before(g, q) /\ Before(g, w) /\ Before(q, w)
    /\ UpTo(g, m) /\ UpTo(q, m) /\ UpTo(w, m)
ScriptOK == ~Piped => Line(out.got, out.queue, sink.queue, sent)

(* Unless something broke the stream, what was made before the end was      *)
(* asked for is on its way, and the end is behind it.                       *)
ArrivedOf(s) == ToSet(s.got) \cup ToSet(s.queue)
First(w, k) == {w[i] : i \in 1..k}
WritesCovered == ~Piped /\ sink.close = "none" => 1..sent \subseteq ArrivedOf(out) \cup ToSet(sink.queue)
EndCovered == sink.close # "none" => 1..promised \subseteq ArrivedOf(out) \cup First(sink.queue, sink.before)
EndInTurn == out.closing \/ out.state = "closed" => sink.close = "done"
CoverOK == broken = {} /\ out.state # "errored" => WritesCovered /\ EndCovered /\ EndInTurn

Shape ==
    /\ pipe \in {"none", "ready", "reading", "writing", "closing", "done", "failed"}
    /\ prevent \subseteq {"abort", "close"}
    /\ sent \in 0..NumChunks /\ promised \in 0..sent
    /\ broken \subseteq {"cancel", "terminate", "transform"}

Basics == StreamOK(src, Chunk) /\ StreamOK(out, Chunk) /\ SinkOK /\ ReaderOK /\ Shape
IInv == Basics /\ PipedOK /\ ScriptOK /\ CoverOK

-----------------------------------------------------------------------------
(* The pulls of a source, under the bound of its queue.                     *)

(* What controllerPull makes of a stream that has become t.                 *)
PulledFrom(s, t) ==
    /\ t.pull = IF Pullable(t) /\ WantsMore(t) /\ s.pull = "idle" /\ s.pulls THEN "called" ELSE s.pull
    /\ t.again = (s.again \/ (Pullable(t) /\ WantsMore(t) /\ s.pull # "idle"))

LEMMA PullRule ==
    ASSUME NEW s, NEW t, t.pulls = s.pulls, PulledFrom(s, t),
           s.pulls /\ s.pull \in {"called", "running"} => t.started /\ (CanEnqueue(t) => WantsMore(t))
    PROVE  PullOK(t)
<1> SUFFICES ASSUME s.pulls PROVE PullOK(t)
    BY DEF PullOK
<1>1. Pullable(t) /\ WantsMore(t) => t.pull # "idle"
    BY DEF PulledFrom
<1>2. t.pull \in {"called", "running"} => t.started /\ (CanEnqueue(t) => WantsMore(t))
    BY DEF PulledFrom, Pullable
<1>3. t.pull = "acted" /\ Pullable(t) /\ WantsMore(t) => t.again
    BY DEF PulledFrom
<1> QED BY <1>1, <1>2, <1>3 DEF PullOK

(* A step that changes neither the queue nor the pulls.                     *)
LEMMA PullUnmoved ==
    ASSUME NEW s, NEW t, SamePull(t, s), PullOK(s), SpaceOK(s),
           t.state = s.state, t.closing = s.closing, t.queue = s.queue, t.size = s.size
    PROVE  PullOK(t) /\ SpaceOK(t)
  BY DEF PullOK, SpaceOK, SamePull, CanEnqueue, Pullable, WantsMore

(* An empty queue takes no space.                                           *)
LEMMA NoSpace ==
    ASSUME NEW C, NEW s \in ReadableType(C), s.queue = <<>>
    PROVE  SpaceOK(s)
<1>1. Len(s.queue) = 0 /\ s.size \in Nat /\ HighWaterMark \in Nat
    BY StrategyAssumption DEF ReadableType
<1> QED BY <1>1 DEF SpaceOK

LEMMA PullStarts ==
    ASSUME NEW C, NEW s \in ReadableType(C), PullOK(s), SpaceOK(s), ~s.started
    PROVE  Started(s) \in ReadableType(C) /\ PullOK(Started(s)) /\ SpaceOK(Started(s))
<1>1. PICK u : u = [s EXCEPT !.started = TRUE]
    OBVIOUS
<1>2. /\ u \in ReadableType(C) /\ u.pulls = s.pulls /\ u.pull = s.pull /\ u.again = s.again
      /\ u.queue = s.queue /\ u.size = s.size
    BY <1>1 DEF ReadableType
<1>3. PICK t \in ReadableType(C) : t = Pulled(u)
    BY <1>2, PulledKeeps
<1>4. /\ Alike(t, u)
      /\ t.pull = IF Pullable(u) /\ WantsMore(u) /\ u.pull = "idle" /\ u.pulls
                  THEN "called" ELSE u.pull
      /\ t.again = (u.again \/ (Pullable(u) /\ WantsMore(u) /\ u.pull # "idle"))
    BY <1>2, <1>3, PulledKeeps
<1>5. (Pullable(t) <=> Pullable(u)) /\ (WantsMore(t) <=> WantsMore(u))
    BY <1>4 DEF Alike, Pullable, WantsMore
<1>6. PulledFrom(s, t) /\ t.pulls = s.pulls
    BY <1>2, <1>4, <1>5 DEF PulledFrom, Alike
<1>7. s.pulls => s.pull \notin {"called", "running"}
    BY DEF PullOK
<1>8. PullOK(t)
    BY <1>6, <1>7, PullRule
<1>9. SpaceOK(t)
    BY <1>2, <1>4 DEF Alike, SpaceOK
<1> QED BY <1>1, <1>3, <1>8, <1>9 DEF Started

LEMMA PullIsMade ==
    ASSUME NEW C, NEW s \in ReadableType(C), PullOK(s), SpaceOK(s), s.pull = "called"
    PROVE  LET t == PullCalled(s) IN t \in ReadableType(C) /\ PullOK(t) /\ SpaceOK(t)
<1>1. PICK t : t = [s EXCEPT !.pull = "running"]
    OBVIOUS
<1>2. /\ t \in ReadableType(C) /\ t.state = s.state /\ t.queue = s.queue /\ t.size = s.size
      /\ t.closing = s.closing /\ t.started = s.started /\ t.pulls = s.pulls /\ t.pull = "running"
    BY <1>1 DEF ReadableType
<1>3. PullOK(t) /\ SpaceOK(t)
    BY <1>2 DEF PullOK, SpaceOK, Pullable, CanEnqueue, WantsMore
<1> QED BY <1>1, <1>2, <1>3 DEF PullCalled

LEMMA PullIsOver ==
    ASSUME NEW C, NEW s \in ReadableType(C), PullOK(s), SpaceOK(s), s.pull = "acted"
    PROVE  LET t == PullEnded(s) IN t \in ReadableType(C) /\ PullOK(t) /\ SpaceOK(t)
<1>1. PICK u : u = [s EXCEPT !.pull = "idle", !.again = FALSE]
    OBVIOUS
<1>2. /\ u \in ReadableType(C) /\ u.state = s.state /\ u.queue = s.queue /\ u.size = s.size
      /\ u.closing = s.closing /\ u.started = s.started /\ u.pulls = s.pulls /\ u.pull = "idle"
      /\ u.again = FALSE
    BY <1>1 DEF ReadableType
<1>3. CASE ~s.again
  <2>1. PullEnded(s) = u
      BY <1>1, <1>3 DEF PullEnded
  <2>2. PullOK(u) /\ SpaceOK(u)
      BY <1>2, <1>3 DEF PullOK, SpaceOK, Pullable, CanEnqueue, WantsMore
  <2> QED BY <1>2, <2>1, <2>2
<1>4. CASE s.again
  <2>1. PICK t \in ReadableType(C) : t = Pulled(u)
      BY <1>2, PulledKeeps
  <2>2. /\ Alike(t, u)
        /\ t.pull = IF Pullable(u) /\ WantsMore(u) /\ u.pull = "idle" /\ u.pulls
                    THEN "called" ELSE u.pull
        /\ t.again = (u.again \/ (Pullable(u) /\ WantsMore(u) /\ u.pull # "idle"))
      BY <1>2, <2>1, PulledKeeps
  <2>3. (Pullable(t) <=> Pullable(u)) /\ (WantsMore(t) <=> WantsMore(u))
      BY <2>2 DEF Alike, Pullable, WantsMore
  <2>4. PulledFrom(u, t) /\ t.pulls = u.pulls
      BY <2>2, <2>3 DEF PulledFrom, Alike
  <2>5. PullOK(t)
      BY <1>2, <2>4, PullRule
  <2>6. SpaceOK(t)
      BY <1>2, <2>2 DEF Alike, SpaceOK
  <2>7. PullEnded(s) = t
      BY <1>1, <1>4, <2>1 DEF PullEnded
  <2> QED BY <2>1, <2>5, <2>6, <2>7
<1> QED BY <1>3, <1>4

(* A pull that acts is "acted" from then on.                                *)
LEMMA ActedIs ==
    ASSUME NEW C, NEW s \in ReadableType(C), s.pulls => s.pull = "running"
    PROVE  LET t == Acted(s)
           IN  /\ t \in ReadableType(C) /\ Alike(t, s) /\ t.again = s.again
               /\ t.pull = IF s.pulls THEN "acted" ELSE s.pull
<1>1. CASE s.pulls
  <2>1. PICK t : t = [s EXCEPT !.pull = "acted"]
      OBVIOUS
  <2>2. t \in ReadableType(C) /\ Alike(t, s) /\ t.again = s.again /\ t.pull = "acted"
      BY <2>1 DEF ReadableType, Alike
  <2> QED BY <1>1, <2>1, <2>2 DEF Acted
<1>2. CASE ~s.pulls
    BY <1>2 DEF Acted, Alike
<1> QED BY <1>1, <1>2

LEMMA PullEnqueues ==
    ASSUME NEW C, NEW s \in ReadableType(C), NEW c \in C, SizeOf[c] \in Nat, SizeOf[c] > 0,
           PullOK(s), SpaceOK(s), CanEnqueue(s), s.pulls => s.pull = "running"
    PROVE  LET t == Enqueued(Acted(s), c) IN t \in ReadableType(C) /\ PullOK(t) /\ SpaceOK(t)
<1>1. PICK u : u = Acted(s)
    OBVIOUS
<1>2. /\ u \in ReadableType(C) /\ Alike(u, s) /\ u.again = s.again
      /\ u.pull = IF s.pulls THEN "acted" ELSE s.pull
    BY <1>1, ActedIs
<1>3. PICK t : t = Enqueued(u, c)
    OBVIOUS
<1>4. /\ t \in ReadableType(C) /\ t.pulls = u.pulls
      /\ u.reads > 0 => t.queue = u.queue /\ t.size = u.size
      /\ u.reads = 0 => t.queue = Append(u.queue, c) /\ t.size = u.size + SizeOf[c]
      /\ t.pull = IF Pullable(t) /\ WantsMore(t) /\ u.pull = "idle" /\ u.pulls
                  THEN "called" ELSE u.pull
      /\ t.again = (u.again \/ (Pullable(t) /\ WantsMore(t) /\ u.pull # "idle"))
    BY <1>2, <1>3, EnqueuedIs
<1>5. PullOK(t)
    BY <1>2, <1>4, PullRule DEF PulledFrom, Alike
<1>6. SpaceOK(t)
  <2>1. CASE u.reads > 0
      BY <1>2, <1>4, <2>1 DEF SpaceOK, Alike
  <2>2. CASE u.reads = 0
    <3>1. s.queue \in Seq(C) /\ s.size \in Nat /\ HighWaterMark \in Nat
        BY StrategyAssumption DEF ReadableType
    <3>2. t.queue = Append(s.queue, c) /\ t.size = s.size + SizeOf[c] /\ t.pulls = s.pulls
        BY <1>2, <1>4, <2>2 DEF Alike
    <3>3. Len(t.queue) = Len(s.queue) + 1 /\ Len(s.queue) \in Nat
        BY <3>1, <3>2
    <3>4. Len(s.queue) <= s.size
        BY DEF SpaceOK
    <3>5. Len(t.queue) <= t.size
        BY <3>1, <3>2, <3>3, <3>4
    <3>6. ASSUME s.pulls PROVE Len(t.queue) <= IF HighWaterMark > 0 THEN HighWaterMark ELSE 1
      <4>1. WantsMore(s)
          BY <3>6 DEF PullOK
      <4>2. CASE s.queue = <<>>
        <5>1. Len(t.queue) = 1
            BY <3>1, <3>3, <4>2
        <5> QED BY <3>1, <5>1
      <4>3. CASE HighWaterMark - s.size > 0
          BY <3>1, <3>3, <3>4, <4>3
      <4> QED BY <4>1, <4>2, <4>3 DEF WantsMore
    <3> QED BY <3>2, <3>5, <3>6 DEF SpaceOK
  <2> QED BY <1>2, <2>1, <2>2 DEF ReadableType
<1> QED BY <1>1, <1>3, <1>4, <1>5, <1>6

LEMMA PullCloses ==
    ASSUME NEW C, NEW s \in ReadableType(C), PullOK(s), SpaceOK(s), CanEnqueue(s),
           s.pulls => s.pull = "running"
    PROVE  LET t == CloseRequested(Acted(s)) IN t \in ReadableType(C) /\ PullOK(t) /\ SpaceOK(t)
<1>1. PICK u : u = Acted(s)
    OBVIOUS
<1>2. /\ u \in ReadableType(C) /\ Alike(u, s)
      /\ u.pull = IF s.pulls THEN "acted" ELSE s.pull
    BY <1>1, ActedIs
<1>3. PICK t : t = CloseRequested(u)
    OBVIOUS
<1>4. t \in ReadableType(C) /\ t.closing /\ t.queue = u.queue /\ t.size = u.size /\ SamePull(t, u)
    BY <1>2, <1>3, CloseRequestedIs DEF Alike, CanEnqueue
<1>5. PullOK(t)
    BY <1>2, <1>4 DEF PullOK, SamePull, Alike, Pullable
<1>6. SpaceOK(t)
    BY <1>2, <1>4 DEF SpaceOK, SamePull, Alike
<1> QED BY <1>1, <1>3, <1>4, <1>5, <1>6

LEMMA PullFails ==
    ASSUME NEW C, NEW s \in ReadableType(C), s.state = "readable", s.pulls => s.pull = "running"
    PROVE  LET t == ReadableErrored(Acted(s)) IN t \in ReadableType(C) /\ PullOK(t) /\ SpaceOK(t)
<1>1. PICK u : u = Acted(s)
    OBVIOUS
<1>2. /\ u \in ReadableType(C) /\ Alike(u, s)
      /\ u.pull = IF s.pulls THEN "acted" ELSE s.pull
    BY <1>1, ActedIs
<1>3. PICK t : t = ReadableErrored(u)
    OBVIOUS
<1>4. t \in ReadableType(C) /\ t.state = "errored" /\ t.queue = <<>> /\ SamePull(t, u)
    BY <1>2, <1>3, ErroredIs DEF Alike
<1>5. PullOK(t)
    BY <1>2, <1>4 DEF PullOK, SamePull, Alike, Pullable
<1> QED BY <1>1, <1>3, <1>4, <1>5, NoSpace

(* A read makes room, or shows that the reader waits.                       *)
LEMMA PullAtRead ==
    ASSUME NEW C, NEW s \in ReadableType(C), PullOK(s), SpaceOK(s)
    PROVE  LET t == ReadMade(s) IN t \in ReadableType(C) /\ PullOK(t) /\ SpaceOK(t)
<1>1. PICK t : t = ReadMade(s)
    OBVIOUS
<1>2. /\ t \in ReadableType(C) /\ t.closing = s.closing /\ t.started = s.started /\ t.pulls = s.pulls
      /\ s.queue # <<>> =>
             /\ t.queue = Tail(s.queue)
             /\ t.size = IF s.size > 0 THEN s.size - 1 ELSE 0
      /\ s.queue = <<>> => t.queue = <<>> /\ t.size = s.size
      /\ \/ SamePull(t, s) /\ ~Pullable(t)
         \/ PulledFrom(s, t)
    BY <1>1, ReadMadeIs DEF PulledFrom
<1>3. t.state = "readable" => s.state = "readable"
    BY <1>1, ReadMadeIs
<1>4. s.queue \in Seq(C) /\ s.size \in Nat /\ HighWaterMark \in Nat
    BY StrategyAssumption DEF ReadableType
<1>5. WantsMore(s) => WantsMore(t)
  <2>1. CASE s.queue = <<>>
      BY <1>2, <2>1 DEF WantsMore
  <2>2. CASE s.queue # <<>>
      BY <1>2, <1>4, <2>2 DEF WantsMore
  <2> QED BY <2>1, <2>2
<1>6. PullOK(t)
  <2>1. CanEnqueue(t) => CanEnqueue(s)
      BY <1>2, <1>3 DEF CanEnqueue
  <2>2. s.pulls /\ s.pull \in {"called", "running"} =>
            t.started /\ (CanEnqueue(t) => WantsMore(t))
      BY <1>2, <1>5, <2>1 DEF PullOK
  <2>3. CASE PulledFrom(s, t)
      BY <1>2, <2>2, <2>3, PullRule
  <2>4. CASE SamePull(t, s) /\ ~Pullable(t)
      BY <2>2, <2>4 DEF PullOK, SamePull
  <2> QED BY <1>2, <2>3, <2>4
<1>7. SpaceOK(t)
  <2>1. CASE s.queue = <<>>
      BY <1>2, <2>1, NoSpace
  <2>2. CASE s.queue # <<>>
    <3>0. t.queue = Tail(s.queue)
        BY <1>2, <2>2
    <3>1. Len(t.queue) = Len(s.queue) - 1 /\ Len(s.queue) \in Nat /\ Len(s.queue) > 0
        BY <1>4, <2>2, <3>0
    <3> QED BY <1>2, <1>4, <2>2, <3>1 DEF SpaceOK
  <2> QED BY <2>1, <2>2
<1> QED BY <1>1, <1>2, <1>6, <1>7

(* releaseLock() and the reaction to an answer.                             *)
LEMMA PullAtRelease ==
    ASSUME NEW C, NEW s \in ReadableType(C), PullOK(s), SpaceOK(s)
    PROVE  LET t == Released(s) IN t \in ReadableType(C) /\ PullOK(t) /\ SpaceOK(t)
<1>1. PICK t : t = Answered(s, Failed)
    OBVIOUS
<1>2. /\ t \in ReadableType(C)
      /\ \A f \in {"state", "queue", "size", "closing", "started", "pulls", "pull", "again"} :
             t[f] = s[f]
    BY <1>1, AnsweredKeeps
<1>3. SamePull(t, s)
    BY <1>2 DEF SamePull
<1> QED BY <1>1, <1>2, <1>3, PullUnmoved DEF Released

PullInv == src \in ReadableType(Chunk) /\ PullOK(src) /\ SpaceOK(src) /\ sent \in 0..NumChunks

ChunksTakeSpace == \A c \in Chunk : SizeOf[c] > 0

LEMMA ChunkSizes == \A c \in Chunk : SizeOf[c] \in Nat
  BY PipeAssumption, StrategyAssumption DEF Chunk

LEMMA ChunkIsSet == ChunkSet(Chunk)
  BY ChunkSizes, PipeAssumption DEF ChunkSet, Chunk

LEMMA PullInit == Init => PullInv
<1> SUFFICES ASSUME Init PROVE PullInv
    OBVIOUS
<1>1. PICK pulls \in BOOLEAN : src = NewReadable(pulls, FALSE)
    BY DEF Init
<1>2. <<>> \in Seq(Chunk) /\ <<>> \in Seq(Chunk \cup {End, Failed})
    BY EmptySeq
<1>3. NewReadable(pulls, FALSE) \in ReadableType(Chunk)
    BY <1>2 DEF NewReadable, ReadableType
<1>4. src.pull = "idle" /\ src.started = FALSE /\ src.queue = <<>>
    BY <1>1 DEF NewReadable
<1>5. PullOK(src)
    BY <1>4 DEF PullOK, Pullable
<1>6. sent \in 0..NumChunks
    BY PipeAssumption DEF Init
<1> QED BY <1>1, <1>3, <1>4, <1>5, <1>6, NoSpace DEF PullInv

(* A step that leaves the source's stream alone.                            *)
LEMMA PullElsewhere == PullInv /\ src' = src /\ sent' \in 0..NumChunks => PullInv'
  BY DEF PullInv, PullOK, SpaceOK, Pullable, WantsMore, CanEnqueue

LEMMA PullNext ==
    ASSUME ChunksTakeSpace, PullInv, [Next]_vars
    PROVE  PullInv'
<1> USE DEF PullInv
<1>0. PICK s \in ReadableType(Chunk) : s = src
    OBVIOUS
<1>1. PullOK(s) /\ SpaceOK(s)
    BY <1>0
<1>2. ASSUME NEW t \in ReadableType(Chunk), src' = t, PullOK(t), SpaceOK(t), sent' \in 0..NumChunks
      PROVE  PullInv'
    BY <1>2 DEF PullOK, SpaceOK, Pullable, WantsMore, CanEnqueue
<1>3. CASE SourceStarts
  <2>1. PICK t : t = Started(s)
      OBVIOUS
  <2>2. t \in ReadableType(Chunk) /\ PullOK(t) /\ SpaceOK(t)
      BY <1>0, <1>1, <1>3, <2>1, PullStarts DEF SourceStarts
  <2> QED BY <1>0, <1>2, <1>3, <2>1, <2>2 DEF SourceStarts
<1>4. CASE PullIsCalled
  <2>1. PICK t : t = PullCalled(s)
      OBVIOUS
  <2>2. t \in ReadableType(Chunk) /\ PullOK(t) /\ SpaceOK(t)
      BY <1>0, <1>1, <1>4, <2>1, PullIsMade DEF PullIsCalled
  <2> QED BY <1>0, <1>2, <1>4, <2>1, <2>2 DEF PullIsCalled
<1>5. CASE SourceEnqueues
  <2>1. PICK c : c = sent + 1
      OBVIOUS
  <2>2. c \in Chunk /\ sent' = c /\ sent' \in 0..NumChunks
      BY <1>5, <2>1, PipeAssumption DEF SourceEnqueues, Chunk
  <2>3. SizeOf[c] \in Nat /\ SizeOf[c] > 0
      BY <2>2, ChunkSizes DEF ChunksTakeSpace
  <2>4. CanEnqueue(s) /\ (s.pulls => s.pull = "running")
      BY <1>0, <1>5 DEF SourceEnqueues, SourceActs
  <2>5. PICK t : t = Enqueued(Acted(s), c)
      OBVIOUS
  <2>6. t \in ReadableType(Chunk) /\ PullOK(t) /\ SpaceOK(t)
      BY <1>1, <2>2, <2>3, <2>4, <2>5, PullEnqueues
  <2> QED BY <1>0, <1>2, <1>5, <2>2, <2>5, <2>6 DEF SourceEnqueues
<1>6. CASE SourceCloses
  <2>1. PICK t : t = CloseRequested(Acted(s))
      OBVIOUS
  <2>2. CanEnqueue(s) /\ (s.pulls => s.pull = "running")
      BY <1>0, <1>6 DEF SourceCloses, SourceActs
  <2>3. t \in ReadableType(Chunk) /\ PullOK(t) /\ SpaceOK(t)
      BY <1>1, <2>1, <2>2, PullCloses
  <2> QED BY <1>0, <1>2, <1>6, <2>1, <2>3 DEF SourceCloses
<1>7. CASE SourceFails
  <2>1. PICK t : t = ReadableErrored(Acted(s))
      OBVIOUS
  <2>2. s.state = "readable" /\ (s.pulls => s.pull = "running")
      BY <1>0, <1>7 DEF SourceFails, SourceActs
  <2>3. t \in ReadableType(Chunk) /\ PullOK(t) /\ SpaceOK(t)
      BY <1>1, <2>1, <2>2, PullFails
  <2> QED BY <1>0, <1>2, <1>7, <2>1, <2>3 DEF SourceFails
<1>8. CASE PullSettles
  <2>1. PICK t : t = PullEnded(s)
      OBVIOUS
  <2>2. t \in ReadableType(Chunk) /\ PullOK(t) /\ SpaceOK(t)
      BY <1>0, <1>1, <1>8, <2>1, PullIsOver DEF PullSettles
  <2> QED BY <1>0, <1>2, <1>8, <2>1, <2>2 DEF PullSettles
<1>9. ASSUME src' = Released(s), sent' = sent PROVE PullInv'
  <2>1. PICK t : t = Released(s)
      OBVIOUS
  <2>2. t \in ReadableType(Chunk) /\ PullOK(t) /\ SpaceOK(t)
      BY <1>1, <2>1, PullAtRelease
  <2> QED BY <1>2, <1>9, <2>1, <2>2
<1>10. CASE PipeReads
  <2>1. PICK t : t = ReadMade(s)
      OBVIOUS
  <2>2. t \in ReadableType(Chunk) /\ PullOK(t) /\ SpaceOK(t)
      BY <1>1, <2>1, PullAtRead
  <2>3. CASE src' = t
      BY <1>2, <1>10, <2>2, <2>3 DEF PipeReads
  <2>4. CASE src' = Released(s)
      BY <1>9, <1>10, <2>4 DEF PipeReads
  <2> QED BY <1>0, <1>10, <2>1, <2>3, <2>4 DEF PipeReads, PipeFails
<1>11. CASE PipeGets
  <2>1. PICK t : t = [s EXCEPT !.got = Tail(@)]
      OBVIOUS
  <2>2. s.got # <<>> /\ sent' = sent
      BY <1>0, <1>11 DEF PipeGets
  <2>3. /\ t \in ReadableType(Chunk) /\ SamePull(t, s)
        /\ t.state = s.state /\ t.queue = s.queue /\ t.size = s.size /\ t.closing = s.closing
      BY <2>1, <2>2, TakenIs
  <2>4. PullOK(t) /\ SpaceOK(t)
      BY <1>1, <2>3, PullUnmoved
  <2>5. CASE src' = t
      BY <1>2, <2>2, <2>3, <2>4, <2>5
  <2>6. CASE src' = Released(t)
    <3>1. PICK u : u = Released(t)
        OBVIOUS
    <3>2. u \in ReadableType(Chunk) /\ PullOK(u) /\ SpaceOK(u)
        BY <2>3, <2>4, <3>1, PullAtRelease
    <3> QED BY <1>2, <2>2, <2>6, <3>1, <3>2
  <2>7. src' = t \/ src' = Released(t)
      BY <1>0, <1>11, <2>1 DEF PipeGets, PipeFails
  <2> QED BY <2>5, <2>6, <2>7
<1>12. CASE PipeWritten
  <2>1. CASE src' = src
      BY <1>12, <2>1, PullElsewhere DEF PipeWritten
  <2>2. CASE src' = Released(s)
      BY <1>9, <1>12, <2>2 DEF PipeWritten
  <2> QED BY <1>0, <1>12, <2>1, <2>2 DEF PipeWritten, PipeFails
<1>13. CASE PipeClosed
  <2>1. CASE src' = src
      BY <1>13, <2>1, PullElsewhere DEF PipeClosed
  <2>2. CASE src' = Released(s)
      BY <1>9, <1>13, <2>2 DEF PipeClosed
  <2> QED BY <1>0, <1>13, <2>1, <2>2 DEF PipeClosed, PipeFails
<1>14. CASE Script
  <2>1. src' = src /\ sent' \in 0..NumChunks
      BY <1>14, PipeAssumption DEF Script, ScriptWrites, ScriptCloses, ScriptAborts
  <2> QED BY <2>1, PullElsewhere
<1>15. CASE Transform
  <2>1. src' = src /\ sent' = sent
      BY <1>15 DEF Transform, TransformStarts, CloseEnds, TransformBegins, TransformEnqueues,
                   TransformThrows, TransformEnds, CloseBegins
  <2> QED BY <2>1, PullElsewhere
<1>16. CASE Consumer
  <2>1. src' = src /\ sent' = sent
      BY <1>16 DEF Consumer, ConsumerReads, ConsumerCancels
  <2> QED BY <2>1, PullElsewhere
<1>17. CASE UNCHANGED vars
    BY <1>17, PullElsewhere DEF vars
<1> QED
    BY <1>3, <1>4, <1>5, <1>6, <1>7, <1>8, <1>10, <1>11, <1>12, <1>13, <1>14, <1>15, <1>16, <1>17
    DEF Next, Source, Pipe

(* However many chunks, of whatever sizes but none of size 0: a source with *)
(* a pull() is never asked for more than the high-water mark, or one chunk, *)
(* and as long as the stream wants more a pull is under way (controllerPull *)
(* and the reaction that clears _pulling).                                  *)
THEOREM PulledEnough ==
    ASSUME ChunksTakeSpace
    PROVE  Spec => []PulledAsNeeded
<1>1. PullInv => PulledAsNeeded
    BY DEF PullInv, PullOK, SpaceOK, PulledAsNeeded
<1>2. PullInv /\ [Next]_vars => PullInv'
    BY PullNext
<1> QED BY PullInit, <1>1, <1>2, PTL DEF Spec

-----------------------------------------------------------------------------
(* The writable side.                                                       *)

LEMMA WritableFields ==
    ASSUME NEW C, NEW w \in WritableType(C)
    PROVE  /\ w.state \in {"writable", "closed", "errored"} /\ w.start \in {"pending", "done", "failed"}
           /\ w.queue \in Seq(C) /\ w.running \in BOOLEAN /\ w.last \in {"none", "done", "failed"}
           /\ w.close \in {"none", "called", "running", "done", "failed"} /\ w.before \in Nat
  BY DEF WritableType

(* The same writes are under way, and the same close().                     *)
SameWrites(t, w) ==
    /\ t.queue = w.queue /\ t.running = w.running /\ t.last = w.last
    /\ t.before = w.before /\ t.close = w.close

LEMMA WritableErroredIs ==
    ASSUME NEW C, NEW w \in WritableType(C)
    PROVE  LET t == WritableErrored(w)
           IN  t \in WritableType(C) /\ SameWrites(t, w) /\ t.start = w.start
<1>1. CASE w.state = "writable"
  <2>1. PICK t : t = [w EXCEPT !.state = "errored"]
      OBVIOUS
  <2>2. t \in WritableType(C) /\ SameWrites(t, w) /\ t.start = w.start
      BY <2>1 DEF WritableType, SameWrites
  <2> QED BY <1>1, <2>1, <2>2 DEF WritableErrored
<1>2. CASE w.state # "writable"
    BY <1>2 DEF WritableErrored, SameWrites
<1> QED BY <1>1, <1>2

LEMMA SinkStartedIs ==
    ASSUME NEW C, NEW w \in WritableType(C), NEW ok \in BOOLEAN
    PROVE  LET t == SinkStarted(w, ok)
           IN  /\ t \in WritableType(C) /\ SameWrites(t, w)
               /\ t.start = IF ok THEN "done" ELSE "failed"
<1>1. CASE ok
  <2>1. PICK t : t = [w EXCEPT !.start = "done"]
      OBVIOUS
  <2>2. t \in WritableType(C) /\ SameWrites(t, w) /\ t.start = "done"
      BY <2>1 DEF WritableType, SameWrites
  <2> QED BY <1>1, <2>1, <2>2 DEF SinkStarted
<1>2. CASE ~ok
  <2>1. PICK u : u = WritableErrored(w)
      OBVIOUS
  <2>2. u \in WritableType(C) /\ SameWrites(u, w)
      BY <2>1, WritableErroredIs
  <2>3. PICK t : t = [u EXCEPT !.start = "failed"]
      OBVIOUS
  <2>4. t \in WritableType(C) /\ SameWrites(t, u) /\ t.start = "failed"
      BY <2>2, <2>3 DEF WritableType, SameWrites
  <2> QED BY <1>2, <2>1, <2>2, <2>3, <2>4 DEF SinkStarted, SameWrites
<1> QED BY <1>1, <1>2

LEMMA WrittenIs ==
    ASSUME NEW C, NEW w \in WritableType(C), NEW c \in C
    PROVE  LET t == Written(w, c)
           IN  /\ t \in WritableType(C) /\ t.queue = Append(w.queue, c) /\ t.running = w.running
               /\ t.last = w.last /\ t.before = w.before /\ t.close = w.close /\ t.start = w.start
<1>1. w.queue \in Seq(C)
    BY DEF WritableType
<1>2. Append(w.queue, c) \in Seq(C)
    BY <1>1
<1>3. PICK q \in Seq(C) : q = Append(w.queue, c)
    BY <1>2
<1>4. PICK t : t = [w EXCEPT !.queue = q]
    OBVIOUS
<1>5. /\ t \in WritableType(C) /\ t.queue = q /\ t.running = w.running
      /\ t.last = w.last /\ t.before = w.before /\ t.close = w.close /\ t.start = w.start
    BY <1>4 DEF WritableType
<1> QED BY <1>3, <1>4, <1>5 DEF Written

LEMMA SettledIs ==
    ASSUME NEW C, NEW w \in WritableType(C), NEW how \in {"done", "failed"}, w.queue # <<>>
    PROVE  LET t == WriteSettled(w, how)
           IN  /\ t \in WritableType(C) /\ t.queue = Tail(w.queue) /\ t.running = FALSE
               /\ t.last = how /\ t.before = (IF w.before > 0 THEN w.before - 1 ELSE 0)
               /\ t.close = w.close /\ t.start = w.start
<1>1. w.queue \in Seq(C) /\ w.before \in Nat
    BY DEF WritableType
<1>0. Tail(w.queue) \in Seq(C)
    BY <1>1
<1>2. PICK q \in Seq(C) : q = Tail(w.queue)
    BY <1>0
<1>3. PICK n \in Nat : n = IF w.before > 0 THEN w.before - 1 ELSE 0
    BY <1>1
<1>4. PICK u : u = [w EXCEPT !.queue = q, !.running = FALSE, !.last = how, !.before = n]
    OBVIOUS
<1>5. /\ u \in WritableType(C) /\ u.queue = q /\ u.running = FALSE /\ u.last = how
      /\ u.before = n /\ u.close = w.close /\ u.start = w.start
    BY <1>4 DEF WritableType
<1>6. u = [w EXCEPT !.queue = Tail(@), !.running = FALSE, !.last = how,
                    !.before = IF @ > 0 THEN @ - 1 ELSE 0]
    BY <1>2, <1>3, <1>4 DEF WritableType
<1>7. WriteSettled(w, how) = IF how = "done" THEN u ELSE WritableErrored(u)
    BY <1>6 DEF WriteSettled
<1>8. CASE how = "done"
    BY <1>2, <1>3, <1>5, <1>7, <1>8
<1>9. CASE how # "done"
  <2>1. PICK t : t = WritableErrored(u)
      OBVIOUS
  <2>2. t \in WritableType(C) /\ SameWrites(t, u) /\ t.start = u.start
      BY <1>5, <2>1, WritableErroredIs
  <2> QED BY <1>2, <1>3, <1>5, <1>7, <1>9, <2>1, <2>2 DEF SameWrites
<1> QED BY <1>8, <1>9

LEMMA CloseCalledIs ==
    ASSUME NEW C, NEW w \in WritableType(C)
    PROVE  LET t == CloseCalled(w)
           IN  /\ t \in WritableType(C) /\ t.queue = w.queue /\ t.running = w.running
               /\ t.last = w.last /\ t.before = Len(w.queue) /\ t.close = "called" /\ t.start = w.start
<1>1. w.queue \in Seq(C)
    BY DEF WritableType
<1>2. PICK n \in Nat : n = Len(w.queue)
    BY <1>1
<1>3. PICK t : t = [w EXCEPT !.close = "called", !.before = n]
    OBVIOUS
<1>4. /\ t \in WritableType(C) /\ t.queue = w.queue /\ t.running = w.running
      /\ t.last = w.last /\ t.before = n /\ t.close = "called" /\ t.start = w.start
    BY <1>3 DEF WritableType
<1> QED BY <1>2, <1>3, <1>4 DEF CloseCalled

LEMMA CloseSettledIs ==
    ASSUME NEW C, NEW w \in WritableType(C), NEW how \in {"done", "failed"}
    PROVE  LET t == CloseSettled(w, how)
           IN  /\ t \in WritableType(C) /\ t.queue = w.queue /\ t.running = w.running
               /\ t.last = w.last /\ t.before = w.before /\ t.close = how /\ t.start = w.start
<1>1. CASE how = "done"
  <2>1. PICK t : t = [w EXCEPT !.close = how, !.state = "closed"]
      OBVIOUS
  <2>2. /\ t \in WritableType(C) /\ t.queue = w.queue /\ t.running = w.running
        /\ t.last = w.last /\ t.before = w.before /\ t.close = how /\ t.start = w.start
      BY <2>1 DEF WritableType
  <2> QED BY <1>1, <2>1, <2>2 DEF CloseSettled
<1>2. CASE how # "done"
  <2>1. PICK u : u = WritableErrored(w)
      OBVIOUS
  <2>2. u \in WritableType(C) /\ SameWrites(u, w) /\ u.start = w.start
      BY <2>1, WritableErroredIs
  <2>3. PICK t : t = [u EXCEPT !.close = how]
      OBVIOUS
  <2>4. /\ t \in WritableType(C) /\ t.queue = u.queue /\ t.running = u.running
        /\ t.last = u.last /\ t.before = u.before /\ t.close = how /\ t.start = u.start
      BY <2>2, <2>3 DEF WritableType
  <2> QED BY <1>2, <2>1, <2>2, <2>3, <2>4 DEF CloseSettled, SameWrites
<1> QED BY <1>1, <1>2

-----------------------------------------------------------------------------
(* Chunks are numbers, which no other answer is.                            *)

LEMMA ChunksAreNumbers ==
    /\ Chunk \subseteq Nat \ {0} /\ End \notin Chunk /\ Failed \notin Chunk /\ End # Failed
    /\ End = 0 /\ Failed = -1
  BY PipeAssumption DEF Chunk, End, Failed

-----------------------------------------------------------------------------
(* The types, the ends of each stream and the reads of the pipe.            *)

LEMMA BasicsInit == Init => Basics
<1> SUFFICES ASSUME Init PROVE Basics
    OBVIOUS
<1>1. PICK pulls \in BOOLEAN : src = NewReadable(pulls, FALSE)
    BY DEF Init
<1>2. <<>> \in Seq(Chunk) /\ <<>> \in Seq(Chunk \cup {End, Failed}) /\ Len(<<>>) = 0
    BY EmptySeq
<1>3. \A a, b \in BOOLEAN :
          /\ NewReadable(a, b) \in ReadableType(Chunk) /\ NewReadable(a, b).state = "readable"
          /\ NewReadable(a, b).reads = 0 /\ NewReadable(a, b).got = <<>>
          /\ NewReadable(a, b).queue = <<>> /\ NewReadable(a, b).closing = FALSE
    BY <1>2 DEF NewReadable, ReadableType
<1>4. \A a, b \in BOOLEAN : StreamOK(NewReadable(a, b), Chunk)
  <2> SUFFICES ASSUME NEW a \in BOOLEAN, NEW b \in BOOLEAN PROVE StreamOK(NewReadable(a, b), Chunk)
      OBVIOUS
  <2>1. PICK s : s = NewReadable(a, b)
      OBVIOUS
  <2>2. s \in ReadableType(Chunk) /\ s.state = "readable" /\ s.reads = 0 /\ s.got = <<>>
      BY <1>3, <2>1
  <2>3. DOMAIN s.got = {}
      BY <2>2
  <2> QED BY <2>1, <2>2, <2>3 DEF StreamOK
<1>5. StreamOK(src, Chunk) /\ StreamOK(out, Chunk)
    BY <1>1, <1>4 DEF Init
<1>6. SinkOK
    BY <1>2 DEF Init, SinkOK, NewWritable, WritableType
<1>7. ReaderOK
  <2>1. src.reads = 0 /\ Len(src.got) = 0 /\ src.closing = FALSE /\ src.state = "readable"
      BY <1>1, <1>2, <1>3
  <2>2. pipe # "reading"
      BY DEF Init
  <2> QED BY <2>1, <2>2 DEF ReaderOK
<1>8. Shape
    BY PipeAssumption DEF Init, Shape
<1> QED BY <1>5, <1>6, <1>7, <1>8 DEF Basics

(* A sink whose writes stay as they are.                                    *)
LEMMA SinkAlike ==
    ASSUME SinkOK, NEW t \in WritableType(Chunk), sink' = t, SameWrites(t, sink),
           t.start = "failed" => broken' # {}
    PROVE  SinkOK'
  BY DEF SinkOK, SameWrites

LEMMA SinkUnmoved == SinkOK /\ sink' = sink /\ broken \subseteq broken' => SinkOK'
  BY DEF SinkOK

LEMMA SourceBasics == Basics /\ Source => Basics'
<1> SUFFICES ASSUME Basics, Source PROVE Basics'
    OBVIOUS
<1>0. PICK s \in ReadableType(Chunk) : s = src
    BY DEF Basics, StreamOK
<1>1. /\ StreamOK(s, Chunk) /\ s.reads \in Nat /\ Len(s.got) \in Nat
      /\ s.reads + Len(s.got) = IF pipe = "reading" THEN 1 ELSE 0
      /\ s.state = "closed" => s.closing
      /\ s.closing => Piped /\ promised = sent
      /\ s.got \in Seq(Chunk \cup {End, Failed})
    BY <1>0, ReadableFields DEF Basics, ReaderOK
<1>2. /\ StreamOK(out, Chunk)' /\ SinkOK' /\ pipe' = pipe /\ prevent' = prevent /\ broken' = broken
      /\ Piped' = Piped
    BY SinkUnmoved
    DEF Basics, Source, SourceStarts, PullIsCalled, SourceEnqueues, SourceCloses, SourceFails,
        PullSettles, Piped
<1>3. ASSUME NEW t \in ReadableType(Chunk), src' = t, StreamOK(t, Chunk),
             t.reads + Len(t.got) = s.reads + Len(s.got),
             t.state = "closed" => t.closing,
             t.closing => Piped /\ promised' = sent',
             sent' \in 0..NumChunks, promised' \in 0..sent'
      PROVE  Basics'
  <2>1. ReaderOK'
      BY <1>1, <1>2, <1>3 DEF ReaderOK
  <2>2. Shape'
      BY <1>2, <1>3 DEF Basics, Shape
  <2> QED BY <1>2, <1>3, <2>1, <2>2 DEF Basics
<1>4. /\ sent \in 0..NumChunks /\ promised \in 0..sent
    BY DEF Basics, Shape
<1>5. ASSUME NEW t \in ReadableType(Chunk), src' = t, Alike(t, s), sent' = sent, promised' = promised
      PROVE  Basics'
  <2>1. StreamOK(t, Chunk)
      BY <1>1, <1>5, StreamAlike DEF Alike
  <2> QED BY <1>1, <1>3, <1>4, <1>5, <2>1 DEF Alike
<1>6. CASE SourceStarts
  <2>1. PICK u : u = [s EXCEPT !.started = TRUE]
      OBVIOUS
  <2>2. /\ u \in ReadableType(Chunk) /\ u.state = s.state /\ u.queue = s.queue /\ u.size = s.size
        /\ u.closing = s.closing /\ u.reads = s.reads /\ u.got = s.got
      BY <2>1 DEF ReadableType
  <2>3. PICK t \in ReadableType(Chunk) : t = Pulled(u)
      BY <2>2, PulledKeeps
  <2>4. Alike(t, u)
      BY <2>2, <2>3, PulledKeeps
  <2>5. StreamOK(t, Chunk)
      BY <1>1, <2>2, <2>4, StreamAlike DEF Alike
  <2>6. src' = t /\ sent' = sent /\ promised' = promised
      BY <1>0, <1>6, <2>1, <2>3 DEF SourceStarts, Started
  <2> QED BY <1>1, <1>3, <1>4, <2>2, <2>4, <2>5, <2>6 DEF Alike
<1>7. CASE PullIsCalled
  <2>1. PICK t : t = [s EXCEPT !.pull = "running"]
      OBVIOUS
  <2>2. t \in ReadableType(Chunk) /\ Alike(t, s)
      BY <2>1 DEF ReadableType, Alike
  <2> QED BY <1>0, <1>5, <1>7, <2>1, <2>2 DEF PullIsCalled, PullCalled
<1>8. CASE PullSettles
  <2>1. PICK u : u = [s EXCEPT !.pull = "idle", !.again = FALSE]
      OBVIOUS
  <2>2. u \in ReadableType(Chunk) /\ Alike(u, s)
      BY <2>1 DEF ReadableType, Alike
  <2>3. PICK t : t = PullEnded(s)
      OBVIOUS
  <2>4. t = u \/ t = Pulled(u)
      BY <2>1, <2>3 DEF PullEnded
  <2>5. t \in ReadableType(Chunk) /\ Alike(t, s)
      BY <2>2, <2>4, PulledKeeps DEF Alike
  <2> QED BY <1>0, <1>5, <1>8, <2>3, <2>5 DEF PullSettles
<1>9. ASSUME SourceActs
      PROVE  \E u : /\ u = Acted(s) /\ StreamOK(u, Chunk) /\ Alike(u, s) /\ u \in ReadableType(Chunk)
  <2>1. PICK u : u = Acted(s)
      OBVIOUS
  <2>2. u \in ReadableType(Chunk) /\ Alike(u, s)
      BY <1>0, <1>9, <2>1, ActedIs DEF SourceActs
  <2>3. StreamOK(u, Chunk)
      BY <1>1, <2>2, StreamAlike DEF Alike
  <2> QED BY <2>1, <2>2, <2>3
<1>10. CASE SourceEnqueues
  <2>1. PICK u : /\ u = Acted(s) /\ StreamOK(u, Chunk) /\ Alike(u, s) /\ u \in ReadableType(Chunk)
      BY <1>9, <1>10 DEF SourceEnqueues
  <2>2. PICK c : c = sent + 1
      OBVIOUS
  <2>3. c \in Chunk /\ sent' = c /\ promised' = promised /\ sent' \in 0..NumChunks /\ promised' \in 0..sent'
      BY <1>4, <1>10, <2>2, PipeAssumption DEF SourceEnqueues, Chunk
  <2>4. CanEnqueue(u)
      BY <1>0, <1>10, <2>1 DEF SourceEnqueues, CanEnqueue, Alike
  <2>5. PICK t : t = Enqueued(u, c)
      OBVIOUS
  <2>6. StreamOK(t, Chunk)
      BY <2>1, <2>3, <2>4, <2>5, StreamEnqueued, ChunkIsSet
  <2>7. /\ t \in ReadableType(Chunk) /\ t.state = u.state /\ t.closing = u.closing
        /\ u.reads > 0 => t.reads = u.reads - 1 /\ t.got = Append(u.got, c)
        /\ u.reads = 0 => t.reads = 0 /\ t.got = u.got
      BY <2>1, <2>3, <2>5, ChunkSizes, EnqueuedIs
  <2>8. Len(Append(s.got, c)) = Len(s.got) + 1
      BY <1>1, <2>3
  <2>9. t.reads + Len(t.got) = s.reads + Len(s.got)
    <3>1. CASE s.reads > 0
        BY <1>1, <2>1, <2>7, <2>8, <3>1 DEF Alike
    <3>2. CASE s.reads = 0
        BY <1>1, <2>1, <2>7, <3>2 DEF Alike
    <3> QED BY <1>1, <3>1, <3>2
  <2>10. t.state = "readable" /\ ~t.closing
      BY <2>4, <2>7 DEF CanEnqueue
  <2>11. src' = t
      BY <1>0, <1>10, <2>1, <2>3, <2>5 DEF SourceEnqueues
  <2> QED BY <1>3, <2>3, <2>6, <2>7, <2>9, <2>10, <2>11
<1>11. CASE SourceCloses
  <2>1. PICK u : /\ u = Acted(s) /\ StreamOK(u, Chunk) /\ Alike(u, s) /\ u \in ReadableType(Chunk)
      BY <1>9, <1>11 DEF SourceCloses
  <2>2. CanEnqueue(u)
      BY <1>0, <1>11, <2>1 DEF SourceCloses, CanEnqueue, Alike
  <2>3. PICK t : t = CloseRequested(u)
      OBVIOUS
  <2>4. StreamOK(t, Chunk)
      BY <2>1, <2>2, <2>3, StreamCloseRequested, ChunkIsSet
  <2>5. /\ t \in ReadableType(Chunk) /\ t.closing
        /\ u.queue = <<>> => t.reads = 0 /\ Len(t.got) = Len(u.got) + u.reads
        /\ u.queue # <<>> => t.reads = u.reads /\ t.got = u.got
      BY <2>1, <2>2, <2>3, CloseRequestedIs
  <2>6. t.reads + Len(t.got) = s.reads + Len(s.got)
      BY <1>1, <2>1, <2>5 DEF Alike
  <2>7. src' = t /\ sent' = sent /\ promised' = sent /\ Piped
      BY <1>0, <1>11, <2>1, <2>3 DEF SourceCloses, SourceActs
  <2>8. promised' \in 0..sent'
      BY <1>4, <2>7, PipeAssumption
  <2> QED BY <1>3, <1>4, <2>4, <2>5, <2>6, <2>7, <2>8
<1>12. CASE SourceFails
  <2>1. PICK u : /\ u = Acted(s) /\ StreamOK(u, Chunk) /\ Alike(u, s) /\ u \in ReadableType(Chunk)
      BY <1>9, <1>12 DEF SourceFails
  <2>2. PICK t : t = ReadableErrored(u)
      OBVIOUS
  <2>3. StreamOK(t, Chunk)
      BY <2>1, <2>2, StreamErrored, ChunkIsSet
  <2>4. u.state = "readable"
      BY <1>0, <1>12, <2>1 DEF SourceFails, Alike
  <2>5. /\ t \in ReadableType(Chunk) /\ t.state = "errored" /\ t.reads = 0 /\ t.closing = u.closing
        /\ Len(t.got) = Len(u.got) + u.reads
      BY <2>1, <2>2, <2>4, ErroredIs
  <2>6. t.reads + Len(t.got) = s.reads + Len(s.got)
      BY <1>1, <2>1, <2>5 DEF Alike
  <2>7. src' = t /\ sent' = sent /\ promised' = promised
      BY <1>0, <1>12, <2>1, <2>2 DEF SourceFails
  <2> QED BY <1>1, <1>3, <1>4, <2>1, <2>3, <2>5, <2>6, <2>7 DEF Alike
<1> QED BY <1>6, <1>7, <1>8, <1>10, <1>11, <1>12 DEF Source

(* What a step of the pipe may make of the source's stream.                 *)
LEMMA PipeBasics == Basics /\ Pipe => Basics'
<1> SUFFICES ASSUME Basics, Pipe PROVE Basics'
    OBVIOUS
<1>0. PICK s \in ReadableType(Chunk) : s = src
    BY DEF Basics, StreamOK
<1>00. PICK w \in WritableType(Chunk) : w = sink
    BY DEF Basics, SinkOK
<1>1. /\ StreamOK(s, Chunk) /\ s.reads \in Nat /\ Len(s.got) \in Nat
      /\ s.reads + Len(s.got) = IF pipe = "reading" THEN 1 ELSE 0
      /\ s.state = "closed" => s.closing
      /\ s.closing => Piped /\ promised = sent
      /\ s.got \in Seq(Chunk \cup {End, Failed})
  <2>1. s.reads \in Nat /\ s.got \in Seq(Chunk \cup {End, Failed})
      BY ReadableFields
  <2>2. Len(s.got) \in Nat
      BY <2>1
  <2>3. ReaderOK /\ StreamOK(s, Chunk)
      BY <1>0 DEF Basics
  <2> QED BY <1>0, <2>1, <2>2, <2>3 DEF ReaderOK
<1>01. s.state \in {"readable", "closed", "errored"}
    BY ReadableFields
<1>2. /\ prevent' = prevent /\ broken' = broken /\ sent' = sent /\ promised' = promised
      /\ Piped /\ Piped'
      /\ pipe' \in {"ready", "reading", "writing", "closing", "done", "failed"}
    BY DEF Pipe, PipeReads, PipeGets, PipeWritten, PipeClosed, PipeFails, Piped
<1>3. Shape'
    BY <1>2 DEF Basics, Shape
<1>4. ASSUME NEW t \in ReadableType(Chunk), src' = t, StreamOK(t, Chunk),
             t.reads + Len(t.got) = (IF pipe' = "reading" THEN 1 ELSE 0),
             t.state = "closed" => t.closing, t.closing = s.closing
      PROVE  StreamOK(src, Chunk)' /\ ReaderOK'
    BY <1>1, <1>2, <1>4 DEF ReaderOK
<1>5. ASSUME src' = src, pipe # "reading", pipe' # "reading"
      PROVE  StreamOK(src, Chunk)' /\ ReaderOK'
    BY <1>0, <1>1, <1>2, <1>5 DEF ReaderOK
<1>6. ASSUME sink' = sink, out' = out PROVE StreamOK(out, Chunk)' /\ SinkOK'
    BY <1>2, <1>6, SinkUnmoved DEF Basics
<1>7. ASSUME sink' = WritableErrored(sink), out' = ReadableErrored(out)
      PROVE  StreamOK(out, Chunk)' /\ SinkOK'
  <2>1. PICK t : t = WritableErrored(w)
      OBVIOUS
  <2>2. t \in WritableType(Chunk) /\ SameWrites(t, w) /\ t.start = w.start
      BY <2>1, WritableErroredIs
  <2>3. SinkOK'
      BY <1>00, <1>2, <1>7, <2>1, <2>2, SinkAlike DEF Basics, SinkOK
  <2> QED BY <1>7, <2>3, StreamErrored, ChunkIsSet DEF Basics
<1>8. ASSUME PipeFails(src), pipe # "reading" PROVE Basics'
  <2>1. s.reads = 0
      BY <1>1, <1>8
  <2>2. src' = src /\ pipe' = "failed"
      BY <1>0, <1>8, <2>1, ReleasedIdle DEF PipeFails
  <2>3. StreamOK(out, Chunk)' /\ SinkOK'
      BY <1>6, <1>7, <1>8 DEF PipeFails
  <2> QED BY <1>3, <1>5, <1>8, <2>2, <2>3 DEF Basics
<1>9. CASE PipeReads
  <2>1. CASE sink.state = "errored"
      BY <1>8, <1>9, <2>1 DEF PipeReads
  <2>2. CASE sink.state # "errored"
    <3>1. PICK t : t = ReadMade(s)
        OBVIOUS
    <3>2. src' = t /\ pipe' = "reading" /\ sink' = sink /\ out' = out /\ pipe = "ready"
        BY <1>0, <1>9, <2>2, <3>1 DEF PipeReads
    <3>3. StreamOK(t, Chunk)
        BY <1>1, <3>1, StreamRead, ChunkIsSet
    <3>4. s.reads = 0 /\ Len(s.got) = 0
        BY <1>1, <3>2
    <3>5. \A a \in Chunk \cup {End, Failed} : Len(Append(s.got, a)) = 1
        BY <1>1, <3>4
    <3>6. t \in ReadableType(Chunk) /\ t.closing = s.closing
        BY <3>1, ReadMadeIs
    <3>7. CASE s.queue # <<>>
      <4>1. s.state = "readable"
          BY <1>1, <3>7 DEF StreamOK
      <4>2. Head(s.queue) \in Chunk
        <5>1. s.queue \in Seq(Chunk)
            BY ReadableFields
        <5> QED BY <3>7, <5>1
      <4>3. t.got = Append(s.got, Head(s.queue)) /\ t.reads = 0
            /\ t.state = (IF t.queue = <<>> /\ s.closing THEN "closed" ELSE "readable")
          BY <3>1, <3>4, <3>7, <4>1, ReadMadeIs
      <4>4. t.reads + Len(t.got) = 1
          BY <3>5, <4>2, <4>3
      <4> QED BY <1>3, <1>4, <1>6, <3>2, <3>3, <3>6, <4>3, <4>4 DEF Basics
    <3>8. CASE s.queue = <<>> /\ s.state = "closed"
      <4>1. t.state = "closed" /\ t.reads = s.reads /\ t.got = Append(s.got, End)
          BY <3>1, <3>8, ReadMadeIs
      <4>2. t.reads + Len(t.got) = 1
          BY <3>4, <3>5, <4>1
      <4> QED BY <1>1, <1>3, <1>4, <1>6, <3>2, <3>3, <3>6, <3>8, <4>1, <4>2 DEF Basics
    <3>9. CASE s.queue = <<>> /\ s.state = "errored"
      <4>1. t.state = "errored" /\ t.reads = s.reads /\ t.got = Append(s.got, Failed)
          BY <3>1, <3>9, ReadMadeIs
      <4>2. t.reads + Len(t.got) = 1
          BY <3>4, <3>5, <4>1
      <4> QED BY <1>3, <1>4, <1>6, <3>2, <3>3, <3>6, <4>1, <4>2 DEF Basics
    <3>10. CASE s.queue = <<>> /\ s.state = "readable"
      <4>1. t.state = "readable" /\ t.reads = s.reads + 1 /\ t.got = s.got
          BY <3>1, <3>10, ReadMadeIs
      <4>2. t.reads + Len(t.got) = 1
          BY <3>4, <4>1
      <4> QED BY <1>3, <1>4, <1>6, <3>2, <3>3, <3>6, <4>1, <4>2 DEF Basics
    <3> QED BY <1>01, <3>7, <3>8, <3>9, <3>10
  <2> QED BY <2>1, <2>2
<1>10. CASE PipeGets
  <2>1. PICK t : t = [s EXCEPT !.got = Tail(@)]
      OBVIOUS
  <2>2. s.got # <<>> /\ pipe = "reading"
      BY <1>0, <1>10 DEF PipeGets
  <2>3. /\ t \in ReadableType(Chunk) /\ t.got = Tail(s.got) /\ t.state = s.state
        /\ t.closing = s.closing /\ t.reads = s.reads
      BY <2>1, <2>2, TakenIs
  <2>4. StreamOK(t, Chunk)
      BY <1>1, <2>1, <2>2, StreamTaken, ChunkIsSet
  <2>5. Len(s.got) = 1 /\ s.reads = 0
    <3>1. Len(s.got) > 0
        BY <1>1, <2>2
    <3>2. s.reads + Len(s.got) = 1 /\ s.reads \in Nat /\ Len(s.got) \in Nat
        BY <1>1, <2>2
    <3>3. PICK m \in Nat : m = s.reads
        BY <3>2
    <3>4. PICK n \in Nat : n = Len(s.got)
        BY <3>2
    <3>5. m + n = 1 /\ n > 0
        BY <3>1, <3>2, <3>3, <3>4
    <3>6. m = 0 /\ n = 1
        BY <3>5
    <3> QED BY <3>3, <3>4, <3>6
  <2>6. Len(Tail(s.got)) = 0
      BY <1>1, <2>2, <2>5
  <2>7. t.reads = 0 /\ t.reads + Len(t.got) = 0
      BY <2>3, <2>5, <2>6
  <2>8. Released(t) = t
      BY <2>3, <2>7, ReleasedIdle
  <2>9. src' = t /\ pipe' # "reading"
      BY <1>0, <1>10, <2>1, <2>8 DEF PipeGets, PipeFails
  <2>10. StreamOK(src, Chunk)' /\ ReaderOK'
      BY <1>1, <1>4, <2>3, <2>4, <2>7, <2>9
  <2>11. CASE \E c \in Chunk : sink' = Written(sink, c) /\ out' = out
    <3>1. PICK c \in Chunk : sink' = Written(sink, c) /\ out' = out
        BY <2>11
    <3>2. PICK u : u = Written(w, c)
        OBVIOUS
    <3>3. /\ u \in WritableType(Chunk) /\ u.queue = Append(w.queue, c) /\ u.running = w.running
          /\ u.before = w.before /\ u.close = w.close /\ u.start = w.start
        BY <3>2, WrittenIs
    <3>4. w.queue \in Seq(Chunk) /\ w.before \in Nat
        BY WritableFields
    <3>5. Len(Append(w.queue, c)) = Len(w.queue) + 1 /\ Append(w.queue, c) # <<>> /\ Len(w.queue) \in Nat
        BY <3>4
    <3>6. SinkOK'
        BY <1>00, <1>2, <3>1, <3>2, <3>3, <3>4, <3>5 DEF Basics, SinkOK
    <3> QED BY <1>3, <2>10, <3>1, <3>6 DEF Basics
  <2>12. CASE sink' = CloseCalled(sink) /\ out' = out
    <3>1. PICK u : u = CloseCalled(w)
        OBVIOUS
    <3>2. /\ u \in WritableType(Chunk) /\ u.queue = w.queue /\ u.running = w.running
          /\ u.before = Len(w.queue) /\ u.close = "called" /\ u.start = w.start
        BY <3>1, CloseCalledIs
    <3>3. w.queue \in Seq(Chunk)
        BY WritableFields
    <3>4. Len(w.queue) \in Nat
        BY <3>3
    <3>5. SinkOK'
        BY <1>00, <1>2, <2>12, <3>1, <3>2, <3>4 DEF Basics, SinkOK
    <3> QED BY <1>3, <2>10, <2>12, <3>5 DEF Basics
  <2>13. CASE sink' = sink /\ out' = out
      BY <1>3, <1>6, <2>10, <2>13 DEF Basics
  <2>14. CASE sink' = WritableErrored(sink) /\ out' = ReadableErrored(out)
      BY <1>3, <1>7, <2>10, <2>14 DEF Basics
  <2> QED BY <1>0, <1>10, <2>2, <2>11, <2>12, <2>13, <2>14 DEF PipeGets, PipeFails
<1>11. CASE PipeWritten
  <2>1. CASE PipeFails(src)
      BY <1>8, <1>11, <2>1 DEF PipeWritten
  <2>2. CASE pipe' = "ready" /\ UNCHANGED <<src, sink, out>>
      BY <1>3, <1>5, <1>6, <1>11, <2>2 DEF PipeWritten, Basics
  <2> QED BY <1>11, <2>1, <2>2 DEF PipeWritten
<1>12. CASE PipeClosed
  <2>1. CASE PipeFails(src)
      BY <1>8, <1>12, <2>1 DEF PipeClosed
  <2>2. CASE pipe' = "done" /\ UNCHANGED <<src, sink, out>>
      BY <1>3, <1>5, <1>6, <1>12, <2>2 DEF PipeClosed, Basics
  <2> QED BY <1>12, <2>1, <2>2 DEF PipeClosed
<1> QED BY <1>9, <1>10, <1>11, <1>12 DEF Pipe

LEMMA ScriptBasics == Basics /\ Script => Basics'
<1> SUFFICES ASSUME Basics, Script PROVE Basics'
    OBVIOUS
<1>0. PICK w \in WritableType(Chunk) : w = sink
    BY DEF Basics, SinkOK
<1>1. /\ src' = src /\ pipe' = pipe /\ prevent' = prevent /\ broken' = broken /\ ~Piped /\ ~Piped'
    BY DEF Script, ScriptWrites, ScriptCloses, ScriptAborts, Piped
<1>2. sent \in 0..NumChunks /\ promised \in 0..sent
    BY DEF Basics, Shape
<1>3. sent' \in 0..NumChunks /\ promised' \in 0..sent'
    BY <1>2, PipeAssumption DEF Script, ScriptWrites, ScriptCloses, ScriptAborts
<1>4. Shape'
    BY <1>1, <1>3 DEF Basics, Shape
<1>5. StreamOK(src, Chunk)' /\ ReaderOK'
    BY <1>1 DEF Basics, ReaderOK
<1>6. CASE ScriptWrites
  <2>1. PICK c \in Chunk : sink' = Written(sink, c) /\ out' = out
      BY <1>2, <1>6, PipeAssumption DEF ScriptWrites, Chunk
  <2>2. PICK u : u = Written(w, c)
      OBVIOUS
  <2>3. /\ u \in WritableType(Chunk) /\ u.queue = Append(w.queue, c) /\ u.running = w.running
        /\ u.before = w.before /\ u.close = w.close /\ u.start = w.start
      BY <2>2, WrittenIs
  <2>4. w.queue \in Seq(Chunk) /\ w.before \in Nat
      BY WritableFields
  <2>5. Len(Append(w.queue, c)) = Len(w.queue) + 1 /\ Append(w.queue, c) # <<>> /\ Len(w.queue) \in Nat
      BY <2>4
  <2>6. SinkOK'
      BY <1>0, <1>1, <2>1, <2>2, <2>3, <2>4, <2>5 DEF Basics, SinkOK
  <2> QED BY <1>4, <1>5, <2>1, <2>6 DEF Basics
<1>7. CASE ScriptCloses
  <2>1. PICK u : u = CloseCalled(w)
      OBVIOUS
  <2>2. /\ u \in WritableType(Chunk) /\ u.queue = w.queue /\ u.running = w.running
        /\ u.before = Len(w.queue) /\ u.close = "called" /\ u.start = w.start
      BY <2>1, CloseCalledIs
  <2>3. w.queue \in Seq(Chunk)
      BY WritableFields
  <2>4. Len(w.queue) \in Nat
      BY <2>3
  <2>5. SinkOK'
      BY <1>0, <1>1, <1>7, <2>1, <2>2, <2>4 DEF Basics, SinkOK, ScriptCloses
  <2> QED BY <1>4, <1>5, <1>7, <2>5 DEF Basics, ScriptCloses
<1>8. CASE ScriptAborts
  <2>1. PICK t : t = WritableErrored(w)
      OBVIOUS
  <2>2. t \in WritableType(Chunk) /\ SameWrites(t, w) /\ t.start = w.start
      BY <2>1, WritableErroredIs
  <2>3. SinkOK'
      BY <1>0, <1>1, <1>8, <2>1, <2>2, SinkAlike DEF Basics, SinkOK, ScriptAborts
  <2> QED BY <1>4, <1>5, <1>8, <2>3, StreamErrored, ChunkIsSet DEF Basics, ScriptAborts
<1> QED BY <1>6, <1>7, <1>8 DEF Script

LEMMA TransformBasics == Basics /\ Transform => Basics'
<1> SUFFICES ASSUME Basics, Transform PROVE Basics'
    OBVIOUS
<1>0. PICK w \in WritableType(Chunk) : w = sink
    BY DEF Basics, SinkOK
<1>1. /\ src' = src /\ pipe' = pipe /\ prevent' = prevent /\ sent' = sent /\ promised' = promised
      /\ broken \subseteq broken' /\ broken' \subseteq {"cancel", "terminate", "transform"}
    BY DEF Basics, Shape, Transform, TransformStarts, CloseEnds, TransformBegins, TransformEnqueues,
           TransformThrows, TransformEnds, CloseBegins
<1>2. Shape'
    BY <1>1 DEF Basics, Shape
<1>3. StreamOK(src, Chunk)' /\ ReaderOK'
    BY <1>1 DEF Basics, ReaderOK, Piped
<1>4. /\ w.queue \in Seq(Chunk) /\ w.before \in Nat /\ w.before <= Len(w.queue)
      /\ w.before > 0 => w.close = "called"
      /\ w.running => w.queue # <<>>
      /\ w.start = "failed" => broken # {}
    BY <1>0, WritableFields DEF Basics, SinkOK
<1>5. ASSUME NEW how \in {"done", "failed"}, w.queue # <<>>, sink' = WriteSettled(sink, how)
      PROVE  SinkOK'
  <2>1. PICK u : u = WriteSettled(w, how)
      OBVIOUS
  <2>2. /\ u \in WritableType(Chunk) /\ u.queue = Tail(w.queue) /\ u.running = FALSE
        /\ u.before = (IF w.before > 0 THEN w.before - 1 ELSE 0)
        /\ u.close = w.close /\ u.start = w.start
      BY <1>5, <2>1, SettledIs
  <2>3. Len(Tail(w.queue)) = Len(w.queue) - 1 /\ Len(w.queue) \in Nat /\ Len(w.queue) > 0
      BY <1>4, <1>5
  <2>4. u.before <= Len(u.queue) /\ (u.before > 0 => w.before > 0)
      BY <1>4, <2>2, <2>3
  <2> QED BY <1>0, <1>1, <1>4, <1>5, <2>1, <2>2, <2>4 DEF SinkOK
<1>6. CASE \E ok \in BOOLEAN : TransformStarts(ok)
  <2>1. PICK ok \in BOOLEAN : TransformStarts(ok)
      BY <1>6
  <2>2. PICK t : t = SinkStarted(w, ok)
      OBVIOUS
  <2>3. t \in WritableType(Chunk) /\ SameWrites(t, w) /\ t.start = (IF ok THEN "done" ELSE "failed")
      BY <2>2, SinkStartedIs
  <2>4. ~ok => broken' # {}
      BY <2>1 DEF TransformStarts
  <2>5. SinkOK'
      BY <1>0, <2>1, <2>2, <2>3, <2>4, SinkAlike DEF Basics, TransformStarts
  <2> QED BY <1>2, <1>3, <2>1, <2>5 DEF Basics, TransformStarts
<1>7. CASE TransformBegins
  <2>1. CASE sink.start = "failed"
      BY <1>0, <1>2, <1>3, <1>5, <1>7, <2>1 DEF Basics, TransformBegins, TurnComes
  <2>2. CASE sink.start # "failed"
    <3>1. PICK u : u = [w EXCEPT !.running = TRUE]
        OBVIOUS
    <3>2. /\ u \in WritableType(Chunk) /\ u.queue = w.queue /\ u.before = w.before
          /\ u.close = w.close /\ u.start = w.start
        BY <3>1 DEF WritableType
    <3>3. SinkOK'
        BY <1>0, <1>1, <1>4, <1>7, <2>2, <3>1, <3>2 DEF SinkOK, TransformBegins, TurnComes
    <3> QED BY <1>2, <1>3, <1>7, <3>3 DEF Basics, TransformBegins
  <2> QED BY <2>1, <2>2
<1>8. CASE TransformEnqueues
  <2>1. w.queue # <<>>
      BY <1>0, <1>4, <1>8 DEF TransformEnqueues
  <2>2. Head(w.queue) \in Chunk
      BY <1>4, <2>1
  <2>3. SinkOK'
      BY <1>5, <1>8, <2>1 DEF TransformEnqueues
  <2>4. StreamOK(out, Chunk)'
      BY <1>0, <1>8, <2>2, StreamEnqueued, ChunkIsSet DEF Basics, TransformEnqueues
  <2> QED BY <1>2, <1>3, <2>3, <2>4 DEF Basics
<1>9. CASE TransformThrows
  <2>1. SinkOK'
      BY <1>0, <1>4, <1>5, <1>9 DEF TransformThrows
  <2> QED BY <1>2, <1>3, <1>9, <2>1 DEF Basics, TransformThrows
<1>10. CASE TransformEnds
  <2>1. SinkOK'
      BY <1>1, <1>10, SinkUnmoved DEF Basics, TransformEnds
  <2>2. StreamOK(out, Chunk)'
      BY <1>10, StreamCloseRequested, ChunkIsSet, StreamErrored, ChunkIsSet DEF Basics, TransformEnds
  <2> QED BY <1>2, <1>3, <2>1, <2>2 DEF Basics
<1>11. CASE CloseBegins
  <2>1. PICK u : u = [w EXCEPT !.close = "running"]
      OBVIOUS
  <2>2. /\ u \in WritableType(Chunk) /\ u.queue = w.queue /\ u.before = w.before
        /\ u.running = w.running /\ u.start = w.start
      BY <2>1 DEF WritableType
  <2>3. SinkOK'
      BY <1>0, <1>1, <1>4, <1>11, <2>1, <2>2 DEF SinkOK, CloseBegins
  <2> QED BY <1>2, <1>3, <1>11, <2>3 DEF Basics, CloseBegins
<1>12. CASE \E ok \in BOOLEAN : CloseEnds(ok)
  <2>1. PICK ok \in BOOLEAN : CloseEnds(ok)
      BY <1>12
  <2>2. PICK how \in {"done", "failed"} : how = IF ok THEN "done" ELSE "failed"
      OBVIOUS
  <2>3. PICK u : u = CloseSettled(w, how)
      OBVIOUS
  <2>4. /\ u \in WritableType(Chunk) /\ u.queue = w.queue /\ u.running = w.running
        /\ u.before = w.before /\ u.close = how /\ u.start = w.start
      BY <2>3, CloseSettledIs
  <2>5. sink' = u /\ w.close = "running"
      BY <1>0, <2>1, <2>2, <2>3 DEF CloseEnds
  <2>6. w.before = 0
      BY <1>4, <2>5
  <2>7. SinkOK'
      BY <1>1, <1>4, <2>4, <2>5, <2>6 DEF SinkOK
  <2>8. StreamOK(out, Chunk)'
      BY <2>1, StreamCloseRequested, ChunkIsSet DEF Basics, CloseEnds
  <2> QED BY <1>2, <1>3, <2>7, <2>8 DEF Basics
<1> QED BY <1>6, <1>7, <1>8, <1>9, <1>10, <1>11, <1>12 DEF Transform

LEMMA ConsumerBasics == Basics /\ Consumer => Basics'
<1> SUFFICES ASSUME Basics, Consumer PROVE Basics'
    OBVIOUS
<1>1. /\ src' = src /\ sink' = sink /\ pipe' = pipe /\ prevent' = prevent /\ sent' = sent
      /\ promised' = promised /\ broken \subseteq broken'
      /\ broken' \subseteq {"cancel", "terminate", "transform"}
    BY DEF Basics, Shape, Consumer, ConsumerReads, ConsumerCancels
<1>2. Shape' /\ StreamOK(src, Chunk)' /\ ReaderOK'
    BY <1>1 DEF Basics, Shape, ReaderOK, Piped
<1>3. SinkOK'
    BY <1>1, SinkUnmoved DEF Basics
<1>4. StreamOK(out, Chunk)'
    BY StreamRead, ChunkIsSet, StreamCancelled, ChunkIsSet DEF Basics, Consumer, ConsumerReads, ConsumerCancels
<1> QED BY <1>2, <1>3, <1>4 DEF Basics

LEMMA BasicsNext == Basics /\ [Next]_vars => Basics'
<1>1. Basics /\ UNCHANGED vars => Basics'
    BY DEF vars, Basics, SinkOK, ReaderOK, Shape, Piped
<1> QED BY <1>1, SourceBasics, PipeBasics, ScriptBasics, TransformBasics, ConsumerBasics DEF Next

(* Every step does one of these to the readable side.                       *)
OutMoves ==
    \/ out' = out
    \/ /\ TransformEnqueues /\ CanEnqueue(out) /\ sink.queue # <<>>
       /\ Head(sink.queue) \in Chunk /\ Takes(out', out, Head(sink.queue))
    \/ /\ out.state = "readable" /\ Ends(out', out)
       /\ \/ out'.state = "errored" \/ broken' # {}
          \/ out'.state # "errored" /\ out'.queue = out.queue /\ sink'.close = "done"
    \/ Gives(out', out) /\ ConsumerReads

LEMMA OutSteps == Basics /\ Next => OutMoves
<1> SUFFICES ASSUME Basics, Next PROVE OutMoves
    OBVIOUS
<1>0. StreamOK(out, Chunk)
    BY DEF Basics
<1>1. ASSUME out' = ReadableErrored(out) PROVE OutMoves
    BY <1>0, <1>1, ErrorEndsIt, ChunkIsSet DEF OutMoves
<1>2. CASE Source
    BY <1>2 DEF OutMoves, Source, SourceStarts, PullIsCalled, SourceEnqueues, SourceCloses, SourceFails,
        PullSettles
<1>3. CASE Pipe
  <2>1. out' = out \/ out' = ReadableErrored(out)
      BY <1>3 DEF Pipe, PipeReads, PipeGets, PipeWritten, PipeClosed, PipeFails
  <2> QED BY <1>1, <2>1 DEF OutMoves
<1>4. CASE Script
  <2>1. out' = out \/ out' = ReadableErrored(out)
      BY <1>4 DEF Script, ScriptWrites, ScriptCloses, ScriptAborts
  <2> QED BY <1>1, <2>1 DEF OutMoves
<1>5. CASE TransformEnqueues
  <2>1. CASE CanEnqueue(out)
    <3>1. sink.queue \in Seq(Chunk)
        BY WritableFields DEF Basics, SinkOK
    <3>2. sink.queue # <<>>
        BY <1>5 DEF Basics, SinkOK, TransformEnqueues
    <3>3. Head(sink.queue) \in Chunk
        BY <3>1, <3>2
    <3>4. PICK c \in Chunk : c = Head(sink.queue)
        BY <3>3
    <3>5. Takes(out', out, c)
        BY <1>0, <1>5, <2>1, <3>4, EnqueuedTakes, ChunkIsSet DEF TransformEnqueues
    <3> QED BY <1>5, <2>1, <3>2, <3>4, <3>5 DEF OutMoves
  <2>2. CASE ~CanEnqueue(out)
      BY <1>5, <2>2 DEF OutMoves, TransformEnqueues
  <2> QED BY <2>1, <2>2
<1>6. CASE TransformEnds
  <2>1. broken' # {} /\ CanEnqueue(out)
      BY <1>6 DEF TransformEnds
  <2>2. CASE out' = CloseRequested(out)
      BY <1>0, <2>1, <2>2, CloseEndsIt, ChunkIsSet DEF OutMoves, CanEnqueue
  <2> QED BY <1>1, <1>6, <2>2 DEF TransformEnds
<1>7. CASE \E ok \in BOOLEAN : CloseEnds(ok)
  <2>1. PICK ok \in BOOLEAN : CloseEnds(ok)
      BY <1>7
  <2>2. CASE ok /\ CanEnqueue(out)
    <3>1. out' = CloseRequested(out) /\ sink' = CloseSettled(sink, "done")
        BY <2>1, <2>2 DEF CloseEnds
    <3>2. PICK w \in WritableType(Chunk) : w = sink
        BY DEF Basics, SinkOK
    <3>3. CloseSettled(w, "done").close = "done"
        BY CloseSettledIs
    <3>4. sink'.close = "done"
        BY <3>1, <3>2, <3>3
    <3> QED BY <1>0, <2>2, <3>1, <3>4, CloseEndsIt, ChunkIsSet DEF OutMoves, CanEnqueue
  <2>3. CASE ~(ok /\ CanEnqueue(out))
      BY <2>1, <2>3 DEF OutMoves, CloseEnds
  <2> QED BY <2>2, <2>3
<1>8. CASE ConsumerReads
    BY <1>0, <1>8, ReadGives, ChunkIsSet DEF OutMoves, ConsumerReads
<1>9. CASE ConsumerCancels
    BY <1>0, <1>9, CancelEndsIt, ChunkIsSet DEF OutMoves, ConsumerCancels
<1>10. CASE \/ \E ok \in BOOLEAN : TransformStarts(ok)
            \/ TransformBegins \/ TransformThrows \/ CloseBegins
    BY <1>10 DEF OutMoves, TransformStarts, TransformBegins, TransformThrows, CloseBegins
<1> QED BY <1>2, <1>3, <1>4, <1>5, <1>6, <1>7, <1>8, <1>9, <1>10 DEF Next, Transform, Consumer

-----------------------------------------------------------------------------
(* Sequences of chunks and of answers.                                      *)

Answer == Chunk \cup {End, Failed}

LEMMA Numbers == (\A c \in Chunk : c \in Nat /\ c > 0) /\ (\A a \in Answer : a \in Int)
<1>1. \A c \in Chunk : c \in Nat /\ c > 0
    BY PipeAssumption DEF Chunk
<1>2. End \in Int /\ Failed \in Int
    BY DEF End, Failed
<1> QED BY <1>1, <1>2 DEF Answer

LEMMA NumberedTakes ==
    ASSUME NEW g \in Seq(Answer), NEW c \in Chunk, Numbered(g), c = Len(g) + 1
    PROVE  Numbered(Append(g, c))
  BY DEF Numbered

LEMMA NumberedExtends ==
    ASSUME NEW g, NEW h, NEW a \in {End, Failed}, Numbered(g), Extends(h, g, a)
    PROVE  Numbered(h)
  BY ChunksAreNumbers DEF Numbered, Extends

LEMMA NumberedEnds ==
    ASSUME NEW g \in Seq(Answer), NEW a \in {End, Failed}, Numbered(g)
    PROVE  Numbered(Append(g, a))
<1>1. PICK h : h = Append(g, a)
    OBVIOUS
<1>2. /\ DOMAIN h = 1..(Len(g) + 1) /\ h[Len(g) + 1] = a /\ \A i \in 1..Len(g) : h[i] = g[i]
      /\ DOMAIN g = 1..Len(g) /\ Len(g) \in Nat
    BY <1>1
<1>3. \A i \in DOMAIN h : i \in DOMAIN g \/ h[i] = a
    BY <1>2
<1> QED BY <1>1, <1>2, <1>3, ChunksAreNumbers DEF Numbered

LEMMA BehindAppend ==
    ASSUME NEW q \in Seq(Chunk), NEW n \in Nat, NEW c \in Chunk, Behind(q, n), c = n + Len(q) + 1
    PROVE  Behind(Append(q, c), n)
  BY DEF Behind

LEMMA BehindTail ==
    ASSUME NEW q \in Seq(Chunk), NEW n \in Nat, Behind(q, n), q # <<>>
    PROVE  /\ Behind(Tail(q), n + 1) /\ Head(q) = n + 1 /\ Head(q) \in Chunk
           /\ Len(Tail(q)) + 1 = Len(q) /\ Tail(q) \in Seq(Chunk)
<1>1. /\ Head(q) = q[1] /\ Head(q) \in Chunk /\ 1 \in DOMAIN q /\ Len(q) \in Nat
      /\ Len(Tail(q)) = Len(q) - 1 /\ Tail(q) \in Seq(Chunk)
    OBVIOUS
<1>2. \A i \in DOMAIN Tail(q) : i \in Nat /\ i + 1 \in DOMAIN q /\ Tail(q)[i] = q[i + 1]
    OBVIOUS
<1>3. Head(q) = n + 1
    BY <1>1 DEF Behind
<1>4. ASSUME NEW i \in DOMAIN Tail(q) PROVE Tail(q)[i] = (n + 1) + i
  <2>1. q[i + 1] = n + (i + 1)
      BY <1>2 DEF Behind
  <2> QED BY <1>2, <2>1
<1>5. Behind(Tail(q), n + 1)
    BY <1>4 DEF Behind
<1> QED BY <1>1, <1>3, <1>5

LEMMA BehindEmpty == \A n : Behind(<<>>, n)
  BY DEF Behind

(* The flow of a pipe, move by move.                                        *)
LEMMA FlowMade ==
    ASSUME NEW g \in Seq(Answer), NEW q \in Seq(Chunk), NEW state, NEW w \in Seq(Chunk),
           NEW n \in Nat, NEW m \in Nat, m + 1 \in Chunk, state # "errored",
           Flow(g, q, state, w, n, m)
    PROVE  /\ Flow(g, Append(q, m + 1), state, w, n, m + 1)
           /\ g = <<>> /\ q = <<>> /\ w = <<>> => Flow(Append(g, m + 1), q, state, w, n, m + 1)
<1>1. PICK k \in Nat : k = InHand(g, w)
  <2>1. Len(w) \in Nat
      OBVIOUS
  <2> QED BY <2>1 DEF InHand
<1>2. n + k + Len(q) = m /\ Behind(q, n + k) /\ Behind(w, n) /\ (Has(g) => Head(g) = n + 1)
    BY <1>1 DEF Flow
<1>3. PICK c \in Chunk : c = m + 1
    OBVIOUS
<1>4. Len(q) \in Nat /\ Len(Append(q, c)) = Len(q) + 1
    OBVIOUS
<1>5. Behind(Append(q, c), n + k)
  <2>1. PICK b \in Nat : b = n + k
      OBVIOUS
  <2>2. c = b + Len(q) + 1 /\ Behind(q, b)
      BY <1>2, <1>3, <1>4, <2>1
  <2>3. Behind(Append(q, c), b)
      BY <2>2, BehindAppend
  <2> QED BY <2>1, <2>3
<1>6. Flow(g, Append(q, c), state, w, n, c)
  <2>1. n + k + Len(Append(q, c)) = c
      BY <1>2, <1>3, <1>4
  <2> QED BY <1>1, <1>2, <1>5, <2>1 DEF Flow
<1>7. ASSUME g = <<>>, q = <<>>, w = <<>> PROVE Flow(Append(g, c), q, state, w, n, c)
  <2>1. k = 0 /\ Len(q) = 0
      BY <1>1, <1>7 DEF InHand, Has
  <2>2. Head(Append(g, c)) = c /\ Append(g, c) # <<>>
      BY <1>7
  <2>3. Has(Append(g, c)) /\ InHand(Append(g, c), w) = 1
      BY <2>2 DEF Has, InHand
  <2>4. c = n + 1
      BY <1>2, <1>3, <2>1
  <2> QED BY <1>7, <2>1, <2>2, <2>3, <2>4, BehindEmpty DEF Flow
<1> QED BY <1>3, <1>6, <1>7

(* The source has ended: it holds what it held, or nothing.                 *)
LEMMA FlowEnds ==
    ASSUME NEW g \in Seq(Answer), NEW q \in Seq(Chunk), NEW state, NEW w \in Seq(Chunk),
           NEW n \in Nat, NEW m \in Nat, Flow(g, q, state, w, n, m),
           NEW h \in Seq(Answer), Has(h) <=> Has(g), Has(g) => Head(h) = Head(g), NEW last
    PROVE  /\ Flow(h, <<>>, "errored", w, n, m)
           /\ state # "errored" \/ last = "errored" => Flow(h, q, last, w, n, m)
<1>1. InHand(h, w) = InHand(g, w)
    BY DEF InHand
<1> QED BY <1>1, BehindEmpty DEF Flow

LEMMA FlowRead ==
    ASSUME NEW q \in Seq(Chunk), NEW state, NEW w \in Seq(Chunk), NEW g \in Seq(Answer),
           NEW n \in Nat, NEW m \in Nat, Flow(g, q, state, w, n, m), w = <<>>, g = <<>>,
           q # <<>>, NEW last, state # "errored"
    PROVE  Flow(Append(g, Head(q)), Tail(q), last, w, n, m)
<1>1. InHand(g, w) = 0
    BY DEF InHand, Has
<1>2. n + Len(q) = m /\ Behind(q, n)
  <2>1. Len(q) \in Nat
      OBVIOUS
  <2> QED BY <1>1, <2>1 DEF Flow
<1>3. /\ Behind(Tail(q), n + 1) /\ Head(q) = n + 1 /\ Head(q) \in Chunk
      /\ Len(Tail(q)) + 1 = Len(q) /\ Tail(q) \in Seq(Chunk)
    BY <1>2, BehindTail
<1>4. PICK c \in Chunk : c = Head(q)
    BY <1>3
<1>5. Head(Append(g, c)) = c /\ Append(g, c) # <<>>
    OBVIOUS
<1>6. Has(Append(g, c)) /\ InHand(Append(g, c), w) = 1
    BY <1>5 DEF Has, InHand
<1>7. PICK r \in Seq(Chunk) : r = Tail(q)
    BY <1>3
<1>8. Len(r) \in Nat /\ Len(q) \in Nat /\ Len(r) + 1 = Len(q)
    BY <1>3, <1>7
<1>9. n + 1 + Len(r) = m
    BY <1>2, <1>8
<1> QED BY <1>3, <1>4, <1>5, <1>6, <1>7, <1>9, BehindEmpty DEF Flow

LEMMA FlowWritten ==
    ASSUME NEW q \in Seq(Chunk), NEW state, NEW w \in Seq(Chunk), NEW g \in Seq(Answer),
           NEW n \in Nat, NEW m \in Nat, Flow(g, q, state, w, n, m), w = <<>>, Has(g),
           NEW h \in Seq(Answer), h = <<>>
    PROVE  Flow(h, q, state, Append(w, Head(g)), n, m)
<1>1. InHand(g, w) = 1
    BY DEF InHand
<1>0. Head(g) \in Chunk
    BY DEF Has
<1>2. PICK c \in Chunk : c = Head(g)
    BY <1>0
<1>3. c = n + 1 /\ Len(w) = 0 /\ c = n + Len(w) + 1
    BY <1>2 DEF Flow
<1>7. Append(w, c) \in Seq(Chunk)
    OBVIOUS
<1>4. PICK v \in Seq(Chunk) : v = Append(w, c)
    BY <1>7
<1>5. Len(v) = 1 /\ ~Has(h) /\ InHand(h, v) = 1
    BY <1>4 DEF InHand, Has
<1>6. Behind(v, n)
  <2>1. Behind(w, n)
      BY DEF Flow
  <2> QED BY <1>3, <1>4, <2>1, BehindAppend
<1> QED BY <1>1, <1>2, <1>4, <1>5, <1>6 DEF Flow

LEMMA FlowTaken ==
    ASSUME NEW q \in Seq(Chunk), NEW state, NEW w \in Seq(Chunk), NEW g \in Seq(Answer),
           NEW n \in Nat, NEW m \in Nat, Flow(g, q, state, w, n, m), Len(w) = 1, g = <<>>
    PROVE  Flow(g, q, state, Tail(w), n + 1, m) /\ Head(w) = n + 1
<1>1. ~Has(g) /\ InHand(g, w) = 1
    BY DEF InHand, Has
<1>7. w # <<>>
  <2> SUFFICES ASSUME w = <<>> PROVE FALSE
      OBVIOUS
  <2>1. Len(<<>>) = 0
      BY EmptySeq
  <2>2. Len(w) = 0
      BY <2>1
  <2> QED BY <2>2
<1>2. Behind(w, n) /\ w # <<>>
    BY <1>7 DEF Flow
<1>3. Head(w) = n + 1 /\ Tail(w) \in Seq(Chunk) /\ Len(Tail(w)) = 0
    BY <1>2, BehindTail
<1>4. PICK v \in Seq(Chunk) : v = Tail(w)
    BY <1>3
<1>5. v = <<>> /\ InHand(g, v) = 0
    BY <1>1, <1>3, <1>4 DEF InHand
<1>6. Len(q) \in Nat
    OBVIOUS
<1>8. Behind(q, n + 1) /\ (state # "errored" => n + 1 + Len(q) = m)
    BY <1>1 DEF Flow
<1>9. (n + 1) + 0 = n + 1
    OBVIOUS
<1>10. Flow(g, q, state, v, n + 1, m)
    BY <1>1, <1>5, <1>6, <1>8, <1>9, BehindEmpty DEF Flow
<1> QED BY <1>3, <1>4, <1>10

(* The line of a script's chunks.                                           *)
LEMMA LineWritten ==
    ASSUME NEW g \in Seq(Answer), NEW q \in Seq(Chunk), NEW w \in Seq(Chunk), NEW m \in Nat,
           m + 1 \in Chunk, Line(g, q, w, m)
    PROVE  Line(g, q, Append(w, m + 1), m + 1)
<1>1. PICK c \in Chunk : c = m + 1
    OBVIOUS
<1>2. PICK v : v = Append(w, c)
    OBVIOUS
<1>3. /\ DOMAIN v = 1..(Len(w) + 1) /\ v[Len(w) + 1] = c /\ \A i \in 1..Len(w) : v[i] = w[i]
      /\ DOMAIN w = 1..Len(w) /\ Len(w) \in Nat
    BY <1>2
<1>4. \A i \in DOMAIN v : (i \in DOMAIN w /\ v[i] = w[i]) \/ (i = Len(w) + 1 /\ v[i] = c)
    BY <1>3
<1>5. \A i \in DOMAIN g : g[i] \in Int
  <2>1. \A i \in DOMAIN g : g[i] \in Answer
      OBVIOUS
  <2> QED BY <2>1, Numbers
<1>6. (\A i \in DOMAIN q : q[i] \in Nat) /\ (\A i \in DOMAIN w : w[i] \in Nat)
  <2>1. (\A i \in DOMAIN q : q[i] \in Chunk) /\ (\A i \in DOMAIN w : w[i] \in Chunk)
      OBVIOUS
  <2> QED BY <2>1, Numbers
<1>7. Increasing(v)
    BY <1>1, <1>3, <1>4, <1>6 DEF Line, Increasing, UpTo
<1>8. Before(g, v) /\ Before(q, v)
  <2>1. \A i \in DOMAIN g : g[i] < c /\ \A j \in DOMAIN w : g[i] < w[j]
      BY <1>1, <1>5 DEF Line, Before, UpTo
  <2>2. \A i \in DOMAIN q : q[i] < c /\ \A j \in DOMAIN w : q[i] < w[j]
      BY <1>1, <1>6 DEF Line, Before, UpTo
  <2> QED BY <1>4, <2>1, <2>2 DEF Before
<1>9. UpTo(g, c) /\ UpTo(q, c) /\ UpTo(v, c)
    BY <1>1, <1>4, <1>5, <1>6 DEF Line, UpTo
<1> QED BY <1>1, <1>2, <1>7, <1>8, <1>9 DEF Line

(* The tail of an increasing sequence, and its head.                        *)
LEMMA TailIncreases ==
    ASSUME NEW q \in Seq(Chunk), q # <<>>, Increasing(q)
    PROVE  /\ Tail(q) \in Seq(Chunk) /\ Head(q) \in Chunk /\ Increasing(Tail(q))
           /\ \A i \in DOMAIN Tail(q) : Head(q) < Tail(q)[i] /\ i + 1 \in DOMAIN q /\ Tail(q)[i] = q[i + 1]
           /\ 1 \in DOMAIN q /\ Head(q) = q[1]
<1>1. PICK r : r = Tail(q)
    OBVIOUS
<1>2. /\ r \in Seq(Chunk) /\ Head(q) \in Chunk /\ 1 \in DOMAIN q /\ Head(q) = q[1]
      /\ \A i \in DOMAIN r : i + 1 \in DOMAIN q /\ r[i] = q[i + 1] /\ i \in Nat /\ i > 0
    BY <1>1
<1>3. \A i \in DOMAIN r : q[1] < q[i + 1]
    BY <1>2 DEF Increasing
<1>4. ASSUME NEW i \in DOMAIN r, NEW j \in DOMAIN r, i < j PROVE r[i] < r[j]
  <2>1. i + 1 < j + 1 /\ i + 1 \in DOMAIN q /\ j + 1 \in DOMAIN q
      BY <1>2, <1>4
  <2>2. q[i + 1] < q[j + 1]
      BY <2>1 DEF Increasing
  <2> QED BY <1>2, <2>2
<1>5. Increasing(r)
    BY <1>4 DEF Increasing
<1> QED BY <1>1, <1>2, <1>3, <1>5

LEMMA LineDropped ==
    ASSUME NEW g \in Seq(Answer), NEW q \in Seq(Chunk), NEW w \in Seq(Chunk), NEW m \in Nat,
           Line(g, q, w, m), w # <<>>
    PROVE  Line(g, q, Tail(w), m)
<1>1. PICK v : v = Tail(w)
    OBVIOUS
<1>2. /\ Increasing(v)
      /\ \A i \in DOMAIN v : i + 1 \in DOMAIN w /\ v[i] = w[i + 1]
    BY <1>1, TailIncreases DEF Line
<1>3. Before(g, v) /\ Before(q, v) /\ UpTo(v, m)
    BY <1>2 DEF Line, Before, UpTo
<1> QED BY <1>1, <1>2, <1>3 DEF Line

(* An end is told: it is less than any chunk.                               *)
LEMMA LineEnds ==
    ASSUME NEW g \in Seq(Answer), NEW q \in Seq(Chunk), NEW w \in Seq(Chunk), NEW m \in Nat,
           NEW h \in Seq(Answer), NEW a \in {End, Failed}, Extends(h, g, a), Line(g, q, w, m)
    PROVE  Line(h, q, w, m) /\ Line(h, <<>>, w, m)
<1>1. \A i \in DOMAIN h : (i \in DOMAIN g /\ h[i] = g[i]) \/ h[i] = a
    BY DEF Extends
<1>2. a \notin Chunk /\ a <= 0 /\ a \in Int
    BY ChunksAreNumbers
<1>3. (\A i \in DOMAIN q : q[i] \in Nat /\ q[i] > 0) /\ (\A i \in DOMAIN w : w[i] \in Nat /\ w[i] > 0)
  <2>1. (\A i \in DOMAIN q : q[i] \in Chunk) /\ (\A i \in DOMAIN w : w[i] \in Chunk)
      OBVIOUS
  <2> QED BY <2>1, Numbers
<1>4. ASSUME NEW i \in DOMAIN h, NEW j \in DOMAIN h, i < j, h[j] \in Chunk PROVE h[i] < h[j]
  <2>1. j \in DOMAIN g /\ h[j] = g[j]
      BY <1>1, <1>2, <1>4
  <2>2. h[j] \in Nat /\ h[j] > 0
      BY <1>4, Numbers
  <2>3. CASE h[i] = a
      BY <1>2, <2>2, <2>3
  <2>4. CASE i \in DOMAIN g /\ h[i] = g[i]
      BY <1>4, <2>1, <2>4 DEF Line, Ascends
  <2> QED BY <1>1, <2>3, <2>4
<1>5. Ascends(h)
    BY <1>4 DEF Ascends
<1>6. Before(h, q) /\ Before(h, w)
  <2>1. \A i \in DOMAIN g : (\A j \in DOMAIN q : g[i] < q[j]) /\ (\A j \in DOMAIN w : g[i] < w[j])
      BY DEF Line, Before
  <2>2. (\A j \in DOMAIN q : a < q[j]) /\ (\A j \in DOMAIN w : a < w[j])
      BY <1>2, <1>3
  <2> QED BY <1>1, <2>1, <2>2 DEF Before
<1>7. UpTo(h, m)
    BY <1>1, <1>2 DEF Line, UpTo
<1> QED BY <1>5, <1>6, <1>7 DEF Line, Increasing, Before, UpTo

(* A chunk goes from the head of one part to the end of the next.           *)
LEMMA AscendsAppend ==
    ASSUME NEW g \in Seq(Answer), NEW c \in Chunk, Ascends(g), \A i \in DOMAIN g : g[i] < c
    PROVE  Ascends(Append(g, c))
  BY DEF Ascends

LEMMA IncreasesAppend ==
    ASSUME NEW q \in Seq(Chunk), NEW c \in Chunk, Increasing(q), \A i \in DOMAIN q : q[i] < c
    PROVE  Increasing(Append(q, c))
  BY DEF Increasing

LEMMA LineRead ==
    ASSUME NEW g \in Seq(Answer), NEW q \in Seq(Chunk), NEW w \in Seq(Chunk), NEW m \in Nat,
           Line(g, q, w, m), q # <<>>
    PROVE  Line(Append(g, Head(q)), Tail(q), w, m)
<1>0. Tail(q) \in Seq(Chunk) /\ Head(q) \in Chunk
    OBVIOUS
<1>1. PICK r \in Seq(Chunk) : r = Tail(q)
    BY <1>0
<1>2. PICK c \in Chunk : c = Head(q)
    BY <1>0
<1>3. /\ Increasing(r) /\ 1 \in DOMAIN q /\ c = q[1]
      /\ \A i \in DOMAIN r : c < r[i] /\ i + 1 \in DOMAIN q /\ r[i] = q[i + 1]
    BY <1>1, <1>2, TailIncreases DEF Line
<1>4. PICK h : h = Append(g, c)
    OBVIOUS
<1>5. \A i \in DOMAIN h : (i \in DOMAIN g /\ h[i] = g[i]) \/ h[i] = c
    BY <1>4
<1>6. Ascends(h)
    BY <1>3, <1>4, AscendsAppend DEF Line, Before
<1>7. Before(h, r) /\ Before(h, w) /\ Before(r, w)
    BY <1>3, <1>5 DEF Line, Before
<1>8. UpTo(h, m) /\ UpTo(r, m)
    BY <1>3, <1>5 DEF Line, UpTo
<1> QED BY <1>1, <1>2, <1>3, <1>4, <1>6, <1>7, <1>8 DEF Line

LEMMA LineTaken ==
    ASSUME NEW g \in Seq(Answer), NEW q \in Seq(Chunk), NEW w \in Seq(Chunk), NEW m \in Nat,
           Line(g, q, w, m), w # <<>>
    PROVE  /\ Line(g, Append(q, Head(w)), Tail(w), m)
           /\ q = <<>> => Line(Append(g, Head(w)), q, Tail(w), m)
<1>0. Tail(w) \in Seq(Chunk) /\ Head(w) \in Chunk
    OBVIOUS
<1>1. PICK v \in Seq(Chunk) : v = Tail(w)
    BY <1>0
<1>2. PICK c \in Chunk : c = Head(w)
    BY <1>0
<1>3. /\ Increasing(v) /\ 1 \in DOMAIN w /\ c = w[1]
      /\ \A i \in DOMAIN v : c < v[i] /\ i + 1 \in DOMAIN w /\ v[i] = w[i + 1]
    BY <1>1, <1>2, TailIncreases DEF Line
<1>4. PICK h : h = Append(g, c)
    OBVIOUS
<1>5. \A i \in DOMAIN h : (i \in DOMAIN g /\ h[i] = g[i]) \/ h[i] = c
    BY <1>4
<1>6. PICK r : r = Append(q, c)
    OBVIOUS
<1>7. \A i \in DOMAIN r : (i \in DOMAIN q /\ r[i] = q[i]) \/ r[i] = c
    BY <1>6
<1>8. Ascends(h)
    BY <1>3, <1>4, AscendsAppend DEF Line, Before
<1>9. Increasing(r)
    BY <1>3, <1>6, IncreasesAppend DEF Line, Before
<1>10. Before(h, v) /\ Before(g, r) /\ Before(r, v) /\ Before(g, v)
    BY <1>3, <1>5, <1>7 DEF Line, Before
<1>11. UpTo(h, m) /\ UpTo(r, m) /\ UpTo(v, m)
    BY <1>3, <1>5, <1>7 DEF Line, UpTo
<1>12. Line(g, r, v, m)
    BY <1>3, <1>9, <1>10, <1>11 DEF Line
<1>13. q = <<>> => Line(h, q, v, m)
    BY <1>3, <1>8, <1>10, <1>11 DEF Line, Before
<1> QED BY <1>1, <1>2, <1>4, <1>6, <1>12, <1>13

-----------------------------------------------------------------------------
(* Through a pipe: what the consumer has and what waits for it.             *)

LEMMA PassedType ==
    ASSUME NEW s, StreamOK(s, Chunk)
    PROVE  /\ s.got \in Seq(Answer) /\ s.queue \in Seq(Chunk)
           /\ Len(s.got) \in Nat /\ Len(s.queue) \in Nat /\ Passed(s) \in Nat
<1>1. s.got \in Seq(Answer) /\ s.queue \in Seq(Chunk)
    BY ReadableFields DEF StreamOK, Answer
<1>2. Len(s.got) \in Nat /\ Len(s.queue) \in Nat
    BY <1>1
<1>3. PICK m \in Nat, n \in Nat : m = Len(s.got) /\ n = Len(s.queue)
    BY <1>2
<1>4. Passed(s) \in Nat
  <2>1. Passed(s) = m + n
      BY <1>3 DEF Passed
  <2>2. m + n \in Nat
      OBVIOUS
  <2> QED BY <2>1, <2>2
<1> QED BY <1>1, <1>2, <1>4

LEMMA FrontTakes ==
    ASSUME NEW s, NEW t, StreamOK(s, Chunk), StreamOK(t, Chunk), FrontOf(s),
           NEW c \in Chunk, c = Passed(s) + 1, Takes(t, s, c)
    PROVE  FrontOf(t) /\ Passed(t) = Passed(s) + 1
<1>1. PICK g \in Seq(Answer) : g = s.got
    BY PassedType
<1>2. PICK q \in Seq(Chunk) : q = s.queue
    BY PassedType
<1>3. PICK h \in Seq(Answer) : h = t.got
    BY PassedType
<1>4. PICK r \in Seq(Chunk) : r = t.queue
    BY PassedType
<1>5. Len(g) \in Nat /\ Len(q) \in Nat /\ Len(h) \in Nat /\ Len(r) \in Nat
    OBVIOUS
<1>6. Passed(s) = Len(g) + Len(q) /\ Passed(t) = Len(h) + Len(r)
    BY <1>1, <1>2, <1>3, <1>4 DEF Passed
<1>7. Numbered(g) /\ Behind(q, Len(g)) /\ c = Len(g) + Len(q) + 1
    BY <1>1, <1>2, <1>6 DEF FrontOf
<1>8. CASE q = <<>> /\ r = <<>> /\ h = Append(g, c)
  <2>1. Len(q) = 0 /\ Len(r) = 0 /\ Len(h) = Len(g) + 1
      BY <1>8
  <2>2. c = Len(g) + 1
      BY <1>5, <1>7, <2>1
  <2>3. Numbered(h)
      BY <1>7, <1>8, <2>2, NumberedTakes
  <2>4. Passed(t) = Passed(s) + 1
      BY <1>5, <1>6, <2>1
  <2> QED BY <1>3, <1>4, <1>8, <2>3, <2>4, BehindEmpty DEF FrontOf
<1>9. CASE h = g /\ r = Append(q, c)
  <2>1. Len(r) = Len(q) + 1
      BY <1>9
  <2>2. PICK n \in Nat : n = Len(g)
      BY <1>5
  <2>3. Behind(r, n)
      BY <1>5, <1>7, <1>9, <2>2, BehindAppend
  <2>4. Passed(t) = Passed(s) + 1
      BY <1>5, <1>6, <1>9, <2>1
  <2> QED BY <1>3, <1>4, <1>7, <1>9, <2>2, <2>3, <2>4 DEF FrontOf
<1> QED BY <1>1, <1>2, <1>3, <1>4, <1>8, <1>9 DEF Takes

LEMMA FrontEnds ==
    ASSUME NEW s, NEW t, FrontOf(s), Ends(t, s)
    PROVE  FrontOf(t)
<1>1. CASE t.queue = s.queue /\ t.got = s.got
    BY <1>1 DEF FrontOf
<1>2. CASE t.queue = <<>>
  <2>1. PICK a \in {End, Failed} : Extends(t.got, s.got, a)
      BY DEF Ends
  <2>2. Numbered(t.got)
      BY <2>1, NumberedExtends DEF FrontOf
  <2> QED BY <1>2, <2>2, BehindEmpty DEF FrontOf
<1> QED BY <1>1, <1>2 DEF Ends

LEMMA FrontGives ==
    ASSUME NEW s, NEW t, StreamOK(s, Chunk), StreamOK(t, Chunk), FrontOf(s), Gives(t, s)
    PROVE  /\ FrontOf(t)
           /\ CanEnqueue(t) => CanEnqueue(s) /\ Passed(t) = Passed(s)
<1>1. PICK g \in Seq(Answer) : g = s.got
    BY PassedType
<1>2. PICK q \in Seq(Chunk) : q = s.queue
    BY PassedType
<1>5. Len(g) \in Nat /\ Len(q) \in Nat
    OBVIOUS
<1>6. Passed(s) = Len(g) + Len(q)
    BY <1>1, <1>2 DEF Passed
<1>7. Numbered(g) /\ Behind(q, Len(g))
    BY <1>1, <1>2 DEF FrontOf
<1>8. CASE t.state = s.state /\ t.queue = s.queue /\ t.got = s.got
    BY <1>8 DEF Gives, FrontOf, CanEnqueue, Passed
<1>9. CASE /\ s.queue = <<>> /\ t.queue = <<>> /\ t.state = s.state /\ s.state # "readable"
           /\ \E a \in {End, Failed} : t.got = Append(s.got, a)
  <2>1. PICK a \in {End, Failed} : t.got = Append(g, a)
      BY <1>1, <1>9
  <2>2. Numbered(t.got)
      BY <1>7, <2>1, NumberedEnds
  <2> QED BY <1>9, <2>2, BehindEmpty DEF FrontOf, CanEnqueue
<1>10. CASE /\ s.queue # <<>>
            /\ t.queue = Tail(s.queue) /\ t.got = Append(s.got, Head(s.queue))
            /\ t.state = s.state \/ (t.state = "closed" /\ s.closing)
  <2>1. PICK n \in Nat : n = Len(g)
      BY <1>5
  <2>2. /\ Behind(Tail(q), n + 1) /\ Head(q) = n + 1 /\ Head(q) \in Chunk
        /\ Len(Tail(q)) + 1 = Len(q) /\ Tail(q) \in Seq(Chunk)
      BY <1>2, <1>7, <1>10, <2>1, BehindTail
  <2>3. PICK c \in Chunk : c = Head(q)
      BY <2>2
  <2>4. PICK r \in Seq(Chunk) : r = Tail(q)
      BY <2>2
  <2>5. PICK h : h = Append(g, c)
      OBVIOUS
  <2>6. Len(h) = n + 1 /\ Len(r) + 1 = Len(q) /\ Len(r) \in Nat
      BY <2>1, <2>2, <2>4, <2>5
  <2>7. t.got = h /\ t.queue = r
      BY <1>1, <1>2, <1>10, <2>3, <2>4, <2>5
  <2>8. Numbered(h)
      BY <1>7, <2>1, <2>2, <2>3, <2>5, NumberedTakes
  <2>9. FrontOf(t)
      BY <2>2, <2>4, <2>6, <2>7, <2>8 DEF FrontOf
  <2>10. Passed(t) = Passed(s)
    <3>1. Passed(t) = Len(h) + Len(r)
        BY <2>7 DEF Passed
    <3> QED BY <1>5, <1>6, <2>1, <2>6, <3>1
  <2>11. CanEnqueue(t) => CanEnqueue(s)
      BY <1>10 DEF Gives, CanEnqueue
  <2> QED BY <2>9, <2>10, <2>11
<1> QED BY <1>8, <1>9, <1>10 DEF Gives

(* With nothing in hand the pipe writes the next chunk to the sink.         *)
LEMMA NextInHand ==
    ASSUME Basics, PipedOK, Piped, sink.queue # <<>>, CanEnqueue(out)
    PROVE  /\ pipe = "writing" /\ Len(sink.queue) = 1 /\ src.got = <<>>
           /\ Flow(src.got, src.queue, src.state, sink.queue, Passed(out), sent)
           /\ Head(sink.queue) = Passed(out) + 1
<1>1. pipe = "writing" /\ Len(sink.queue) = 1
    BY DEF PipedOK, WriteOK
<1>2. src.got \in Seq(Answer) /\ Len(src.got) \in Nat /\ src.reads \in Nat
    BY PassedType, ReadableFields DEF Basics, StreamOK
<1>3. src.reads + Len(src.got) = 0
    BY <1>1 DEF Basics, ReaderOK
<1>4. src.got = <<>>
    BY <1>2, <1>3
<1>5. Flow(src.got, src.queue, src.state, sink.queue, Passed(out), sent)
    BY <1>1 DEF PipedOK, FlowOK, Flowing, Through
<1>6. sink.queue \in Seq(Chunk)
    BY WritableFields DEF Basics, SinkOK
<1>7. PICK w \in Seq(Chunk) : w = sink.queue
    BY <1>6
<1>8. PICK n \in Nat : n = Passed(out)
    BY PassedType DEF Basics
<1>9. Behind(w, n)
    BY <1>5, <1>7, <1>8 DEF Flow
<1>10. Head(w) = n + 1
    BY <1>7, <1>9, BehindTail
<1> QED BY <1>1, <1>4, <1>5, <1>7, <1>8, <1>10

LEMMA PipedFront ==
    ASSUME Basics, PipedOK, Piped, Next, Basics'
    PROVE  FrontOf(out)'
<1>1. OutMoves
    BY OutSteps
<1>2. FrontOf(out) /\ StreamOK(out, Chunk) /\ StreamOK(out', Chunk)
    BY DEF PipedOK, Basics
<1>3. CASE out' = out
    BY <1>2, <1>3
<1>4. CASE /\ CanEnqueue(out) /\ sink.queue # <<>>
           /\ Head(sink.queue) \in Chunk /\ Takes(out', out, Head(sink.queue))
  <2>1. Head(sink.queue) = Passed(out) + 1
      BY <1>4, NextInHand
  <2> QED BY <1>2, <1>4, <2>1, FrontTakes
<1>5. CASE Ends(out', out)
    BY <1>2, <1>5, FrontEnds
<1>6. CASE Gives(out', out)
    BY <1>2, <1>6, FrontGives
<1> QED BY <1>1, <1>3, <1>4, <1>5, <1>6 DEF OutMoves

(* What a step of the source does to the stream that is piped.              *)
SourceMoves ==
    \/ Stays(src', src) /\ sent' = sent
    \/ /\ CanEnqueue(src) /\ sent + 1 \in Chunk /\ sent' = sent + 1
       /\ Takes(src', src, sent + 1) /\ src'.state # "errored"
    \/ /\ src.state = "readable" /\ Ends(src', src) /\ sent' = sent
       /\ \/ src'.state = "errored" /\ src'.queue = <<>>
          \/ src'.state # "errored" /\ src'.queue = src.queue

LEMMA SourceSteps == Basics /\ Source => SourceMoves
<1> SUFFICES ASSUME Basics, Source PROVE SourceMoves
    OBVIOUS
<1>0. PICK s \in ReadableType(Chunk) : s = src
    BY DEF Basics, StreamOK
<1>1. StreamOK(s, Chunk)
    BY <1>0 DEF Basics
<1>2. ASSUME SourceActs
      PROVE  \E u : /\ u = Acted(s) /\ StreamOK(u, Chunk) /\ Alike(u, s) /\ u \in ReadableType(Chunk)
  <2>1. PICK u : u = Acted(s)
      OBVIOUS
  <2>2. u \in ReadableType(Chunk) /\ Alike(u, s)
      BY <1>0, <1>2, <2>1, ActedIs DEF SourceActs
  <2>3. StreamOK(u, Chunk)
      BY <1>1, <2>2, StreamAlike DEF Alike
  <2> QED BY <2>1, <2>2, <2>3
<1>3. CASE SourceStarts
  <2>1. PICK u : u = [s EXCEPT !.started = TRUE]
      OBVIOUS
  <2>2. /\ u \in ReadableType(Chunk) /\ u.state = s.state /\ u.queue = s.queue
        /\ u.closing = s.closing /\ u.got = s.got
      BY <2>1 DEF ReadableType
  <2>3. Alike(Pulled(u), u)
      BY <2>2, PulledKeeps
  <2>4. Stays(src', src)
      BY <1>0, <1>3, <2>1, <2>2, <2>3 DEF SourceStarts, Started, Alike, Stays
  <2> QED BY <1>3, <2>4 DEF SourceMoves, SourceStarts
<1>4. CASE PullIsCalled
  <2>1. PICK t : t = [s EXCEPT !.pull = "running"]
      OBVIOUS
  <2>2. Stays(t, s)
      BY <2>1 DEF ReadableType, Stays
  <2> QED BY <1>0, <1>4, <2>1, <2>2 DEF SourceMoves, PullIsCalled, PullCalled
<1>5. CASE PullSettles
  <2>1. PICK u : u = [s EXCEPT !.pull = "idle", !.again = FALSE]
      OBVIOUS
  <2>2. u \in ReadableType(Chunk) /\ Alike(u, s)
      BY <2>1 DEF ReadableType, Alike
  <2>3. PullEnded(s) = u \/ PullEnded(s) = Pulled(u)
      BY <2>1 DEF PullEnded
  <2>4. Alike(PullEnded(s), s)
      BY <2>2, <2>3, PulledKeeps DEF Alike
  <2> QED BY <1>0, <1>5, <2>4 DEF SourceMoves, PullSettles, Alike, Stays
<1>6. CASE SourceEnqueues
  <2>1. PICK u : /\ u = Acted(s) /\ StreamOK(u, Chunk) /\ Alike(u, s) /\ u \in ReadableType(Chunk)
      BY <1>2, <1>6 DEF SourceEnqueues
  <2>2. sent \in 0..NumChunks
      BY DEF Basics, Shape
  <2>3. PICK c \in Chunk : c = sent + 1
      BY <1>6, <2>2, PipeAssumption DEF SourceEnqueues, Chunk
  <2>4. CanEnqueue(u) /\ CanEnqueue(s)
      BY <1>0, <1>6, <2>1 DEF SourceEnqueues, CanEnqueue, Alike
  <2>5. Takes(Enqueued(u, c), u, c)
      BY <2>1, <2>4, EnqueuedTakes, ChunkIsSet
  <2>6. src' = Enqueued(u, c) /\ sent' = c
      BY <1>0, <1>6, <2>1, <2>3 DEF SourceEnqueues
  <2>7. Takes(src', src, c) /\ src'.state # "errored"
      BY <1>0, <2>1, <2>5, <2>6 DEF Takes, Alike, CanEnqueue
  <2> QED BY <1>0, <2>3, <2>4, <2>6, <2>7 DEF SourceMoves
<1>7. CASE SourceCloses
  <2>1. PICK u : /\ u = Acted(s) /\ StreamOK(u, Chunk) /\ Alike(u, s) /\ u \in ReadableType(Chunk)
      BY <1>2, <1>7 DEF SourceCloses
  <2>2. CanEnqueue(u)
      BY <1>0, <1>7, <2>1 DEF SourceCloses, CanEnqueue, Alike
  <2>3. PICK t : t = CloseRequested(u)
      OBVIOUS
  <2>4. Ends(t, u) /\ t.queue = u.queue /\ t.state # "errored"
      BY <2>1, <2>2, <2>3, CloseEndsIt, ChunkIsSet
  <2>5. Ends(t, s) /\ t.queue = s.queue /\ s.state = "readable"
      BY <2>1, <2>2, <2>4 DEF Ends, Alike, CanEnqueue
  <2>6. src' = t /\ sent' = sent
      BY <1>0, <1>7, <2>1, <2>3 DEF SourceCloses
  <2> QED BY <1>0, <2>4, <2>5, <2>6 DEF SourceMoves
<1>8. CASE SourceFails
  <2>1. PICK u : /\ u = Acted(s) /\ StreamOK(u, Chunk) /\ Alike(u, s) /\ u \in ReadableType(Chunk)
      BY <1>2, <1>8 DEF SourceFails
  <2>2. PICK t : t = ReadableErrored(u)
      OBVIOUS
  <2>3. u.state = "readable" /\ s.state = "readable"
      BY <1>0, <1>8, <2>1 DEF SourceFails, Alike
  <2>4. t.state = "errored" /\ t.queue = <<>> /\ Extends(t.got, u.got, Failed)
      BY <2>1, <2>2, <2>3, ErroredIs
  <2>5. Ends(t, s)
      BY <2>1, <2>4 DEF Ends, Alike, CanEnqueue
  <2>6. src' = t /\ sent' = sent
      BY <1>0, <1>8, <2>1, <2>2 DEF SourceFails
  <2> QED BY <1>0, <2>3, <2>4, <2>5, <2>6 DEF SourceMoves
<1> QED BY <1>3, <1>4, <1>5, <1>6, <1>7, <1>8 DEF Source

LEMMA PipedStays == Next /\ Piped' => Piped
  BY DEF Next, Source, SourceStarts, PullIsCalled, SourceEnqueues, SourceCloses, SourceFails,
         PullSettles, Pipe, PipeReads, PipeGets, PipeWritten, PipeClosed, PipeFails,
         Script, ScriptWrites, ScriptCloses, ScriptAborts,
         Transform, TransformStarts, CloseEnds, TransformBegins, TransformEnqueues,
         TransformThrows, TransformEnds, CloseBegins, Consumer, ConsumerReads, ConsumerCancels, Piped

(* The pipe's own step leaves a stream that is closed closed.               *)
LEMMA ClosedStays == Basics /\ Next /\ src.state = "closed" => src'.state = "closed"
<1> SUFFICES ASSUME Basics, Next, src.state = "closed" PROVE src'.state = "closed"
    OBVIOUS
<1>1. PICK s \in ReadableType(Chunk) : s = src
    BY DEF Basics, StreamOK
<1>2. StreamOK(s, Chunk)
    BY <1>1 DEF Basics
<1>3. CASE Source
    BY <1>3, SourceSteps DEF SourceMoves, Stays, CanEnqueue
<1>4. CASE Pipe
  <2>1. PICK t : t = [s EXCEPT !.got = Tail(@)]
      OBVIOUS
  <2>2. s.got # <<>> => t \in ReadableType(Chunk) /\ t.state = "closed"
      BY <1>1, <2>1, TakenIs
  <2>3. Gives(ReadMade(s), s)
      BY <1>2, ReadGives, ChunkIsSet
  <2>4. ReadMade(s).state = "closed"
      BY <1>1, <2>3 DEF Gives
  <2>5. \A u \in ReadableType(Chunk) : Released(u).state = u.state
      BY AnsweredKeeps DEF Released
  <2>6. CASE PipeGets
    <3>1. s.got # <<>>
        BY <1>1, <2>6 DEF PipeGets
    <3>2. src' = t \/ src' = Released(t)
        BY <1>1, <2>1, <2>6 DEF PipeGets, PipeFails
    <3> QED BY <2>2, <2>5, <3>1, <3>2
  <2>7. CASE PipeReads \/ PipeWritten \/ PipeClosed
      BY <1>1, <2>4, <2>5, <2>7 DEF PipeReads, PipeWritten, PipeClosed, PipeFails
  <2> QED BY <1>4, <2>6, <2>7 DEF Pipe
<1>5. CASE Script \/ Transform \/ Consumer
    BY <1>5 DEF Script, ScriptWrites, ScriptCloses, ScriptAborts,
         Transform, TransformStarts, CloseEnds, TransformBegins, TransformEnqueues,
         TransformThrows, TransformEnds, CloseBegins, Consumer, ConsumerReads, ConsumerCancels
<1> QED BY <1>3, <1>4, <1>5 DEF Next

(* Every step does one of these to the writable side.                       *)
SinkMoves ==
    \/ /\ sink'.queue = sink.queue /\ sink'.last = sink.last
       /\ sink'.before = sink.before /\ sink'.close = sink.close
    \/ /\ \/ ScriptWrites /\ sent + 1 \in Chunk /\ sink'.queue = Append(sink.queue, sent + 1)
          \/ /\ PipeGets /\ pipe' = "writing" /\ Has(src.got) /\ src' = [src EXCEPT !.got = Tail(@)]
             /\ sink'.queue = Append(sink.queue, Head(src.got))
       /\ sink'.last = sink.last /\ sink'.before = sink.before /\ sink'.close = sink.close
    \/ /\ ScriptCloses \/ (PipeGets /\ pipe' = "closing" /\ Head(src.got) = End)
       /\ sink'.queue = sink.queue /\ sink'.last = sink.last
       /\ sink'.before = Len(sink.queue) /\ sink'.close = "called"
    \/ /\ sink.queue # <<>> /\ sink'.queue = Tail(sink.queue)
       /\ sink'.before = (IF sink.before > 0 THEN sink.before - 1 ELSE 0)
       /\ sink'.close = sink.close
       /\ \/ TransformEnqueues /\ CanEnqueue(out) /\ sink'.last = "done"
          \/ /\ ~CanEnqueue(out) \/ broken' # {}
             /\ sink'.last = "failed" /\ out' = out
             /\ TransformEnqueues \/ TransformThrows \/ TransformBegins
    \/ /\ CloseBegins \/ \E ok \in BOOLEAN : CloseEnds(ok)
       /\ sink.close \in {"called", "running"} /\ sink.before = 0
       /\ sink'.queue = sink.queue /\ sink'.last = sink.last /\ sink'.before = sink.before
       /\ sink'.close # "none" /\ (sink'.close = "failed" => broken' # {})

LEMMA SinkSteps == Basics /\ Next => SinkMoves
<1> SUFFICES ASSUME Basics, Next PROVE SinkMoves
    OBVIOUS
<1>0. PICK w \in WritableType(Chunk) : w = sink
    BY DEF Basics, SinkOK
<1>00. /\ w.queue \in Seq(Chunk) /\ w.before \in Nat /\ w.close \in {"none", "called", "running", "done", "failed"}
       /\ w.before > 0 => w.close = "called"
       /\ w.running => w.queue # <<>>
       /\ w.start = "failed" => broken # {}
    BY <1>0, WritableFields DEF Basics, SinkOK
<1>1. ASSUME sink' = sink PROVE SinkMoves
    BY <1>1 DEF SinkMoves
<1>2. ASSUME sink' = WritableErrored(sink) PROVE SinkMoves
  <2>1. SameWrites(WritableErrored(w), w)
      BY WritableErroredIs
  <2> QED BY <1>0, <1>2, <2>1 DEF SinkMoves, SameWrites
<1>3. CASE Source \/ Consumer
    BY <1>1, <1>3 DEF Source, SourceStarts, PullIsCalled, SourceEnqueues, SourceCloses, SourceFails,
        PullSettles, Consumer, ConsumerReads, ConsumerCancels
<1>4. CASE PipeReads \/ PipeWritten \/ PipeClosed
    BY <1>1, <1>2, <1>4 DEF PipeReads, PipeWritten, PipeClosed, PipeFails
<1>5. CASE PipeGets
  <2>1. CASE sink' = sink \/ sink' = WritableErrored(sink)
      BY <1>1, <1>2, <2>1
  <2>2. CASE /\ Head(src.got) \in Chunk /\ sink' = Written(sink, Head(src.got))
             /\ pipe' = "writing" /\ src' = [src EXCEPT !.got = Tail(@)]
    <3>1. PICK c \in Chunk : c = Head(src.got)
        BY <2>2
    <3>2. PICK u : u = Written(w, c)
        OBVIOUS
    <3>3. /\ u.queue = Append(w.queue, c) /\ u.last = w.last /\ u.before = w.before /\ u.close = w.close
        BY <3>2, WrittenIs
    <3>4. Has(src.got)
        BY <1>5, <2>2 DEF Has, PipeGets
    <3>5. sink' = u /\ sink'.queue = Append(sink.queue, Head(src.got))
        BY <1>0, <2>2, <3>1, <3>2, <3>3
    <3> QED BY <1>0, <1>5, <2>2, <3>3, <3>4, <3>5 DEF SinkMoves
  <2>3. CASE Head(src.got) = End /\ sink' = CloseCalled(sink) /\ pipe' = "closing"
    <3>1. PICK u : u = CloseCalled(w)
        OBVIOUS
    <3>2. u.queue = w.queue /\ u.last = w.last /\ u.before = Len(w.queue) /\ u.close = "called"
        BY <3>1, CloseCalledIs
    <3> QED BY <1>0, <1>5, <2>3, <3>1, <3>2 DEF SinkMoves
  <2> QED BY <1>5, <2>1, <2>2, <2>3 DEF PipeGets, PipeFails
<1>6. CASE ScriptWrites
  <2>1. sent \in 0..NumChunks
      BY DEF Basics, Shape
  <2>2. PICK c \in Chunk : c = sent + 1
      BY <1>6, <2>1, PipeAssumption DEF ScriptWrites, Chunk
  <2>3. PICK u : u = Written(w, c)
      OBVIOUS
  <2>4. /\ u.queue = Append(w.queue, c) /\ u.last = w.last /\ u.before = w.before /\ u.close = w.close
      BY <2>3, WrittenIs
  <2>5. sink' = u
      BY <1>0, <1>6, <2>2, <2>3 DEF ScriptWrites
  <2> QED BY <1>0, <1>6, <2>2, <2>4, <2>5 DEF SinkMoves
<1>7. CASE ScriptCloses
  <2>1. PICK u : u = CloseCalled(w)
      OBVIOUS
  <2>2. u.queue = w.queue /\ u.last = w.last /\ u.before = Len(w.queue) /\ u.close = "called"
      BY <2>1, CloseCalledIs
  <2> QED BY <1>0, <1>7, <2>1, <2>2 DEF SinkMoves, ScriptCloses
<1>8. CASE ScriptAborts
    BY <1>2, <1>8 DEF ScriptAborts
<1>9. CASE \E ok \in BOOLEAN : TransformStarts(ok)
  <2>1. PICK ok \in BOOLEAN : TransformStarts(ok)
      BY <1>9
  <2>2. SameWrites(SinkStarted(w, ok), w)
      BY SinkStartedIs
  <2> QED BY <1>0, <2>1, <2>2 DEF SinkMoves, SameWrites, TransformStarts
<1>10. ASSUME NEW how \in {"done", "failed"}, w.queue # <<>>, sink' = WriteSettled(sink, how)
       PROVE  /\ sink.queue # <<>> /\ sink'.queue = Tail(sink.queue)
              /\ sink'.before = (IF sink.before > 0 THEN sink.before - 1 ELSE 0)
              /\ sink'.close = sink.close /\ sink'.last = how
  <2>1. PICK u : u = WriteSettled(w, how)
      OBVIOUS
  <2>2. /\ u.queue = Tail(w.queue) /\ u.last = how
        /\ u.before = (IF w.before > 0 THEN w.before - 1 ELSE 0) /\ u.close = w.close
      BY <1>10, <2>1, SettledIs
  <2> QED BY <1>0, <1>10, <2>1, <2>2
<1>11. CASE TransformBegins
  <2>1. CASE sink.start = "failed"
    <3>1. w.queue # <<>> /\ sink' = WriteSettled(sink, "failed") /\ out' = out /\ broken' # {}
        BY <1>0, <1>00, <1>11, <2>1 DEF TransformBegins, TurnComes
    <3> QED BY <1>10, <1>11, <3>1 DEF SinkMoves
  <2>2. CASE sink.start # "failed"
    <3>1. PICK u : u = [w EXCEPT !.running = TRUE]
        OBVIOUS
    <3>2. sink' = u /\ ~sink.running
        BY <1>0, <1>11, <2>2, <3>1 DEF TransformBegins, TurnComes
    <3>3. /\ u.queue = w.queue /\ u.before = w.before /\ u.close = w.close /\ u.last = w.last
        BY <3>1 DEF WritableType
    <3> QED BY <1>0, <3>2, <3>3 DEF SinkMoves
  <2> QED BY <2>1, <2>2
<1>12. CASE TransformEnqueues
  <2>1. w.queue # <<>>
      BY <1>0, <1>00, <1>12 DEF TransformEnqueues
  <2>2. CASE CanEnqueue(out)
      BY <1>10, <1>12, <2>1, <2>2 DEF SinkMoves, TransformEnqueues
  <2>3. CASE ~CanEnqueue(out)
      BY <1>10, <1>12, <2>1, <2>3 DEF SinkMoves, TransformEnqueues
  <2> QED BY <2>2, <2>3
<1>13. CASE TransformThrows
  <2>1. w.queue # <<>> /\ broken' # {} /\ out' = out /\ sink' = WriteSettled(sink, "failed")
      BY <1>0, <1>00, <1>13 DEF TransformThrows
  <2> QED BY <1>10, <1>13, <2>1 DEF SinkMoves
<1>14. CASE TransformEnds
    BY <1>1, <1>14 DEF TransformEnds
<1>15. CASE CloseBegins
  <2>1. PICK u : u = [w EXCEPT !.close = "running"]
      OBVIOUS
  <2>2. sink' = u /\ w.close = "called" /\ w.before = 0
      BY <1>0, <1>15, <2>1 DEF CloseBegins
  <2>3. /\ u.queue = w.queue /\ u.before = w.before /\ u.close = "running" /\ u.last = w.last
      BY <2>1 DEF WritableType
  <2> QED BY <1>0, <1>15, <2>2, <2>3 DEF SinkMoves
<1>16. CASE \E ok \in BOOLEAN : CloseEnds(ok)
  <2>1. PICK ok \in BOOLEAN : CloseEnds(ok)
      BY <1>16
  <2>2. PICK how \in {"done", "failed"} : how = IF ok THEN "done" ELSE "failed"
      OBVIOUS
  <2>3. PICK u : u = CloseSettled(w, how)
      OBVIOUS
  <2>4. u.queue = w.queue /\ u.last = w.last /\ u.before = w.before /\ u.close = how
      BY <2>3, CloseSettledIs
  <2>5. sink' = u /\ w.close = "running" /\ (how = "failed" => broken' # {})
      BY <1>0, <2>1, <2>2, <2>3 DEF CloseEnds
  <2>6. w.before = 0
      BY <1>00, <2>5
  <2> QED BY <1>0, <1>16, <2>4, <2>5, <2>6 DEF SinkMoves
<1> QED BY <1>3, <1>4, <1>5, <1>6, <1>7, <1>8, <1>9, <1>11, <1>12, <1>13, <1>14, <1>15, <1>16
        DEF Next, Pipe, Script, Transform

(* How the pipe goes on.                                                    *)
LEMMA PipeSteps ==
    Next => \/ pipe' = pipe
            \/ pipe = "ready" /\ pipe' \in {"reading", "failed"}
            \/ pipe = "reading" /\ pipe' \in {"writing", "closing", "done", "failed"}
            \/ pipe = "writing" /\ sink.queue = <<>> /\ pipe' \in {"ready", "failed"}
            \/ pipe = "closing" /\ pipe' \in {"done", "failed"}
  BY DEF Next, Source, SourceStarts, PullIsCalled, SourceEnqueues, SourceCloses, SourceFails,
         PullSettles, Pipe, PipeReads, PipeGets, PipeWritten, PipeClosed, PipeFails,
         Script, ScriptWrites, ScriptCloses, ScriptAborts,
         Transform, TransformStarts, CloseEnds, TransformBegins, TransformEnqueues,
         TransformThrows, TransformEnds, CloseBegins, Consumer, ConsumerReads, ConsumerCancels

LEMMA PipedWrites ==
    ASSUME Basics, PipedOK, Piped, Next
    PROVE  WriteOK'
<1>1. /\ sink.queue # <<>> => pipe = "writing" /\ Len(sink.queue) = 1
      /\ sink.close # "none" => pipe \in {"closing", "done", "failed"} /\ src.state = "closed"
    BY DEF PipedOK, WriteOK
<1>2. SinkMoves
    BY SinkSteps
<1>3. src.state = "closed" => src'.state = "closed"
    BY ClosedStays
<1>4. sink.queue # <<>> => pipe' = "writing"
    BY <1>1, PipeSteps
<1>5. sink.close # "none" => pipe' \in {"closing", "done", "failed"} /\ src'.state = "closed"
    BY <1>1, <1>3, PipeSteps
<1>6. CASE sink'.queue = sink.queue /\ sink'.close = sink.close
    BY <1>1, <1>4, <1>5, <1>6 DEF WriteOK
<1>7. CASE ScriptWrites \/ ScriptCloses
    BY <1>7 DEF ScriptWrites, ScriptCloses
<1>8. CASE /\ PipeGets /\ pipe' = "writing" /\ Has(src.got)
           /\ sink'.queue = Append(sink.queue, Head(src.got)) /\ sink'.close = sink.close
  <2>1. pipe = "reading"
      BY <1>8 DEF PipeGets
  <2>2. sink.queue = <<>> /\ sink.close = "none"
      BY <1>1, <2>1
  <2>3. PICK c \in Chunk : c = Head(src.got)
      BY <1>8 DEF Has
  <2>4. Len(Append(<<>>, c)) = 1
      OBVIOUS
  <2> QED BY <1>8, <2>2, <2>3, <2>4 DEF WriteOK
<1>9. CASE /\ PipeGets /\ pipe' = "closing" /\ Head(src.got) = End
           /\ sink'.queue = sink.queue /\ sink'.close = "called"
  <2>1. pipe = "reading" /\ src.got # <<>>
      BY <1>9 DEF PipeGets
  <2>2. src.got \in Seq(Answer)
      BY PassedType DEF Basics
  <2>3. 1 \in DOMAIN src.got /\ src.got[1] = End
      BY <1>9, <2>1, <2>2
  <2>4. src.state = "closed"
      BY <2>3 DEF Basics, StreamOK
  <2> QED BY <1>1, <1>3, <1>9, <2>1, <2>4 DEF WriteOK
<1>10. CASE /\ sink.queue # <<>> /\ sink'.queue = Tail(sink.queue) /\ sink'.close = sink.close
  <2>1. sink.queue \in Seq(Chunk)
      BY WritableFields DEF Basics, SinkOK
  <2>2. Len(Tail(sink.queue)) = 0 /\ Tail(sink.queue) \in Seq(Chunk)
      BY <1>1, <1>10, <2>1
  <2>3. sink'.queue = <<>>
    <3>1. PICK v \in Seq(Chunk) : v = Tail(sink.queue)
        BY <2>2
    <3>2. v = <<>>
        BY <2>2, <3>1
    <3> QED BY <1>10, <3>1, <3>2
  <2> QED BY <1>5, <1>10, <2>3 DEF WriteOK
<1>11. CASE sink'.queue = sink.queue /\ sink.close \in {"called", "running"}
    BY <1>1, <1>4, <1>5, <1>11 DEF WriteOK
<1> QED BY <1>2, <1>6, <1>7, <1>8, <1>9, <1>10, <1>11 DEF SinkMoves

LEMMA ExtendsHas ==
    ASSUME NEW g \in Seq(Answer), NEW h \in Seq(Answer), NEW a \in {End, Failed}, Extends(h, g, a)
    PROVE  (Has(h) <=> Has(g)) /\ (Has(g) => Head(h) = Head(g))
<1>1. CASE g # <<>>
  <2>1. 1 \in DOMAIN g /\ Head(g) = g[1]
      BY <1>1
  <2>2. 1 \in DOMAIN h /\ h[1] = g[1]
      BY <2>1 DEF Extends
  <2>3. h # <<>> /\ Head(h) = h[1]
      BY <2>2
  <2> QED BY <1>1, <2>1, <2>2, <2>3 DEF Has
<1>2. CASE g = <<>>
  <2>1. h # <<>> => Head(h) = a
    <3>1. ASSUME h # <<>> PROVE Head(h) = a
      <4>1. 1 \in DOMAIN h /\ Head(h) = h[1] /\ 1 \notin DOMAIN g
          BY <1>2, <3>1
      <4> QED BY <4>1 DEF Extends
    <3> QED BY <3>1
  <2> QED BY <1>2, <2>1, ChunksAreNumbers DEF Has
<1> QED BY <1>1, <1>2

LEMMA PipedFlow ==
    ASSUME Basics, PipedOK, Piped, Piped', Next, Basics'
    PROVE  FlowOK'
<1> SUFFICES ASSUME Flowing'
             PROVE  Flow(src.got, src.queue, src.state, sink.queue, Passed(out), sent)'
    BY DEF FlowOK, Through
<1>1. PICK g \in Seq(Answer), q \in Seq(Chunk) : g = src.got /\ q = src.queue
    BY PassedType DEF Basics
<1>2. PICK w \in Seq(Chunk) : w = sink.queue
    BY WritableFields DEF Basics, SinkOK
<1>3. PICK n \in Nat : n = Passed(out)
    BY PassedType DEF Basics
<1>4. PICK m \in Nat : m = sent
    BY PipeAssumption DEF Basics, Shape
<1>5. PICK st : st = src.state
    OBVIOUS
<1>6. PICK h \in Seq(Answer), r \in Seq(Chunk) : h = src'.got /\ r = src'.queue
    BY PassedType DEF Basics
<1>7. ASSUME Flowing PROVE Flow(g, q, st, w, n, m)
    BY <1>1, <1>2, <1>3, <1>4, <1>5, <1>7 DEF PipedOK, FlowOK, Through
<1>8. /\ w # <<>> => pipe = "writing" /\ Len(w) = 1
      /\ sink.close # "none" => pipe \in {"closing", "done", "failed"}
    BY <1>2 DEF PipedOK, WriteOK
<1>9. /\ pipe # "reading" => g = <<>>
      /\ pipe' # "reading" => h = <<>>
      /\ Len(h) <= 1
  <2>1. src.reads \in Nat /\ src'.reads \in Nat
      BY ReadableFields DEF Basics, StreamOK
  <2>2. /\ src.reads + Len(g) = IF pipe = "reading" THEN 1 ELSE 0
        /\ src'.reads + Len(h) = IF pipe' = "reading" THEN 1 ELSE 0
      BY <1>1, <1>6 DEF Basics, ReaderOK
  <2>3. Len(g) \in Nat /\ Len(h) \in Nat
      OBVIOUS
  <2>4. (pipe # "reading" => Len(g) = 0) /\ (pipe' # "reading" => Len(h) = 0) /\ Len(h) <= 1
      BY <2>1, <2>2, <2>3
  <2> QED BY <2>4
<1>10. CASE Source
  <2>1. sink' = sink /\ out' = out /\ pipe' = pipe
      BY <1>10 DEF Source, SourceStarts, PullIsCalled, SourceEnqueues, SourceCloses, SourceFails, PullSettles
  <2>2. Flow(g, q, st, w, n, m)
      BY <1>7, <2>1 DEF Flowing
  <2>3. CASE Stays(src', src) /\ sent' = sent
      BY <1>1, <1>2, <1>3, <1>4, <1>5, <2>1, <2>2, <2>3 DEF Stays
  <2>4. CASE /\ CanEnqueue(src) /\ sent + 1 \in Chunk /\ sent' = sent + 1
             /\ Takes(src', src, sent + 1) /\ src'.state # "errored"
    <3>1. st # "errored" /\ m + 1 \in Chunk /\ sent' = m + 1
        BY <1>4, <1>5, <2>4 DEF CanEnqueue
    <3>2. PICK c \in Chunk : c = m + 1
        BY <3>1
    <3>3. CASE h = g /\ r = Append(q, c)
      <4>1. Flow(h, r, st, w, n, m + 1)
          BY <2>2, <3>1, <3>2, <3>3, FlowMade
      <4>2. Flow(h, r, src'.state, w, n, m + 1)
          BY <2>4, <3>1, <4>1 DEF Flow
      <4> QED BY <1>2, <1>3, <1>6, <2>1, <3>1, <4>2
    <3>4. CASE q = <<>> /\ r = <<>> /\ h = Append(g, c)
      <4>1. Len(h) = Len(g) + 1 /\ Len(g) \in Nat
          BY <3>4
      <4>2. Len(g) = 0
          BY <1>9, <4>1
      <4>3. g = <<>> /\ pipe' = "reading"
        <5>1. h # <<>>
            BY <3>4
        <5> QED BY <1>9, <4>2, <5>1
      <4>4. w = <<>>
          BY <1>8, <2>1, <4>3
      <4>5. Flow(h, r, st, w, n, m + 1)
          BY <2>2, <3>1, <3>2, <3>4, <4>3, <4>4, FlowMade
      <4>6. Flow(h, r, src'.state, w, n, m + 1)
          BY <2>4, <3>1, <4>5 DEF Flow
      <4> QED BY <1>2, <1>3, <1>6, <2>1, <3>1, <4>6
    <3> QED BY <1>1, <1>4, <1>6, <2>4, <3>2, <3>3, <3>4 DEF Takes
  <2>5. CASE /\ src.state = "readable" /\ Ends(src', src) /\ sent' = sent
             /\ \/ src'.state = "errored" /\ src'.queue = <<>>
                \/ src'.state # "errored" /\ src'.queue = src.queue
    <3>1. PICK a \in {End, Failed} : Extends(h, g, a)
        BY <1>1, <1>6, <2>5 DEF Ends
    <3>2. (Has(h) <=> Has(g)) /\ (Has(g) => Head(h) = Head(g))
        BY <3>1, ExtendsHas
    <3>3. st # "errored"
        BY <1>5, <2>5
    <3>4. CASE src'.state = "errored" /\ r = <<>>
      <4>1. Flow(h, <<>>, "errored", w, n, m)
          BY <2>2, <3>2, FlowEnds
      <4> QED BY <1>2, <1>3, <1>4, <1>6, <2>1, <2>5, <3>4, <4>1
    <3>5. CASE src'.state # "errored" /\ r = q
      <4>1. InHand(h, w) = InHand(g, w)
          BY <3>2 DEF InHand
      <4>2. Flow(h, q, src'.state, w, n, m)
          BY <2>2, <3>2, <3>3, <4>1 DEF Flow
      <4> QED BY <1>2, <1>3, <1>4, <1>6, <2>1, <2>5, <3>5, <4>2
    <3> QED BY <1>1, <1>6, <2>5, <3>4, <3>5
  <2> QED BY <1>10, <2>3, <2>4, <2>5, SourceSteps DEF SourceMoves
<1>11. CASE PipeReads
  <2>1. pipe = "ready" /\ pipe' = "reading" /\ src' = ReadMade(src) /\ sink' = sink /\ out' = out
        /\ sent' = sent
      BY <1>11 DEF PipeReads, PipeFails, Flowing
  <2>2. Flow(g, q, st, w, n, m) /\ w = <<>> /\ g = <<>>
      BY <1>7, <1>8, <1>9, <2>1 DEF Flowing
  <2>3. Gives(src', src)
      BY <2>1, ReadGives, ChunkIsSet DEF Basics
  <2>4. CASE q # <<>> /\ r = Tail(q) /\ h = Append(g, Head(q))
    <3>1. st # "errored"
        BY <1>1, <1>5, <2>4 DEF Basics, StreamOK
    <3>2. Flow(h, r, src'.state, w, n, m)
        BY <2>2, <2>4, <3>1, FlowRead
    <3> QED BY <1>2, <1>3, <1>4, <1>6, <2>1, <3>2
  <2>5. CASE src'.state = st /\ r = q /\ (h = g \/ \E a \in {End, Failed} : h = Append(g, a))
    <3>1. (Has(h) <=> Has(g)) /\ (Has(g) => Head(h) = Head(g))
      <4>1. CASE h = g
          BY <4>1
      <4>2. CASE \E a \in {End, Failed} : h = Append(g, a)
        <5>1. PICK a \in {End, Failed} : h = Append(g, a)
            BY <4>2
        <5>2. Head(h) = a
            BY <2>2, <5>1
        <5> QED BY <2>2, <5>2, ChunksAreNumbers DEF Has
      <4> QED BY <2>5, <4>1, <4>2
    <3>2. InHand(h, w) = InHand(g, w)
        BY <3>1 DEF InHand
    <3>3. Flow(h, r, src'.state, w, n, m)
        BY <2>2, <2>5, <3>1, <3>2 DEF Flow
    <3> QED BY <1>2, <1>3, <1>4, <1>6, <2>1, <3>3
  <2> QED BY <1>1, <1>5, <1>6, <2>3, <2>4, <2>5 DEF Gives
<1>12. CASE PipeGets
  <2>1. /\ pipe = "reading" /\ pipe' = "writing" /\ Head(src.got) \in Chunk /\ src.got # <<>>
        /\ sink' = Written(sink, Head(src.got)) /\ src' = [src EXCEPT !.got = Tail(@)]
        /\ out' = out /\ sent' = sent
      BY <1>12 DEF PipeGets, PipeFails, Flowing
  <2>2. Flow(g, q, st, w, n, m) /\ w = <<>>
      BY <1>7, <1>8, <2>1 DEF Flowing
  <2>3. PICK c \in Chunk : c = Head(g)
      BY <1>1, <2>1
  <2>4. Has(g)
      BY <1>1, <2>1 DEF Has
  <2>5. sink'.queue = Append(w, c)
    <3>1. PICK u \in WritableType(Chunk) : u = sink
        BY DEF Basics, SinkOK
    <3>2. Written(u, c).queue = Append(u.queue, c)
        BY WrittenIs
    <3> QED BY <1>1, <1>2, <2>1, <2>3, <3>1, <3>2
  <2>6. src'.queue = q /\ src'.state = st /\ h = <<>>
    <3>1. PICK s \in ReadableType(Chunk) : s = src
        BY DEF Basics, StreamOK
    <3>2. PICK t : t = [s EXCEPT !.got = Tail(@)]
        OBVIOUS
    <3>3. t.queue = s.queue /\ t.state = s.state
        BY <2>1, <3>1, <3>2, TakenIs
    <3> QED BY <1>1, <1>5, <1>9, <2>1, <3>1, <3>2, <3>3
  <2>7. Flow(h, q, st, Append(w, c), n, m)
      BY <2>2, <2>3, <2>4, <2>6, FlowWritten
  <2> QED BY <1>3, <1>4, <1>6, <2>1, <2>5, <2>6, <2>7
<1>13. CASE PipeWritten
  <2>1. UNCHANGED <<src, sink, out, sent>> /\ pipe = "writing" /\ sink.last = "done" /\ pipe' = "ready"
      BY <1>13 DEF PipeWritten, PipeFails, Flowing
  <2>2. Flow(g, q, st, w, n, m)
      BY <1>7, <2>1 DEF Flowing
  <2> QED BY <1>1, <1>2, <1>3, <1>4, <1>5, <2>1, <2>2
<1>14. CASE PipeClosed
    BY <1>14 DEF PipeClosed, PipeFails, Flowing
<1>15. CASE Script
    BY <1>15 DEF Script, ScriptWrites, ScriptCloses, ScriptAborts
<1>16. CASE TransformEnqueues
  <2>1. CanEnqueue(out)
      BY <1>16 DEF TransformEnqueues, Flowing
  <2>2. sink.queue # <<>>
      BY <1>16 DEF Basics, SinkOK, TransformEnqueues
  <2>3. Flow(g, q, st, w, n, m) /\ Len(w) = 1 /\ g = <<>> /\ Head(w) = n + 1
      BY <1>1, <1>2, <1>3, <1>4, <1>5, <2>1, <2>2, NextInHand
  <2>4. Flow(g, q, st, Tail(w), n + 1, m)
      BY <2>3, FlowTaken
  <2>5. sink'.queue = Tail(w)
    <3>1. PICK u \in WritableType(Chunk) : u = sink
        BY DEF Basics, SinkOK
    <3>2. WriteSettled(u, "done").queue = Tail(u.queue)
        BY <2>2, <3>1, SettledIs
    <3> QED BY <1>2, <1>16, <2>1, <3>1, <3>2 DEF TransformEnqueues
  <2>6. Passed(out') = n + 1
    <3>1. Head(w) \in Chunk
        BY <1>2, <2>2
    <3>2. PICK c \in Chunk : c = Head(w)
        BY <3>1
    <3>3. out' = Enqueued(out, c)
        BY <1>2, <1>16, <2>1, <3>2 DEF TransformEnqueues
    <3>4. Takes(out', out, c)
        BY <2>1, <3>3, EnqueuedTakes, ChunkIsSet DEF Basics
    <3>5. FrontOf(out) /\ StreamOK(out, Chunk) /\ StreamOK(out', Chunk)
        BY DEF Basics, PipedOK
    <3> QED BY <1>3, <2>3, <3>2, <3>4, <3>5, FrontTakes
  <2>7. src' = src /\ sent' = sent
      BY <1>16 DEF TransformEnqueues
  <2> QED BY <1>1, <1>4, <1>5, <2>4, <2>5, <2>6, <2>7
<1>17. CASE (Transform \/ Consumer) /\ ~TransformEnqueues /\ ~Pipe /\ ~Script
  <2>1. src' = src /\ sent' = sent /\ pipe' = pipe
      BY <1>17 DEF Transform, TransformStarts, CloseEnds, TransformBegins, TransformThrows,
         TransformEnds, CloseBegins, Consumer, ConsumerReads, ConsumerCancels
  <2>2. CanEnqueue(out) /\ Passed(out') = n
    <3>1. CASE out' = out
        BY <1>3, <3>1 DEF Flowing
    <3>2. CASE Gives(out', out)
        BY <1>3, <3>2, FrontGives DEF Basics, PipedOK, Flowing
    <3>3. CASE Ends(out', out)
        BY <3>3 DEF Ends, Flowing
    <3> QED BY <1>17, <3>1, <3>2, <3>3, OutSteps DEF OutMoves
  <2>3. sink'.queue = sink.queue /\ sink'.last = sink.last
    <3>1. CASE sink.queue # <<>> /\ sink'.queue = Tail(sink.queue) /\ sink'.last = "failed"
      <4>1. pipe = "writing" /\ Len(w) = 1
          BY <1>2, <1>8, <3>1
      <4>2. Len(Tail(w)) = 0 /\ Tail(w) \in Seq(Chunk)
          BY <1>2, <3>1, <4>1
      <4>3. sink'.queue = <<>>
        <5>1. PICK v \in Seq(Chunk) : v = Tail(w)
            BY <4>2
        <5>2. v = <<>>
            BY <4>2, <5>1
        <5> QED BY <1>2, <3>1, <5>1, <5>2
      <4> QED BY <2>1, <3>1, <4>1, <4>3 DEF Flowing
    <3> QED BY <1>17, <3>1, SinkSteps DEF SinkMoves, Pipe, Script
  <2>4. Flow(g, q, st, w, n, m)
      BY <1>7, <2>1, <2>2, <2>3 DEF Flowing
  <2> QED BY <1>1, <1>2, <1>4, <1>5, <2>1, <2>2, <2>3, <2>4
<1> QED BY <1>10, <1>11, <1>12, <1>13, <1>14, <1>15, <1>16, <1>17 DEF Next, Pipe

LEMMA PipedNext ==
    ASSUME Basics, PipedOK, [Next]_vars, Basics'
    PROVE  PipedOK'
<1>1. CASE UNCHANGED vars
    BY <1>1 DEF vars, PipedOK, WriteOK, FlowOK, Flowing, Through, Piped, FrontOf
<1>2. CASE Next
  <2> SUFFICES ASSUME Piped' PROVE PipedOK'
      BY DEF PipedOK
  <2>1. Piped
      BY <1>2, PipedStays
  <2> QED BY <1>2, <2>1, PipedFront, PipedWrites, PipedFlow DEF PipedOK
<1> QED BY <1>1, <1>2

-----------------------------------------------------------------------------
(* A script's writes.                                                       *)

LEMMA EnqueueTakes ==
    ASSUME Basics, TransformEnqueues, CanEnqueue(out)
    PROVE  /\ sink.queue # <<>> /\ Head(sink.queue) \in Chunk
           /\ Takes(out', out, Head(sink.queue)) /\ sink'.queue = Tail(sink.queue)
           /\ sink'.before = (IF sink.before > 0 THEN sink.before - 1 ELSE 0)
           /\ sink'.close = sink.close
           /\ UNCHANGED <<src, pipe, prevent, sent, promised, broken>>
<1>1. sink.queue # <<>> /\ sink.queue \in Seq(Chunk)
    BY WritableFields DEF Basics, SinkOK, TransformEnqueues
<1>2. Head(sink.queue) \in Chunk
    BY <1>1
<1>3. PICK c \in Chunk : c = Head(sink.queue)
    BY <1>2
<1>4. Takes(out', out, c)
    BY <1>3, EnqueuedTakes, ChunkIsSet DEF Basics, TransformEnqueues
<1>5. PICK u \in WritableType(Chunk) : u = sink
    BY DEF Basics, SinkOK
<1>6. /\ WriteSettled(u, "done").queue = Tail(u.queue)
      /\ WriteSettled(u, "done").before = (IF u.before > 0 THEN u.before - 1 ELSE 0)
      /\ WriteSettled(u, "done").close = u.close
    BY <1>1, <1>5, SettledIs
<1>7. sink' = WriteSettled(u, "done")
    BY <1>5 DEF TransformEnqueues
<1> QED BY <1>1, <1>2, <1>3, <1>4, <1>5, <1>6, <1>7 DEF TransformEnqueues

LEMMA WriteAppends ==
    ASSUME Basics, ScriptWrites
    PROVE  /\ sent + 1 \in Chunk /\ sent' = sent + 1 /\ out' = out
           /\ sink'.queue = Append(sink.queue, sent + 1)
<1>1. PICK c \in Chunk : c = sent + 1
  <2>1. sent \in 0..NumChunks
      BY DEF Basics, Shape
  <2>2. sent + 1 \in Chunk
      BY <2>1, PipeAssumption DEF ScriptWrites, Chunk
  <2> QED BY <2>2
<1>2. PICK u \in WritableType(Chunk) : u = sink
    BY DEF Basics, SinkOK
<1>3. Written(u, c).queue = Append(u.queue, c)
    BY WrittenIs
<1> QED BY <1>1, <1>2, <1>3 DEF ScriptWrites

LEMMA ScriptNext ==
    ASSUME Basics, ScriptOK, [Next]_vars, Basics'
    PROVE  ScriptOK'
<1>1. CASE UNCHANGED vars
    BY <1>1 DEF vars, ScriptOK, Piped
<1>2. CASE Next
  <2> SUFFICES ASSUME ~Piped' PROVE Line(out.got, out.queue, sink.queue, sent)'
      BY DEF ScriptOK
  <2>1. ~Piped
      BY <1>2, PipeSteps DEF Piped
  <2>2. PICK g \in Seq(Answer), q \in Seq(Chunk) : g = out.got /\ q = out.queue
      BY PassedType DEF Basics
  <2>3. PICK h \in Seq(Answer), r \in Seq(Chunk) : h = out'.got /\ r = out'.queue
      BY PassedType DEF Basics
  <2>4. PICK w \in Seq(Chunk) : w = sink.queue
      BY WritableFields DEF Basics, SinkOK
  <2>5. PICK m \in Nat : m = sent
      BY PipeAssumption DEF Basics, Shape
  <2>6. Line(g, q, w, m)
      BY <2>1, <2>2, <2>4, <2>5 DEF ScriptOK
  <2>7. CASE ScriptWrites
    <3>1. m + 1 \in Chunk /\ sent' = m + 1 /\ out' = out /\ sink'.queue = Append(w, m + 1)
        BY <2>4, <2>5, <2>7, WriteAppends
    <3>2. Line(g, q, Append(w, m + 1), m + 1)
        BY <2>6, <3>1, LineWritten
    <3> QED BY <2>2, <3>1, <3>2
  <2>8. CASE TransformEnqueues /\ CanEnqueue(out)
    <3>1. /\ w # <<>> /\ Head(w) \in Chunk /\ Takes(out', out, Head(w))
          /\ sink'.queue = Tail(w) /\ sent' = sent
        BY <2>4, <2>8, EnqueueTakes
    <3>2. Line(g, Append(q, Head(w)), Tail(w), m) /\ (q = <<>> => Line(Append(g, Head(w)), q, Tail(w), m))
        BY <2>6, <3>1, LineTaken
    <3>3. Line(h, r, Tail(w), m)
        BY <2>2, <2>3, <3>1, <3>2 DEF Takes
    <3> QED BY <2>3, <2>5, <3>1, <3>3
  <2>9. CASE ~ScriptWrites /\ ~(TransformEnqueues /\ CanEnqueue(out))
    <3>1. sent' = sent
        BY <1>2, <2>1, <2>9 DEF Next, Source, SourceStarts, PullIsCalled, SourceEnqueues, SourceCloses,
         SourceFails, SourceActs, PullSettles, Pipe, PipeReads, PipeGets, PipeWritten, PipeClosed,
         Script, ScriptCloses, ScriptAborts,
         Transform, TransformStarts, CloseEnds, TransformBegins, TransformEnqueues,
         TransformThrows, TransformEnds, CloseBegins, Consumer, ConsumerReads, ConsumerCancels
    <3>2. Line(h, r, w, m)
      <4>1. CASE out' = out
          BY <2>2, <2>3, <2>6, <4>1
      <4>2. CASE Ends(out', out)
        <5>1. PICK a \in {End, Failed} : Extends(h, g, a)
            BY <2>2, <2>3, <4>2 DEF Ends
        <5>2. Line(h, q, w, m) /\ Line(h, <<>>, w, m)
            BY <2>6, <5>1, LineEnds
        <5> QED BY <2>2, <2>3, <4>2, <5>2 DEF Ends
      <4>3. CASE Gives(out', out)
        <5>1. CASE q # <<>> /\ r = Tail(q) /\ h = Append(g, Head(q))
            BY <2>6, <5>1, LineRead
        <5>2. CASE r = q /\ h = g
            BY <2>6, <5>2
        <5>3. CASE r = q /\ \E a \in {End, Failed} : h = Append(g, a)
          <6>1. PICK a \in {End, Failed} : h = Append(g, a)
              BY <5>3
          <6>2. /\ DOMAIN h = 1..(Len(g) + 1) /\ h[Len(g) + 1] = a /\ \A i \in 1..Len(g) : h[i] = g[i]
                /\ DOMAIN g = 1..Len(g) /\ Len(g) \in Nat /\ Len(h) = Len(g) + 1
              BY <6>1
          <6>3. Extends(h, g, a)
              BY <6>2 DEF Extends
          <6> QED BY <2>6, <5>3, <6>3, LineEnds
        <5> QED BY <2>2, <2>3, <4>3, <5>1, <5>2, <5>3 DEF Gives
      <4> QED BY <1>2, <2>9, <4>1, <4>2, <4>3, OutSteps DEF OutMoves
    <3>3. CASE sink'.queue = sink.queue
        BY <2>3, <2>4, <2>5, <3>1, <3>2, <3>3
    <3>4. CASE sink.queue # <<>> /\ sink'.queue = Tail(sink.queue)
      <4>1. Line(h, r, Tail(w), m)
          BY <2>4, <3>2, <3>4, LineDropped
      <4> QED BY <2>3, <2>4, <2>5, <3>1, <3>4, <4>1
    <3>5. ~PipeGets
        BY <2>1 DEF PipeGets, Piped
    <3> QED BY <1>2, <2>9, <3>3, <3>4, <3>5, SinkSteps DEF SinkMoves
  <2> QED BY <2>7, <2>8, <2>9
<1> QED BY <1>1, <1>2

-----------------------------------------------------------------------------
(* What was made before the end was asked for arrives before it.            *)

LEMMA SetOfAppend ==
    ASSUME NEW S, NEW q \in Seq(S), NEW c \in S
    PROVE  ToSet(q) \cup {c} \subseteq ToSet(Append(q, c))
<1>1. PICK r : r = Append(q, c)
    OBVIOUS
<1>2. /\ DOMAIN r = 1..(Len(q) + 1) /\ r[Len(q) + 1] = c /\ \A i \in 1..Len(q) : r[i] = q[i]
      /\ DOMAIN q = 1..Len(q) /\ Len(q) \in Nat
    BY <1>1
<1>3. Len(q) + 1 \in DOMAIN r /\ \A i \in DOMAIN q : i \in DOMAIN r /\ r[i] = q[i]
    BY <1>2
<1> QED BY <1>1, <1>2, <1>3 DEF ToSet

LEMMA SetOfTail ==
    ASSUME NEW S, NEW q \in Seq(S), q # <<>>
    PROVE  ToSet(q) \subseteq ToSet(Tail(q)) \cup {Head(q)}
<1>1. PICK r : r = Tail(q)
    OBVIOUS
<1>2. /\ DOMAIN q = 1..Len(q) /\ Len(q) \in Nat /\ Head(q) = q[1]
      /\ DOMAIN r = 1..(Len(q) - 1) /\ \A i \in 1..(Len(q) - 1) : r[i] = q[i + 1]
    BY <1>1
<1>3. ASSUME NEW i \in DOMAIN q PROVE q[i] \in ToSet(r) \cup {Head(q)}
  <2>1. CASE i = 1
      BY <1>2, <2>1
  <2>2. CASE i # 1
    <3>1. i - 1 \in DOMAIN r /\ r[i - 1] = q[i]
        BY <1>2, <2>2
    <3> QED BY <3>1 DEF ToSet
  <2> QED BY <2>1, <2>2
<1> QED BY <1>1, <1>3 DEF ToSet

LEMMA FirstOfTail ==
    ASSUME NEW q \in Seq(Chunk), q # <<>>, NEW k \in Nat, k <= Len(q)
    PROVE  First(q, k) \subseteq First(Tail(q), IF k > 0 THEN k - 1 ELSE 0) \cup {Head(q)}
<1>1. PICK r : r = Tail(q)
    OBVIOUS
<1>2. /\ Len(q) \in Nat /\ Head(q) = q[1] /\ \A i \in 1..(Len(q) - 1) : r[i] = q[i + 1]
    BY <1>1
<1>3. ASSUME NEW i \in 1..k PROVE q[i] \in First(r, IF k > 0 THEN k - 1 ELSE 0) \cup {Head(q)}
  <2>1. CASE i = 1
      BY <1>2, <2>1
  <2>2. CASE i # 1
    <3>1. i - 1 \in 1..(k - 1) /\ r[i - 1] = q[i] /\ k > 0
        BY <1>2, <2>2
    <3> QED BY <3>1 DEF First
  <2> QED BY <2>1, <2>2
<1> QED BY <1>1, <1>3 DEF First

LEMMA FirstOfAppend ==
    ASSUME NEW q \in Seq(Chunk), NEW c \in Chunk, NEW k \in Nat, k <= Len(q)
    PROVE  First(q, k) \subseteq First(Append(q, c), k)
<1>1. \A i \in 1..k : Append(q, c)[i] = q[i]
    OBVIOUS
<1> QED BY <1>1 DEF First

LEMMA FirstOfAll ==
    ASSUME NEW q \in Seq(Chunk)
    PROVE  ToSet(q) = First(q, Len(q))
  BY DEF ToSet, First

LEMMA ArrivedTakes ==
    ASSUME NEW s, NEW t, StreamOK(s, Chunk), NEW c \in Chunk, Takes(t, s, c)
    PROVE  ArrivedOf(s) \cup {c} \subseteq ArrivedOf(t)
<1>1. PICK g \in Seq(Answer), q \in Seq(Chunk) : g = s.got /\ q = s.queue
    BY PassedType
<1>2. c \in Answer
    BY DEF Answer
<1>3. ToSet(g) \cup {c} \subseteq ToSet(Append(g, c)) /\ ToSet(q) \cup {c} \subseteq ToSet(Append(q, c))
    BY <1>2, SetOfAppend
<1>4. CASE s.queue = <<>> /\ t.queue = <<>> /\ t.got = Append(s.got, c)
    BY <1>1, <1>3, <1>4 DEF ArrivedOf
<1>5. CASE t.got = s.got /\ t.queue = Append(s.queue, c)
    BY <1>1, <1>3, <1>5 DEF ArrivedOf
<1> QED BY <1>4, <1>5 DEF Takes

LEMMA ArrivedEnds ==
    ASSUME NEW s, NEW t, Ends(t, s), t.queue = s.queue
    PROVE  ArrivedOf(s) \subseteq ArrivedOf(t)
<1>1. PICK a : Extends(t.got, s.got, a)
    BY DEF Ends
<1>2. ToSet(s.got) \subseteq ToSet(t.got)
    BY <1>1 DEF Extends, ToSet
<1> QED BY <1>2 DEF ArrivedOf

LEMMA ArrivedGives ==
    ASSUME NEW s, NEW t, StreamOK(s, Chunk), Gives(t, s)
    PROVE  ArrivedOf(s) \subseteq ArrivedOf(t)
<1>1. PICK g \in Seq(Answer), q \in Seq(Chunk) : g = s.got /\ q = s.queue
    BY PassedType
<1>2. CASE q # <<>> /\ t.queue = Tail(q) /\ t.got = Append(g, Head(q))
  <2>1. Head(q) \in Chunk
      BY <1>2
  <2>2. PICK c \in Answer : c = Head(q)
      BY <2>1 DEF Answer
  <2>3. ToSet(g) \cup {c} \subseteq ToSet(Append(g, c))
      BY SetOfAppend
  <2>4. ToSet(q) \subseteq ToSet(Tail(q)) \cup {c}
      BY <1>2, <2>2, SetOfTail
  <2> QED BY <1>1, <1>2, <2>2, <2>3, <2>4 DEF ArrivedOf
<1>3. CASE t.queue = q /\ \E a \in {End, Failed} : t.got = Append(g, a)
  <2>1. PICK a \in Answer : t.got = Append(g, a)
      BY <1>3 DEF Answer
  <2>2. ToSet(g) \subseteq ToSet(Append(g, a))
      BY SetOfAppend
  <2> QED BY <1>1, <1>3, <2>1, <2>2 DEF ArrivedOf
<1>4. CASE t.queue = q /\ t.got = g
    BY <1>1, <1>4 DEF ArrivedOf
<1> QED BY <1>1, <1>2, <1>3, <1>4 DEF Gives

(* With every chunk in its place, all that passed have arrived.             *)
LEMMA FrontArrived ==
    ASSUME NEW s, StreamOK(s, Chunk), CanEnqueue(s), FrontOf(s)
    PROVE  1..Passed(s) \subseteq ArrivedOf(s)
<1>1. PICK g \in Seq(Answer), q \in Seq(Chunk) : g = s.got /\ q = s.queue
    BY PassedType
<1>2. Len(g) \in Nat /\ Len(q) \in Nat /\ DOMAIN g = 1..Len(g) /\ DOMAIN q = 1..Len(q)
    OBVIOUS
<1>3. Passed(s) = Len(g) + Len(q)
    BY <1>1 DEF Passed
<1>4. \A i \in DOMAIN g : g[i] \in Chunk
  <2>1. \A i \in DOMAIN g : g[i] # End /\ g[i] # Failed
      BY <1>1 DEF StreamOK, CanEnqueue
  <2>2. \A i \in DOMAIN g : g[i] \in Answer
      OBVIOUS
  <2> QED BY <2>1, <2>2 DEF Answer
<1>5. \A i \in DOMAIN g : g[i] = i
    BY <1>1, <1>4 DEF FrontOf, Numbered
<1>6. \A i \in DOMAIN q : q[i] = Len(g) + i
    BY <1>1 DEF FrontOf, Behind
<1>7. ASSUME NEW x \in 1..(Len(g) + Len(q)) PROVE x \in ToSet(g) \cup ToSet(q)
  <2>1. CASE x <= Len(g)
    <3>1. x \in DOMAIN g
        BY <1>2, <2>1
    <3> QED BY <1>5, <3>1 DEF ToSet
  <2>2. CASE ~(x <= Len(g))
    <3>1. x - Len(g) \in DOMAIN q
        BY <1>2, <2>2
    <3>2. q[x - Len(g)] = x
      <4>1. q[x - Len(g)] = Len(g) + (x - Len(g))
          BY <1>6, <3>1
      <4> QED BY <1>2, <4>1
    <3> QED BY <3>1, <3>2 DEF ToSet
  <2> QED BY <2>1, <2>2
<1> QED BY <1>1, <1>3, <1>7 DEF ArrivedOf

LEMMA BrokenStays == Next => broken \subseteq broken'
  BY DEF Next, Source, SourceStarts, PullIsCalled, SourceEnqueues, SourceCloses, SourceFails,
         PullSettles, Pipe, PipeReads, PipeGets, PipeWritten, PipeClosed, PipeFails,
         Script, ScriptWrites, ScriptCloses, ScriptAborts,
         Transform, TransformStarts, CloseEnds, TransformBegins, TransformEnqueues,
         TransformThrows, TransformEnds, CloseBegins, Consumer, ConsumerReads, ConsumerCancels

(* What has ended in error stays so.                                        *)
LEMMA ErroredStays == Basics /\ Next /\ out'.state # "errored" => out.state # "errored"
<1> SUFFICES ASSUME Basics, Next, out.state = "errored" PROVE out'.state = "errored"
    OBVIOUS
<1>1. out.queue = <<>>
    BY DEF Basics, StreamOK
<1>2. CASE Gives(out', out)
    BY <1>1, <1>2 DEF Gives
<1>3. CASE out' = out
    BY <1>3
<1>4. ~CanEnqueue(out)
    BY DEF CanEnqueue
<1> QED BY <1>2, <1>3, <1>4, OutSteps DEF OutMoves

(* A close that was made stays made.                                        *)
LEMMA DoneStays ==
    ASSUME Basics, PipedOK, Next, sink.close = "done"
    PROVE  sink'.close = "done"
<1>1. ~ScriptCloses
    BY DEF ScriptCloses
<1>2. ~PipeGets
    BY DEF PipeGets, PipedOK, Piped, WriteOK
<1> QED BY <1>1, <1>2, SinkSteps DEF SinkMoves

(* A stream that nothing broke is ended by the sink's close alone.          *)
LEMMA EndTurnNext ==
    ASSUME Basics, PipedOK, EndInTurn, Next, broken' = {}, out'.state # "errored"
    PROVE  EndInTurn'
<1>1. sink.close = "done" => sink'.close = "done"
    BY DoneStays
<1>2. CASE out' = out
    BY <1>1, <1>2 DEF EndInTurn
<1>3. CASE Takes(out', out, Head(sink.queue))
    BY <1>3 DEF Takes, CanEnqueue, EndInTurn
<1>4. CASE sink'.close = "done"
    BY <1>4 DEF EndInTurn
<1>5. CASE Gives(out', out)
    BY <1>1, <1>5 DEF Gives, EndInTurn
<1> QED BY <1>2, <1>3, <1>4, <1>5, OutSteps DEF OutMoves

LEMMA ArrivedStays ==
    ASSUME Basics, Next, broken' = {}, out'.state # "errored"
    PROVE  ArrivedOf(out) \subseteq ArrivedOf(out')
<1>0. StreamOK(out, Chunk)
    BY DEF Basics
<1>1. CASE out' = out
    BY <1>1
<1>2. CASE Head(sink.queue) \in Chunk /\ Takes(out', out, Head(sink.queue))
  <2>1. PICK c \in Chunk : c = Head(sink.queue)
      BY <1>2
  <2> QED BY <1>0, <1>2, <2>1, ArrivedTakes
<1>3. CASE Ends(out', out) /\ out'.queue = out.queue
    BY <1>3, ArrivedEnds
<1>4. CASE Gives(out', out)
    BY <1>0, <1>4, ArrivedGives
<1> QED BY <1>1, <1>2, <1>3, <1>4, OutSteps DEF OutMoves

(* A write fails only where something broke the stream or the end is told.  *)
LEMMA FailsAfterEnd ==
    ASSUME Basics, EndInTurn, out.state # "errored", ~CanEnqueue(out)
    PROVE  sink.close = "done" /\ sink.before = 0
<1>1. out.state \in {"readable", "closed", "errored"} /\ sink.before \in Nat
    BY ReadableFields, WritableFields DEF Basics, StreamOK, SinkOK
<1>2. sink.close = "done"
    BY <1>1 DEF CanEnqueue, EndInTurn
<1> QED BY <1>1, <1>2 DEF Basics, SinkOK

LEMMA WritesNext ==
    ASSUME Basics, WritesCovered, EndInTurn, Next, broken' = {},
           out.state # "errored", out'.state # "errored"
    PROVE  WritesCovered'
<1> SUFFICES ASSUME ~Piped', sink'.close = "none"
             PROVE  1..sent' \subseteq ArrivedOf(out') \cup ToSet(sink'.queue)
    BY DEF WritesCovered
<1>1. ~Piped /\ ~PipeGets
    BY PipeSteps DEF Piped, PipeGets
<1>2. sink.close = "none"
    BY SinkSteps DEF SinkMoves
<1>3. 1..sent \subseteq ArrivedOf(out) \cup ToSet(sink.queue)
    BY <1>1, <1>2 DEF WritesCovered
<1>4. PICK w \in Seq(Chunk) : w = sink.queue
    BY WritableFields DEF Basics, SinkOK
<1>5. ArrivedOf(out) \subseteq ArrivedOf(out')
    BY ArrivedStays
<1>6. CASE ScriptWrites
  <2>1. PICK c \in Chunk : c = sent + 1
      BY <1>6, WriteAppends
  <2>2. sent' = c /\ sink'.queue = Append(w, c)
      BY <1>4, <1>6, <2>1, WriteAppends
  <2>3. ToSet(w) \cup {c} \subseteq ToSet(Append(w, c))
      BY SetOfAppend
  <2>4. 1..c \subseteq 1..sent \cup {c}
      BY <2>1, PipeAssumption DEF Basics, Shape
  <2> QED BY <1>3, <1>4, <1>5, <2>2, <2>3, <2>4
<1>7. CASE TransformEnqueues /\ CanEnqueue(out)
  <2>1. /\ w # <<>> /\ Head(w) \in Chunk /\ Takes(out', out, Head(w))
        /\ sink'.queue = Tail(w) /\ sent' = sent
      BY <1>4, <1>7, EnqueueTakes
  <2>2. PICK c \in Chunk : c = Head(w)
      BY <2>1
  <2>3. ArrivedOf(out) \cup {c} \subseteq ArrivedOf(out')
      BY <2>1, <2>2, ArrivedTakes DEF Basics
  <2>4. ToSet(w) \subseteq ToSet(Tail(w)) \cup {c}
      BY <2>1, <2>2, SetOfTail
  <2> QED BY <1>3, <1>4, <2>1, <2>3, <2>4
<1>8. CASE ~ScriptWrites /\ ~(TransformEnqueues /\ CanEnqueue(out))
  <2>1. sent' = sent
      BY <1>1, <1>8 DEF Next, Source, SourceStarts, PullIsCalled, SourceEnqueues, SourceCloses,
       SourceFails, SourceActs, PullSettles, Pipe, PipeReads, PipeGets, PipeWritten, PipeClosed,
       Script, ScriptCloses, ScriptAborts,
       Transform, TransformStarts, CloseEnds, TransformBegins, TransformEnqueues,
       TransformThrows, TransformEnds, CloseBegins, Consumer, ConsumerReads, ConsumerCancels
  <2>2. CanEnqueue(out)
      BY <1>2, FailsAfterEnd
  <2>3. sink'.queue = sink.queue
      BY <1>1, <1>8, <2>2, SinkSteps DEF SinkMoves
  <2> QED BY <1>3, <1>5, <2>1, <2>3
<1> QED BY <1>6, <1>7, <1>8

(* When the pipe is told of the end, every chunk of its source has arrived. *)
LEMMA PipeHasAll ==
    ASSUME Basics, PipedOK, EndInTurn, PipeGets, Head(src.got) = End,
           sink.close = "none", out.state # "errored"
    PROVE  1..promised \subseteq ArrivedOf(out)
<1>1. pipe = "reading" /\ src.got # <<>> /\ Piped
    BY DEF PipeGets, Piped
<1>2. PICK g \in Seq(Answer), q \in Seq(Chunk) : g = src.got /\ q = src.queue
    BY PassedType DEF Basics
<1>3. 1 \in DOMAIN g /\ g[1] = End
    BY <1>1, <1>2
<1>4. src.state = "closed" /\ q = <<>> /\ promised = sent
    BY <1>2, <1>3 DEF Basics, StreamOK, ReaderOK
<1>5. CanEnqueue(out)
    BY FailsAfterEnd
<1>6. Flow(g, q, "closed", sink.queue, Passed(out), sent)
    BY <1>1, <1>2, <1>4, <1>5 DEF PipedOK, FlowOK, Flowing, Through
<1>7. sink.queue = <<>>
    BY <1>1 DEF PipedOK, WriteOK
<1>8. ~Has(g)
    BY <1>2, ChunksAreNumbers DEF Has
<1>9. PICK n \in Nat : n = Passed(out)
    BY PassedType DEF Basics
<1>10. n + 0 + 0 = sent
    BY <1>4, <1>6, <1>7, <1>8, <1>9 DEF Flow, InHand
<1>11. n = promised
    BY <1>4, <1>9, <1>10
<1> QED BY <1>1, <1>5, <1>9, <1>11, FrontArrived DEF Basics, PipedOK

LEMMA PromisedStays ==
    ASSUME Basics, PipedOK, Next, sink.close # "none"
    PROVE  promised' = promised
<1>1. ~ScriptCloses
    BY DEF ScriptCloses
<1>2. ~SourceCloses
    BY DEF SourceCloses, SourceActs, PipedOK, WriteOK, CanEnqueue
<1> QED BY <1>1, <1>2 DEF Next, Source, SourceStarts, PullIsCalled, SourceEnqueues,
       SourceFails, SourceActs, PullSettles, Pipe, PipeReads, PipeGets, PipeWritten, PipeClosed,
       Script, ScriptWrites, ScriptAborts,
       Transform, TransformStarts, CloseEnds, TransformBegins, TransformEnqueues,
       TransformThrows, TransformEnds, CloseBegins, Consumer, ConsumerReads, ConsumerCancels

LEMMA EndNext ==
    ASSUME Basics, PipedOK, WritesCovered, EndCovered, EndInTurn, Next, broken' = {},
           out.state # "errored", out'.state # "errored"
    PROVE  EndCovered'
<1> SUFFICES ASSUME sink'.close # "none"
             PROVE  1..promised' \subseteq ArrivedOf(out') \cup First(sink'.queue, sink'.before)
    BY DEF EndCovered
<1>1. PICK w \in Seq(Chunk) : w = sink.queue
    BY WritableFields DEF Basics, SinkOK
<1>2. PICK k \in Nat : k = sink.before
    BY WritableFields DEF Basics, SinkOK
<1>3. k <= Len(w)
    BY <1>1, <1>2 DEF Basics, SinkOK
<1>4. ArrivedOf(out) \subseteq ArrivedOf(out')
    BY ArrivedStays
<1>5. CASE sink.close = "none"
  <2>1. ScriptCloses \/ (PipeGets /\ pipe' = "closing" /\ Head(src.got) = End)
      BY <1>5, SinkSteps DEF SinkMoves
  <2>2. CASE ScriptCloses
    <3>1. ~PipeGets
        BY <2>2 DEF ScriptCloses, PipeGets, Piped
    <3>2. /\ promised' = sent /\ 1..sent \subseteq ArrivedOf(out) \cup ToSet(w)
          /\ sink'.queue = w /\ sink'.before = Len(w)
      <4>1. PICK u \in WritableType(Chunk) : u = sink
          BY DEF Basics, SinkOK
      <4>2. sink' = CloseCalled(u)
          BY <2>2, <4>1 DEF ScriptCloses
      <4>3. CloseCalled(u).queue = u.queue /\ CloseCalled(u).before = Len(u.queue)
          BY CloseCalledIs
      <4> QED BY <1>1, <1>5, <2>2, <4>1, <4>2, <4>3 DEF ScriptCloses, WritesCovered
    <3> QED BY <1>4, <3>2, FirstOfAll
  <2>3. CASE PipeGets /\ Head(src.got) = End
    <3>1. 1..promised \subseteq ArrivedOf(out)
        BY <1>5, <2>3, PipeHasAll
    <3>2. promised' = promised
        BY <2>3 DEF PipeGets
    <3> QED BY <1>4, <3>1, <3>2
  <2> QED BY <2>1, <2>2, <2>3
<1>6. CASE sink.close # "none"
  <2>1. promised' = promised
      BY <1>6, PromisedStays
  <2>2. 1..promised \subseteq ArrivedOf(out) \cup First(w, k)
      BY <1>1, <1>2, <1>6 DEF EndCovered
  <2>3. CASE TransformEnqueues /\ CanEnqueue(out)
    <3>1. /\ w # <<>> /\ Head(w) \in Chunk /\ Takes(out', out, Head(w))
          /\ sink'.queue = Tail(w) /\ sink'.before = IF k > 0 THEN k - 1 ELSE 0
        BY <1>1, <1>2, <2>3, EnqueueTakes
    <3>2. PICK c \in Chunk : c = Head(w)
        BY <3>1
    <3>3. ArrivedOf(out) \cup {c} \subseteq ArrivedOf(out')
        BY <3>1, <3>2, ArrivedTakes DEF Basics
    <3>4. First(w, k) \subseteq First(Tail(w), IF k > 0 THEN k - 1 ELSE 0) \cup {c}
        BY <1>3, <3>1, <3>2, FirstOfTail
    <3> QED BY <2>1, <2>2, <3>1, <3>3, <3>4
  <2>4. CASE ~CanEnqueue(out)
    <3>1. k = 0
        BY <1>2, <2>4, FailsAfterEnd
    <3>2. First(w, k) = {}
        BY <3>1 DEF First
    <3> QED BY <1>4, <2>1, <2>2, <3>2
  <2>5. CASE sink'.queue = sink.queue /\ sink'.before = sink.before
      BY <1>1, <1>2, <1>4, <2>1, <2>2, <2>5
  <2>6. CASE /\ sink'.before = sink.before
             /\ \E c \in Chunk : sink'.queue = Append(sink.queue, c)
    <3>1. PICK c \in Chunk : sink'.queue = Append(w, c)
        BY <1>1, <2>6
    <3>2. First(w, k) \subseteq First(Append(w, c), k)
        BY <1>3, FirstOfAppend
    <3> QED BY <1>2, <1>4, <2>1, <2>2, <2>6, <3>1, <3>2
  <2>7. ~ScriptCloses /\ (PipeGets => pipe = "reading")
      BY <1>6 DEF ScriptCloses, PipeGets
  <2>8. ~PipeGets
      BY <1>6, <2>7 DEF PipedOK, WriteOK, Piped
  <2> QED BY <2>3, <2>4, <2>5, <2>6, <2>7, <2>8, SinkSteps DEF SinkMoves
<1> QED BY <1>5, <1>6

LEMMA CoverNext ==
    ASSUME Basics, PipedOK, CoverOK, [Next]_vars
    PROVE  CoverOK'
<1>1. CASE UNCHANGED vars
    BY <1>1 DEF vars, CoverOK, WritesCovered, EndCovered, EndInTurn, Piped
<1>2. CASE Next
  <2> SUFFICES ASSUME broken' = {}, out'.state # "errored"
               PROVE  (WritesCovered /\ EndCovered /\ EndInTurn)'
      BY DEF CoverOK
  <2>1. broken = {} /\ out.state # "errored"
      BY <1>2, BrokenStays, ErroredStays
  <2>2. WritesCovered /\ EndCovered /\ EndInTurn
      BY <2>1 DEF CoverOK
  <2> QED BY <1>2, <2>1, <2>2, WritesNext, EndNext, EndTurnNext
<1> QED BY <1>1, <1>2

-----------------------------------------------------------------------------

LEMMA OrderInit == Init => PipedOK /\ ScriptOK /\ CoverOK
<1> SUFFICES ASSUME Init PROVE PipedOK /\ ScriptOK /\ CoverOK
    OBVIOUS
<1>1. PICK pulls \in BOOLEAN : src = NewReadable(pulls, FALSE)
    BY DEF Init
<1>2. /\ src.got = <<>> /\ src.queue = <<>> /\ src.state = "readable"
      /\ out.got = <<>> /\ out.queue = <<>> /\ out.state = "readable" /\ ~out.closing
      /\ sink.queue = <<>> /\ sink.close = "none" /\ sent = 0 /\ promised = 0
    BY <1>1 DEF Init, NewReadable, NewWritable
<1>3. DOMAIN <<>> = {} /\ Len(<<>>) = 0
    OBVIOUS
<1>4. FrontOf(out) /\ WriteOK
    BY <1>2, <1>3 DEF FrontOf, Numbered, Behind, WriteOK
<1>5. Passed(out) = 0
    BY <1>2, <1>3 DEF Passed
<1>6. Flow(<<>>, <<>>, "readable", <<>>, 0, 0)
    BY <1>3 DEF Flow, Behind, Has, InHand
<1>7. PipedOK
    BY <1>2, <1>4, <1>5, <1>6 DEF PipedOK, FlowOK, Through
<1>8. Line(<<>>, <<>>, <<>>, 0)
    BY <1>3 DEF Line, Ascends, Increasing, Before, UpTo
<1>9. ScriptOK
    BY <1>2, <1>8 DEF ScriptOK
<1>10. WritesCovered /\ EndCovered /\ EndInTurn
    BY <1>2 DEF WritesCovered, EndCovered, EndInTurn
<1> QED BY <1>7, <1>9, <1>10 DEF CoverOK

LEMMA OrderFollows == IInv => KeptInOrder
<1> SUFFICES ASSUME IInv PROVE KeptInOrder
    OBVIOUS
<1>1. TypeOK
    BY DEF IInv, Basics, Shape, StreamOK, SinkOK, TypeOK
<1>2. PICK g \in Seq(Answer) : g = out.got
    BY PassedType DEF IInv, Basics
<1>3. \A i, j \in DOMAIN g : i < j /\ g[j] \in Chunk => g[i] \in Chunk
    BY <1>2 DEF IInv, Basics, StreamOK
<1>4. ASSUME Piped PROVE Numbered(g)
    BY <1>2, <1>4 DEF IInv, PipedOK, FrontOf
<1>5. ASSUME ~Piped PROVE Ascends(g)
    BY <1>2, <1>5 DEF IInv, ScriptOK, Line
<1>6. \A i, j \in DOMAIN g : i < j /\ g[j] \in Chunk => g[i] < g[j]
  <2>1. CASE Piped
      BY <1>3, <1>4, <2>1 DEF Numbered
  <2>2. CASE ~Piped
      BY <1>5, <2>2 DEF Ascends
  <2> QED BY <2>1, <2>2
<1>7. Piped => \A i \in DOMAIN g : g[i] \in Chunk => g[i] = i
    BY <1>4 DEF Numbered
<1>8. ASSUME End \in ToSet(g), broken = {} PROVE 1..promised \subseteq ToSet(g)
  <2>1. PICK i \in DOMAIN g : g[i] = End
      BY <1>8 DEF ToSet
  <2>2. out.state = "closed" /\ out.queue = <<>>
      BY <1>2, <2>1 DEF IInv, Basics, StreamOK
  <2>3. EndCovered /\ EndInTurn
      BY <1>8, <2>2 DEF IInv, CoverOK
  <2>4. sink.close = "done"
      BY <2>2, <2>3 DEF EndInTurn
  <2>5. sink.before = 0
    <3>1. sink.before \in Nat
        BY WritableFields DEF IInv, Basics, SinkOK
    <3> QED BY <2>4, <3>1 DEF IInv, Basics, SinkOK
  <2>6. First(sink.queue, sink.before) = {} /\ ToSet(out.queue) = {}
      BY <2>2, <2>5 DEF First, ToSet
  <2> QED BY <1>2, <2>3, <2>4, <2>6 DEF EndCovered, ArrivedOf
<1>9. DeliveredInOrder
    BY <1>2, <1>3, <1>6, <1>7, <1>8 DEF DeliveredInOrder
<1> QED BY <1>1, <1>9 DEF KeptInOrder

(* Whatever fails, closes, is aborted or cancelled: the consumer of a       *)
(* TransformStream gets the chunks in the order they were made, through     *)
(* pipeTo without a gap, and hears of the end only after all of them        *)
(* (bootstrap.js: controllerEnqueue, writableWrite, writableClose, pipeTo,  *)
(* the TransformStream's sink).                                             *)
THEOREM ChunksInOrder == Spec => []KeptInOrder
<1>1. Init => IInv
    BY BasicsInit, OrderInit DEF IInv
<1>2. IInv /\ [Next]_vars => IInv'
  <2> SUFFICES ASSUME IInv, [Next]_vars PROVE IInv'
      OBVIOUS
  <2>1. Basics /\ PipedOK /\ ScriptOK /\ CoverOK
      BY DEF IInv
  <2>2. Basics'
      BY <2>1, BasicsNext
  <2>3. PipedOK'
      BY <2>1, <2>2, PipedNext
  <2>4. ScriptOK'
      BY <2>1, <2>2, ScriptNext
  <2>5. CoverOK'
      BY <2>1, CoverNext
  <2> QED BY <2>2, <2>3, <2>4, <2>5 DEF IInv
<1>3. IInv => KeptInOrder
    BY OrderFollows
<1> QED BY <1>1, <1>2, <1>3, PTL DEF Spec

=============================================================================
