--------------------------- MODULE Exchange_proofs ---------------------------
(***************************************************************************)
(* The body of a Response, through every reader there is: whoever is told  *)
(* the end has every byte, in order and once; and its source is told to    *)
(* stop when nobody wants it any more.  For any scripts, any number of     *)
(* chunks of any lengths, any sizes and high-water mark.  What of headers, *)
(* forms and the request's body arrives, and that a URL and its params     *)
(* agree.                                                                  *)
(***************************************************************************)
EXTENDS Exchange, WebValues_proofs

-----------------------------------------------------------------------------
(* The body and its readers.                                                *)

C == 1..NumChunks
Byte == C \X Nat
Halves == {"one", "two"}
Takers == Readers \cup {"wrap", "tee"}

Types ==
    /\ use \in Uses
    /\ streams \in [Streams -> ReadableType(C)] /\ opened \subseteq Streams
    /\ takers \in [Streams -> SUBSET Takers] /\ asks \in [Streams -> Seq(Takers)]
    /\ state \in [Readers -> {"idle", "reading", "whole", "failed", "cancelled"}]
    /\ got \in [Readers -> Seq(Byte)]
    /\ tee \in [reading : BOOLEAN, for : Halves, cancelled : SUBSET Halves]
    /\ byob \in [left : Seq(Byte), lost : BOOLEAN]
    /\ source \in [made : 0..NumChunks, ended : BOOLEAN, stopped : BOOLEAN, missed : BOOLEAN]
    /\ call \in [state : {"none", "asked", "answered", "refused", "head"},
                 aborted : BOOLEAN, redirect : BOOLEAN]

(* The native stream: it keeps its queue when it fails, its one read when  *)
(* it is cancelled, and an error until it is told.                         *)
NativeRaw(s) == s = "raw" /\ Native
Chunks(g) == \A i \in DOMAIN g : g[i] \in C
NativeOK(s, stopped) ==
    /\ s \in ReadableType(C)
    /\ ~s.pulls /\ ~s.started /\ s.pull = "idle" /\ ~s.closing
    /\ s.reads > 0 => s.queue = <<>> /\ (s.state = "readable" \/ stopped)
    /\ stopped => s.state # "readable"
    /\ \A i \in DOMAIN s.got : s.got[i] = End => s.state = "closed"
    /\ s.queue # <<>> \/ s.state = "readable" => Chunks(s.got)
    /\ \A i, j \in DOMAIN s.got : i < j /\ s.got[j] \in C => s.got[i] \in C

(* A stream, tk who has taken it and ak whose reads wait or are answered.  *)
MayTake(s) ==
    IF s = "raw" THEN Loops \cup IF Native THEN {"wrap"} ELSE {"user", "tee"}
    ELSE IF s = "body" THEN {"user", "tee"}
    ELSE {s}
AtMostOne(S) == \A x, y \in S : x = y
Waits(s, str, stopped) == IF NativeRaw(s) /\ stopped THEN 0 ELSE str.reads
Port(s, str, tk, ak, stopped) ==
    /\ tk \subseteq MayTake(s) /\ (NativeRaw(s) \/ AtMostOne(tk))
    /\ ak \in Seq(tk) /\ Len(ak) = Len(str.got) + Waits(s, str, stopped)
    /\ IF NativeRaw(s) THEN NativeOK(str, stopped)
       ELSE StreamOK(str, C) /\ (str.pull # "idle" => str.started /\ str.pulls)
PortsOK == \A s \in Streams : Port(s, streams[s], takers[s], asks[s], source.stopped)

(* Which streams there are; what has yet to start holds nothing.           *)
Blank(s) == s.queue = <<>> /\ \A i \in DOMAIN s.got : s.got[i] \notin C
Fresh(s) == s.state = "readable" /\ ~s.started /\ ~s.closing /\ s.queue = <<>>
OpenOK ==
    /\ "raw" \in opened <=> ~Static
    /\ "body" \in opened => Body = "body" /\ streams["body"].pulls = Native
    /\ \A b \in Halves : b \in opened <=> takers[Body] = {"tee"}
    /\ \A s \in Streams \ opened : Fresh(streams[s]) /\ takers[s] = {}
    /\ "wrap" \in takers["raw"] <=> Native /\ "body" \in opened /\ streams["body"].started
    /\ ~streams["body"].started => Blank(streams["body"])
    /\ Static /\ streams["body"].started => ~CanEnqueue(streams["body"])

ReadersOK ==
    /\ \A u \in Users : state[u] \in {"reading", "cancelled"} => u \in takers[StreamOf(u)]
    /\ \A u \in Users : state[u] = "cancelled" => streams[StreamOf(u)].state # "readable"
    /\ \A r \in Loops : state[r] = "reading" => r \in takers["raw"]
    /\ \A s \in Streams, r \in Readers : r \in takers[s] => state[r] # "idle"
    /\ \A r \in Loops \cup {"copy"} : state[r] # "cancelled"
    /\ state["copy"] # "reading"
    /\ byob.left # <<>> => Does("byob")

TeeOK ==
    /\ \A b \in Halves : b \in tee.cancelled <=> state[b] = "cancelled"
    /\ "tee" \in takers[Body] => Len(asks[Body]) = IF tee.reading THEN 1 ELSE 0
    /\ "tee" \notin takers[Body] => ~tee.reading
    /\ tee.reading => streams[tee.for].started /\ streams[tee.for].pulls

SourceOK ==
    /\ Static => source.made = 1
    /\ source.ended => Static \/ ~CanEnqueue(streams["raw"])
    /\ Static => source.ended /\ ~source.stopped

CallOK ==
    /\ ~Native => call.state = "head"
    /\ call.state # "head" => opened \subseteq {"raw"} /\ \A s \in Streams : takers[s] = {}
    /\ call.state \in {"none", "asked"} => streams["raw"].state = "readable"
    /\ call.state = "answered" => streams["raw"].state # "closed"

(* Nobody wants the body any more; then its source is told, unless it has  *)
(* ended, or failed, or nobody can tell it.                                *)
Unwanted == state["user"] = "cancelled" \/ tee.cancelled = Halves
StopOK ==
    /\ source.stopped => Unwanted /\ (Native => "wrap" \in takers["raw"])
    /\ Unwanted => streams[Body].state # "readable"
    /\ Native /\ ~CanEnqueue(streams["body"]) => streams["raw"].state # "readable" \/ source.missed
    /\ Unwanted => Static \/ source.stopped \/ source.missed \/ streams["raw"].state # "readable"

Frame == Types /\ PortsOK /\ OpenOK /\ ReadersOK /\ TeeOK /\ SourceOK /\ CallOK /\ StopOK

-----------------------------------------------------------------------------
(* As long as the native stream has one reader: n[s] chunks were taken from *)
(* stream s and heard of, the answers and the queue go on from there, and a *)
(* stream that may be fed holds what the one above has given.               *)
Line(s, n, m) ==
    /\ n <= m
    /\ \A i \in DOMAIN s.got : s.got[i] \in C => s.got[i] = n + i /\ n + i <= m
    /\ \A i \in DOMAIN s.queue : s.queue[i] = n + Len(s.got) + i /\ n + Len(s.got) + i <= m
Holds(s, n) == n + Len(s.got) + Len(s.queue)
(* An end is told after the last chunk.                                     *)
Whole(s, n, m, ended) ==
    /\ ~CanEnqueue(s) /\ s.state # "errored" /\ Chunks(s.got) => ended /\ Holds(s, n) = m
    /\ \A i \in DOMAIN s.got :
           s.got[i] = End /\ (\A j \in 1..(i - 1) : s.got[j] \in C) => ended /\ n + i = m + 1

Fed(s) == IF s = "raw" THEN ~Static ELSE IF s = "body" THEN "wrap" \in takers["raw"] ELSE s \in opened
Above(s, n) == IF s = "raw" THEN source.made ELSE IF s = "body" THEN n["raw"] ELSE n[Body]
(* Whose end says something: not that of a cancelled stream, nor what the   *)
(* native one answers after an error.                                       *)
Listened ==
    \/ takers["raw"] = {}
    \/ \E r \in Loops \cap takers["raw"] : state[r] = "reading"
    \/ "wrap" \in takers["raw"] /\ CanEnqueue(streams["body"])
Told(s) ==
    IF NativeRaw(s) THEN call.state = "head" /\ ~source.stopped /\ Listened
    ELSE IF s \in Halves THEN s \notin tee.cancelled
    ELSE s = Body => ~Unwanted
First(k) == FlattenSeq([c \in 1..k |-> Bytes(c)])

Feeds(s, n) ==
    /\ Line(streams[s], n[s], source.made)
    /\ takers[s] = {} => n[s] = 0
    /\ Fed(s) /\ CanEnqueue(streams[s]) => Holds(streams[s], n[s]) = Above(s, n)
    /\ Told(s) => Whole(streams[s], n[s], source.made, source.ended)
Feeding(n) == (\A s \in Streams : Feeds(s, n)) /\ (~streams["body"].started => n["body"] = 0)
Has(r, s, n) ==
    /\ (r = "user" /\ byob.lost) \/ Given(r) = First(n[s])
    /\ state[r] = "whole" => source.ended /\ n[s] = source.made
Reading(n) ==
    /\ \A r \in Loops \cap takers["raw"] :
           Has(r, "raw", n) /\ Len(asks["raw"]) = IF state[r] = "reading" THEN 1 ELSE 0
    /\ \A u \in Users : u \in takers[StreamOf(u)] => Has(u, StreamOf(u), n)
Elsewhere(r) ==
    IF state[r] = "whole" THEN (Static /\ Given(r) = Everything) \/ (~Static /\ r = "copy")
    ELSE Given(r) = <<>>
Others == \A r \in Readers : (\A s \in Streams : r \notin takers[s]) => Elsewhere(r)

Flow == \E n \in [Streams -> 0..NumChunks] : Feeding(n) /\ Reading(n)
FlowOK == Alone => Flow /\ Others
IInv == Frame /\ FlowOK

-----------------------------------------------------------------------------
(* What the flow says of one stream, through each operation on it.         *)

LEMMA ChunksAre == /\ ChunkSet(C) /\ C \subseteq Nat \ {0} /\ End \notin C /\ Failed \notin C /\ End # Failed
                   /\ NumChunks \in Nat \ {0}
<1>1. ChunkSet(C)
    BY BodyAssumption, StrategyAssumption DEF ChunkSet, C
<1> QED BY <1>1, AnswersDiffer, BodyAssumption

(* What both kinds of stream have in common.                                *)
Sane(s) ==
    /\ s.queue \in Seq(C) /\ s.got \in Seq(C \cup {End, Failed})
    /\ s.queue # <<>> \/ s.state = "readable" => Chunks(s.got)
    /\ \A i \in DOMAIN s.got : s.got[i] = End => s.state = "closed"
    /\ \A i, j \in DOMAIN s.got : i < j /\ s.got[j] \in C => s.got[i] \in C

LEMMA NativeSane == ASSUME NEW s, NEW stopped, NativeOK(s, stopped) PROVE Sane(s)
BY ReadableFields DEF NativeOK, Sane

LEMMA ScriptSane == ASSUME NEW s, StreamOK(s, C) PROVE Sane(s)
<1>1. s.queue \in Seq(C) /\ s.got \in Seq(C \cup {End, Failed})
    BY ReadableFields DEF StreamOK
<1>2. ASSUME s.queue # <<>> \/ s.state = "readable" PROVE Chunks(s.got)
  <2>1. s.state = "readable"
      BY <1>2 DEF StreamOK
  <2>2. \A i \in DOMAIN s.got : s.got[i] # End /\ s.got[i] # Failed
      BY <2>1 DEF StreamOK
  <2>3. \A i \in DOMAIN s.got : s.got[i] \in C \cup {End, Failed}
      BY <1>1
  <2> QED BY <2>2, <2>3 DEF Chunks
<1> QED BY <1>1, <1>2 DEF StreamOK, Sane

LEMMA PortSane ==
    ASSUME NEW s, NEW str, NEW tk, NEW ak, NEW stopped, Port(s, str, tk, ak, stopped)
    PROVE  Sane(str) /\ str \in ReadableType(C)
BY NativeSane, ScriptSane DEF Port, NativeOK, StreamOK

LEMMA HoldsIs ==
    ASSUME NEW s, Sane(s), NEW n \in Nat
    PROVE  /\ Len(s.got) \in Nat /\ Len(s.queue) \in Nat /\ Holds(s, n) \in Nat
           /\ Holds(s, n) = n + Len(s.got) + Len(s.queue)
<1>1. PICK g \in Seq(C \cup {End, Failed}) : g = s.got
    BY DEF Sane
<1>2. PICK q \in Seq(C) : q = s.queue
    BY DEF Sane
<1>3. Len(g) \in Nat /\ Len(q) \in Nat /\ n + Len(g) + Len(q) \in Nat
    OBVIOUS
<1> QED BY <1>1, <1>2, <1>3 DEF Holds

(* A stream that may be fed has told no end.                                *)
LEMMA OpenIsWhole ==
    ASSUME NEW s, Sane(s), CanEnqueue(s), NEW n, NEW m, NEW ended
    PROVE  Whole(s, n, m, ended)
<1>1. \A i \in DOMAIN s.got : s.got[i] # End
    BY DEF Sane, CanEnqueue
<1> QED BY <1>1 DEF Whole

(* More chunks are made, and then the end comes.                            *)
LEMMA MoreMade ==
    ASSUME NEW s, NEW n \in Nat, NEW m \in Nat, NEW k \in Nat, m <= k, Line(s, n, m), Sane(s)
    PROVE  Line(s, n, k)
<1>1. Len(s.got) \in Nat
    BY DEF Sane
<1>2. \A i \in DOMAIN s.got : i \in Nat
    BY DEF Sane
<1>3. \A i \in DOMAIN s.queue : i \in Nat
    BY DEF Sane
<1> QED BY <1>1, <1>2, <1>3 DEF Line

LEMMA NotYetWhole ==
    ASSUME NEW s, NEW n, NEW m, NEW k, NEW ended, Whole(s, n, m, FALSE)
    PROVE  Whole(s, n, k, ended)
BY DEF Whole

(* A chunk is put in.                                                       *)
LEMMA LineTakes ==
    ASSUME NEW s, NEW t, NEW n \in Nat, NEW m \in Nat, NEW k \in Nat, m <= k,
           Sane(s), Line(s, n, m), CanEnqueue(s), NEW c \in C, c = Holds(s, n) + 1, c <= k,
           Takes(t, s, c)
    PROVE  Line(t, n, k) /\ Holds(t, n) = c
<1>1. PICK g \in Seq(C \cup {End, Failed}) : g = s.got
    BY DEF Sane
<1>2. PICK q \in Seq(C) : q = s.queue
    BY DEF Sane
<1>3. c = n + Len(g) + Len(q) + 1 /\ c \in Nat
    BY <1>1, <1>2, ChunksAre DEF Holds
<1>4. n <= k
    BY DEF Line
<1>5. \A i \in DOMAIN g : g[i] \in C => g[i] = n + i /\ n + i <= k
    BY <1>1 DEF Line
<1>6. \A i \in DOMAIN q : q[i] = n + Len(g) + i /\ n + Len(g) + i <= k
    BY <1>1, <1>2 DEF Line
<1>7. CASE q = <<>> /\ t.queue = <<>> /\ t.got = Append(g, c)
  <2>1. PICK h : h = Append(g, c)
      OBVIOUS
  <2>2. /\ DOMAIN h = 1..(Len(g) + 1) /\ h[Len(g) + 1] = c /\ \A i \in 1..Len(g) : h[i] = g[i]
        /\ DOMAIN g = 1..Len(g) /\ Len(g) \in Nat /\ Len(h) = Len(g) + 1
      BY <2>1
  <2>3. Len(q) = 0 /\ c = n + (Len(g) + 1)
      BY <1>3, <1>7, <2>2
  <2>4. \A i \in DOMAIN h : h[i] \in C => h[i] = n + i /\ n + i <= k
      BY <1>5, <2>2, <2>3
  <2>5. Len(t.queue) = 0 /\ (\A i \in DOMAIN t.queue : FALSE) /\ t.got = h
      BY <1>7, <2>1
  <2>6. Line(t, n, k)
      BY <1>4, <2>4, <2>5 DEF Line
  <2>7. Holds(t, n) = n + (Len(g) + 1) + 0
      BY <2>2, <2>5 DEF Holds
  <2> QED BY <2>2, <2>3, <2>6, <2>7
<1>8. CASE t.got = g /\ t.queue = Append(q, c)
  <2>1. PICK h : h = Append(q, c)
      OBVIOUS
  <2>2. /\ DOMAIN h = 1..(Len(q) + 1) /\ h[Len(q) + 1] = c /\ \A i \in 1..Len(q) : h[i] = q[i]
        /\ DOMAIN q = 1..Len(q) /\ Len(q) \in Nat /\ Len(h) = Len(q) + 1 /\ Len(g) \in Nat
      BY <2>1
  <2>3. c = n + Len(g) + (Len(q) + 1)
      BY <1>3, <2>2
  <2>4. \A i \in DOMAIN h : h[i] = n + Len(g) + i /\ n + Len(g) + i <= k
      BY <1>6, <2>2, <2>3
  <2> QED BY <1>4, <1>5, <1>8, <2>1, <2>2, <2>3, <2>4 DEF Line, Holds
<1> QED BY <1>1, <1>2, <1>7, <1>8 DEF Takes

(* It ends: reads that wait are answered, all in one way.                   *)
LEMMA LineEnds ==
    ASSUME NEW s, NEW t, NEW n \in Nat, NEW m \in Nat, NEW a \in {End, Failed},
           Sane(s), Line(s, n, m), Extends(t.got, s.got, a),
           t.queue = <<>> \/ (t.queue = s.queue /\ t.got = s.got)
    PROVE  Line(t, n, m)
<1>1. \A i \in DOMAIN t.got : (i \in DOMAIN s.got /\ t.got[i] = s.got[i]) \/ t.got[i] = a
    BY DEF Extends
<1>2. \A i \in DOMAIN t.got : t.got[i] \in C => t.got[i] = n + i /\ n + i <= m
    BY <1>1, ChunksAre DEF Line
<1>3. n <= m
    BY DEF Line
<1>4. CASE t.queue = <<>>
  <2>1. \A i \in DOMAIN t.queue : FALSE
      BY <1>4
  <2> QED BY <1>2, <1>3, <2>1 DEF Line
<1>5. CASE t.queue = s.queue /\ t.got = s.got
    BY <1>2, <1>3, <1>5 DEF Line
<1> QED BY <1>4, <1>5

LEMMA CloseIsWhole ==
    ASSUME NEW s, NEW t, NEW n \in Nat, NEW m \in Nat, Sane(s), Sane(t), CanEnqueue(s),
           Extends(t.got, s.got, End), t.queue = s.queue, t.got = s.got \/ t.queue = <<>>,
           Holds(s, n) = m
    PROVE  Whole(t, n, m, TRUE)
<1>1. PICK g \in Seq(C \cup {End, Failed}) : g = s.got
    BY DEF Sane
<1>2. PICK q \in Seq(C) : q = s.queue
    BY DEF Sane
<1>3. PICK h \in Seq(C \cup {End, Failed}) : h = t.got
    BY DEF Sane
<1>4. n + Len(g) + Len(q) = m /\ Len(g) \in Nat /\ Len(q) \in Nat /\ Len(h) \in Nat
  <2>1. Holds(s, n) = n + Len(g) + Len(q)
      BY <1>1, <1>2 DEF Holds
  <2>2. Len(g) \in Nat /\ Len(q) \in Nat /\ Len(h) \in Nat
      OBVIOUS
  <2> QED BY <2>1, <2>2
<1>5. Chunks(g)
    BY <1>1 DEF Sane, CanEnqueue
<1>6. /\ Len(g) <= Len(h) /\ \A i \in 1..Len(g) : h[i] = g[i]
      /\ \A i \in 1..Len(h) : i \notin 1..Len(g) => h[i] = End
    BY <1>1, <1>3 DEF Extends
<1>7. h = g \/ q = <<>>
    BY <1>1, <1>2, <1>3
<1>8. ASSUME Chunks(h) PROVE Holds(t, n) = m
  <2>1. ASSUME Len(g) < Len(h) PROVE FALSE
    <3>1. Len(g) + 1 \in 1..Len(h) /\ Len(g) + 1 \notin 1..Len(g)
        BY <1>4, <2>1
    <3> QED BY <1>6, <1>8, <3>1, ChunksAre DEF Chunks
  <2>2. Len(h) = Len(g)
      BY <1>4, <1>6, <2>1
  <2> QED BY <1>2, <1>3, <1>4, <2>2 DEF Holds
<1>9. ASSUME NEW i \in DOMAIN h, h[i] = End, \A j \in 1..(i - 1) : h[j] \in C
      PROVE  n + i = m + 1
  <2>1. i \in 1..Len(h) /\ i \notin 1..Len(g)
    <3>1. i \in 1..Len(h)
        OBVIOUS
    <3>2. ASSUME i \in 1..Len(g) PROVE FALSE
        BY <1>5, <1>6, <1>9, <3>2, ChunksAre DEF Chunks
    <3> QED BY <3>1, <3>2
  <2>2. ASSUME i > Len(g) + 1 PROVE FALSE
    <3>1. Len(g) + 1 \in 1..(i - 1) /\ Len(g) + 1 \in 1..Len(h) /\ Len(g) + 1 \notin 1..Len(g)
        BY <1>4, <2>1, <2>2
    <3> QED BY <1>6, <1>9, <3>1, ChunksAre
  <2>3. i = Len(g) + 1
      BY <1>4, <2>1, <2>2
  <2>4. h # g
      BY <2>1, <2>3, <1>4
  <2>5. Len(q) = 0
      BY <1>7, <2>4
  <2> QED BY <1>4, <2>3, <2>5
<1> QED BY <1>3, <1>8, <1>9 DEF Whole

LEMMA FailIsWhole ==
    ASSUME NEW s, NEW t, NEW n, NEW m, NEW ended, Sane(s), s.state = "readable",
           Extends(t.got, s.got, Failed), t.state = "errored" \/ Len(t.got) > Len(s.got), Sane(t)
    PROVE  Whole(t, n, m, ended)
<1>1. PICK g \in Seq(C \cup {End, Failed}) : g = s.got
    BY DEF Sane
<1>2. PICK h \in Seq(C \cup {End, Failed}) : h = t.got
    BY DEF Sane
<1>3. Chunks(g) /\ Len(g) \in Nat /\ Len(h) \in Nat
    BY <1>1 DEF Sane
<1>4. /\ Len(g) <= Len(h) /\ \A i \in 1..Len(g) : h[i] = g[i]
      /\ \A i \in 1..Len(h) : i \notin 1..Len(g) => h[i] = Failed
    BY <1>1, <1>2 DEF Extends
<1>5. \A i \in 1..Len(h) : h[i] # End
    BY <1>3, <1>4, ChunksAre DEF Chunks
<1>6. ASSUME Len(h) > Len(g) PROVE ~Chunks(h)
  <2>1. Len(h) \in 1..Len(h) /\ Len(h) \notin 1..Len(g)
      BY <1>3, <1>6
  <2> QED BY <1>4, <2>1, ChunksAre DEF Chunks
<1> QED BY <1>1, <1>2, <1>5, <1>6 DEF Whole

(* A read takes a chunk, is told how the stream ended, or waits.            *)
Reads(t, s) ==
    /\ t.closing = s.closing
    /\ \/ /\ s.queue # <<>> /\ t.queue = Tail(s.queue) /\ t.got = Append(s.got, Head(s.queue))
          /\ t.state = s.state \/ (t.state = "closed" /\ s.state = "readable" /\ s.closing)
       \/ /\ s.queue = <<>> /\ t.queue = <<>> /\ t.state # "readable"
          /\ \/ s.state = "closed" /\ t.state = "closed" /\ t.got = Append(s.got, End)
             \/ s.state = "errored" /\ t.got = Append(s.got, Failed)
       \/ t.state = s.state /\ t.queue = s.queue /\ t.got = s.got

LEMMA ReadIsLine ==
    ASSUME NEW s, NEW t, NEW n \in Nat, NEW m \in Nat, Sane(s), Line(s, n, m), Reads(t, s)
    PROVE  /\ Line(t, n, m)
           /\ CanEnqueue(t) => CanEnqueue(s) /\ Holds(t, n) = Holds(s, n)
<1>1. PICK g \in Seq(C \cup {End, Failed}) : g = s.got
    BY DEF Sane
<1>2. PICK q \in Seq(C) : q = s.queue
    BY DEF Sane
<1>3. Len(g) \in Nat /\ Len(q) \in Nat /\ n <= m
    BY DEF Line
<1>4. \A i \in DOMAIN g : g[i] \in C => g[i] = n + i /\ n + i <= m
    BY <1>1 DEF Line
<1>5. \A i \in DOMAIN q : q[i] = n + Len(g) + i /\ n + Len(g) + i <= m
    BY <1>1, <1>2 DEF Line
<1>6. CASE q # <<>> /\ t.queue = Tail(q) /\ t.got = Append(g, Head(q))
           /\ (t.state = s.state \/ (t.state = "closed" /\ s.state = "readable" /\ s.closing))
  <2>1. PICK h : h = Append(g, Head(q))
      OBVIOUS
  <2>2. PICK p : p = Tail(q)
      OBVIOUS
  <2>3. Len(q) >= 1 /\ Head(q) = q[1]
      BY <1>6
  <2>4. /\ DOMAIN h = 1..(Len(g) + 1) /\ h[Len(g) + 1] = q[1] /\ \A i \in 1..Len(g) : h[i] = g[i]
        /\ DOMAIN g = 1..Len(g) /\ Len(h) = Len(g) + 1
      BY <2>1, <2>3
  <2>5. Len(p) = Len(q) - 1 /\ DOMAIN p = 1..(Len(q) - 1) /\ \A i \in 1..(Len(q) - 1) : p[i] = q[i + 1]
      BY <1>6, <2>2
  <2>6. q[1] = n + Len(g) + 1 /\ n + Len(g) + 1 <= m
      BY <1>5, <2>3
  <2>7. \A i \in DOMAIN h : h[i] \in C => h[i] = n + i /\ n + i <= m
      BY <1>3, <1>4, <2>4, <2>6
  <2>8. ASSUME NEW i \in DOMAIN p PROVE p[i] = n + Len(h) + i /\ n + Len(h) + i <= m
    <3>1. i \in 1..(Len(q) - 1) /\ i + 1 \in DOMAIN q /\ p[i] = q[i + 1]
        BY <2>5
    <3>2. q[i + 1] = n + Len(g) + (i + 1) /\ n + Len(g) + (i + 1) <= m
        BY <1>5, <3>1
    <3> QED BY <1>3, <2>4, <3>1, <3>2
  <2>9. t.got = h /\ t.queue = p
      BY <1>6, <2>1, <2>2
  <2>10. Line(t, n, m)
      BY <1>3, <2>7, <2>8, <2>9 DEF Line
  <2>11. Holds(t, n) = n + (Len(g) + 1) + (Len(q) - 1) /\ Holds(s, n) = n + Len(g) + Len(q)
      BY <1>1, <1>2, <2>4, <2>5, <2>9 DEF Holds
  <2>12. Holds(t, n) = Holds(s, n)
      BY <1>3, <2>11
  <2>13. CanEnqueue(t) => CanEnqueue(s)
      BY <1>6 DEF CanEnqueue, Reads
  <2> QED BY <2>10, <2>12, <2>13
<1>7. CASE \E a \in {End, Failed} : t.got = Append(g, a) /\ q = <<>> /\ t.queue = <<>> /\ t.state # "readable"
  <2>1. PICK a \in {End, Failed} : t.got = Append(g, a)
      BY <1>7
  <2>2. PICK h : h = Append(g, a)
      OBVIOUS
  <2>3. /\ DOMAIN h = 1..(Len(g) + 1) /\ h[Len(g) + 1] = a /\ \A i \in 1..Len(g) : h[i] = g[i]
        /\ DOMAIN g = 1..Len(g)
      BY <2>2
  <2>4. \A i \in DOMAIN h : h[i] \in C => h[i] = n + i /\ n + i <= m
      BY <1>4, <2>3, ChunksAre
  <2>5. (\A i \in DOMAIN t.queue : FALSE) /\ t.got = h
      BY <1>7, <2>1, <2>2
  <2>6. ~CanEnqueue(t)
      BY <1>7 DEF CanEnqueue
  <2> QED BY <1>3, <2>4, <2>5, <2>6 DEF Line
<1>8. CASE t.state = s.state /\ t.queue = q /\ t.got = g
  <2>1. Line(t, n, m) /\ Holds(t, n) = Holds(s, n)
      BY <1>1, <1>2, <1>8 DEF Line, Holds
  <2>2. CanEnqueue(t) <=> CanEnqueue(s)
      BY <1>8 DEF CanEnqueue, Reads
  <2> QED BY <2>1, <2>2
<1> QED BY <1>1, <1>2, <1>6, <1>7, <1>8 DEF Reads

LEMMA ReadIsWhole ==
    ASSUME NEW s, NEW t, NEW n \in Nat, NEW m \in Nat, NEW ended, Sane(s), Line(s, n, m), Reads(t, s),
           Whole(s, n, m, ended)
    PROVE  Whole(t, n, m, ended)
<1>1. PICK g \in Seq(C \cup {End, Failed}) : g = s.got
    BY DEF Sane
<1>2. PICK q \in Seq(C) : q = s.queue
    BY DEF Sane
<1>3. Len(g) \in Nat /\ Len(q) \in Nat
    OBVIOUS
<1>4. ~CanEnqueue(s) /\ s.state # "errored" /\ Chunks(g) => ended /\ n + Len(g) + Len(q) = m
    BY <1>1, <1>2 DEF Whole, Holds
<1>5. \A i \in DOMAIN g : g[i] = End /\ (\A j \in 1..(i - 1) : g[j] \in C) => ended /\ n + i = m + 1
    BY <1>1 DEF Whole
<1>6. CASE q # <<>> /\ t.queue = Tail(q) /\ t.got = Append(g, Head(q))
           /\ (t.state = s.state \/ (t.state = "closed" /\ s.state = "readable" /\ s.closing))
  <2>1. Chunks(g) /\ Head(q) \in C
      BY <1>1, <1>2, <1>6 DEF Sane
  <2>2. PICK h : h = Append(g, Head(q))
      OBVIOUS
  <2>3. /\ DOMAIN h = 1..(Len(g) + 1) /\ h[Len(g) + 1] = Head(q) /\ \A i \in 1..Len(g) : h[i] = g[i]
        /\ Len(h) = Len(g) + 1 /\ DOMAIN g = 1..Len(g)
      BY <2>2
  <2>4. \A i \in DOMAIN h : h[i] # End
      BY <2>1, <2>3, ChunksAre DEF Chunks
  <2>5. Len(t.queue) = Len(q) - 1
      BY <1>6
  <2>6. ~CanEnqueue(t) /\ t.state # "errored" => ~CanEnqueue(s) /\ s.state # "errored"
      BY <1>6 DEF CanEnqueue, Reads
  <2>7. Holds(t, n) = n + (Len(g) + 1) + (Len(q) - 1)
      BY <1>6, <2>2, <2>3, <2>5 DEF Holds
  <2>8. ~CanEnqueue(t) /\ t.state # "errored" => ended /\ Holds(t, n) = m
      BY <1>3, <1>4, <2>1, <2>6, <2>7
  <2> QED BY <1>6, <2>2, <2>4, <2>8 DEF Whole
<1>7. CASE q = <<>> /\ t.queue = <<>> /\ s.state = "closed" /\ t.state = "closed" /\ t.got = Append(g, End)
  <2>1. PICK h : h = Append(g, End)
      OBVIOUS
  <2>2. /\ DOMAIN h = 1..(Len(g) + 1) /\ h[Len(g) + 1] = End /\ \A i \in 1..Len(g) : h[i] = g[i]
        /\ DOMAIN g = 1..Len(g)
      BY <2>1
  <2>3. ~Chunks(h)
      BY <1>3, <2>2, ChunksAre DEF Chunks
  <2>4. ASSUME NEW i \in DOMAIN h, h[i] = End, \A j \in 1..(i - 1) : h[j] \in C
        PROVE  ended /\ n + i = m + 1
    <3>1. CASE i \in 1..Len(g)
      <4>1. g[i] = End /\ \A j \in 1..(i - 1) : g[j] \in C
          BY <2>2, <2>4, <3>1
      <4> QED BY <1>5, <2>2, <3>1, <4>1
    <3>2. CASE i = Len(g) + 1
      <4>1. \A j \in 1..Len(g) : g[j] \in C
          BY <1>3, <2>2, <2>4, <3>2
      <4>2. Chunks(g) /\ ~CanEnqueue(s) /\ Len(q) = 0
          BY <1>7, <2>2, <4>1 DEF Chunks, CanEnqueue
      <4>3. ended /\ n + Len(g) + Len(q) = m
          BY <1>4, <1>7, <4>2
      <4> QED BY <1>3, <3>2, <4>2, <4>3
    <3> QED BY <2>2, <2>4, <3>1, <3>2
  <2> QED BY <1>7, <2>1, <2>3, <2>4 DEF Whole
<1>8. CASE q = <<>> /\ t.queue = <<>> /\ t.state # "readable" /\ s.state = "errored" /\ t.got = Append(g, Failed)
  <2>1. PICK h : h = Append(g, Failed)
      OBVIOUS
  <2>2. /\ DOMAIN h = 1..(Len(g) + 1) /\ h[Len(g) + 1] = Failed /\ \A i \in 1..Len(g) : h[i] = g[i]
        /\ DOMAIN g = 1..Len(g)
      BY <2>1
  <2>3. ~Chunks(h)
      BY <1>3, <2>2, ChunksAre DEF Chunks
  <2>4. \A i \in 1..Len(g) : g[i] # End
      BY <1>1, <1>8, <2>2 DEF Sane
  <2>5. \A i \in DOMAIN h : h[i] # End
      BY <2>2, <2>4, ChunksAre
  <2> QED BY <1>8, <2>1, <2>3, <2>5 DEF Whole
<1>9. CASE t.state = s.state /\ t.queue = q /\ t.got = g
  <2>1. CanEnqueue(t) <=> CanEnqueue(s)
      BY <1>9 DEF CanEnqueue, Reads
  <2> QED BY <1>1, <1>2, <1>9, <2>1 DEF Whole, Holds
<1> QED BY <1>1, <1>2, <1>6, <1>7, <1>8, <1>9 DEF Reads

(* An answer is heard.                                                      *)
HeardOff(t, s) ==
    /\ t.state = s.state /\ t.closing = s.closing /\ t.queue = s.queue
    /\ s.got # <<>> /\ t.got = Tail(s.got)

LEMMA HearsLine ==
    ASSUME NEW s, NEW t, NEW n \in Nat, NEW m \in Nat, Sane(s), Line(s, n, m), HeardOff(t, s)
    PROVE  /\ Head(s.got) \in C =>
                  /\ Head(s.got) = n + 1 /\ n + 1 <= m
                  /\ Line(t, n + 1, m) /\ Holds(t, n + 1) = Holds(s, n)
           /\ Head(s.got) \notin C => Line(t, n, m) /\ ~CanEnqueue(s)
<1>1. PICK g \in Seq(C \cup {End, Failed}) : g = s.got
    BY DEF Sane
<1>2. PICK q \in Seq(C) : q = s.queue
    BY DEF Sane
<1>3. PICK h : h = Tail(g)
    OBVIOUS
<1>4. /\ Len(g) \in Nat /\ Len(g) >= 1 /\ Head(g) = g[1] /\ DOMAIN g = 1..Len(g)
      /\ DOMAIN h = 1..(Len(g) - 1) /\ Len(h) = Len(g) - 1 /\ \A i \in 1..(Len(g) - 1) : h[i] = g[i + 1]
    BY <1>1, <1>3 DEF HeardOff
<1>5. t.got = h /\ t.queue = q
    BY <1>1, <1>2, <1>3 DEF HeardOff
<1>6. \A i \in 1..Len(g) : g[i] \in C => g[i] = n + i /\ n + i <= m
    BY <1>1, <1>4 DEF Line
<1>7. \A i \in DOMAIN q : q[i] = n + Len(g) + i /\ n + Len(g) + i <= m
    BY <1>1, <1>2 DEF Line
<1>8. n <= m /\ \A i \in DOMAIN q : i \in Nat
    BY DEF Line
<1>9. CASE g[1] \in C
  <2>1. g[1] = n + 1 /\ n + 1 <= m
      BY <1>4, <1>6, <1>9
  <2>2. ASSUME NEW i \in DOMAIN h, h[i] \in C PROVE h[i] = (n + 1) + i /\ (n + 1) + i <= m
    <3>1. i \in 1..(Len(g) - 1) /\ i + 1 \in 1..Len(g) /\ h[i] = g[i + 1]
        BY <1>4
    <3>2. g[i + 1] = n + (i + 1) /\ n + (i + 1) <= m
        BY <1>6, <2>2, <3>1
    <3> QED BY <3>1, <3>2
  <2>3. \A i \in DOMAIN q : q[i] = (n + 1) + Len(h) + i /\ (n + 1) + Len(h) + i <= m
      BY <1>4, <1>7, <1>8
  <2>4. Line(t, n + 1, m)
      BY <1>5, <2>1, <2>2, <2>3 DEF Line
  <2>5. Len(q) \in Nat /\ Holds(t, n + 1) = (n + 1) + Len(h) + Len(q) /\ Holds(s, n) = n + Len(g) + Len(q)
      BY <1>1, <1>2, <1>5 DEF Holds
  <2>6. Holds(t, n + 1) = Holds(s, n)
      BY <1>4, <2>5
  <2> QED BY <1>1, <1>4, <1>9, <2>1, <2>4, <2>6
<1>10. CASE g[1] \notin C
  <2>1. ~Chunks(g)
      BY <1>4, <1>10 DEF Chunks
  <2>2. q = <<>> /\ s.state # "readable"
      BY <1>1, <1>2, <2>1 DEF Sane
  <2>3. ASSUME NEW i \in DOMAIN h PROVE h[i] \notin C
    <3>1. i + 1 \in 1..Len(g) /\ 1 < i + 1 /\ 1 \in 1..Len(g) /\ h[i] = g[i + 1]
        BY <1>4
    <3>2. \A a, b \in 1..Len(g) : a < b /\ g[b] \in C => g[a] \in C
        BY <1>1, <1>4 DEF Sane
    <3> QED BY <1>10, <3>1, <3>2
  <2>4. \A i \in DOMAIN q : FALSE
      BY <2>2
  <2>5. Line(t, n, m)
      BY <1>5, <1>8, <2>3, <2>4 DEF Line
  <2>6. ~CanEnqueue(s)
      BY <2>2 DEF CanEnqueue
  <2> QED BY <1>1, <1>4, <1>10, <2>5, <2>6
<1> QED BY <1>9, <1>10

LEMMA HearsWhole ==
    ASSUME NEW s, NEW t, NEW n \in Nat, NEW m \in Nat, NEW ended, Sane(s), Line(s, n, m), HeardOff(t, s),
           Whole(s, n, m, ended)
    PROVE  /\ Head(s.got) \in C => Whole(t, n + 1, m, ended)
           /\ Head(s.got) = End => ended /\ n = m /\ Whole(t, n, m, ended)
           /\ Head(s.got) = Failed /\ s.state = "errored" => Whole(t, n, m, ended)
<1>1. PICK g \in Seq(C \cup {End, Failed}) : g = s.got
    BY DEF Sane
<1>2. PICK h : h = Tail(g)
    OBVIOUS
<1>3. /\ Len(g) \in Nat /\ Len(g) >= 1 /\ Head(g) = g[1] /\ DOMAIN g = 1..Len(g)
      /\ DOMAIN h = 1..(Len(g) - 1) /\ Len(h) = Len(g) - 1 /\ \A i \in 1..(Len(g) - 1) : h[i] = g[i + 1]
    BY <1>1, <1>2 DEF HeardOff
<1>4. t.got = h /\ t.state = s.state /\ (CanEnqueue(t) <=> CanEnqueue(s))
    BY <1>1, <1>2 DEF HeardOff, CanEnqueue
<1>5. ~CanEnqueue(s) /\ s.state # "errored" /\ Chunks(g) => ended /\ Holds(s, n) = m
    BY <1>1 DEF Whole
<1>6. \A i \in 1..Len(g) : g[i] = End /\ (\A j \in 1..(i - 1) : g[j] \in C) => ended /\ n + i = m + 1
    BY <1>1, <1>3 DEF Whole
<1>7. CASE g[1] \in C
  <2>1. Holds(t, n + 1) = Holds(s, n)
      BY <1>1, <1>3, <1>7, HearsLine
  <2>2. ASSUME Chunks(h) PROVE Chunks(g)
    <3>1. ASSUME NEW i \in 1..Len(g) PROVE g[i] \in C
      <4>1. CASE i = 1
          BY <1>7, <4>1
      <4>2. CASE i > 1
        <5>1. i - 1 \in 1..(Len(g) - 1) /\ h[i - 1] = g[(i - 1) + 1] /\ (i - 1) + 1 = i
            BY <1>3, <4>2
        <5> QED BY <1>3, <2>2, <5>1 DEF Chunks
      <4> QED BY <4>1, <4>2
    <3> QED BY <1>3, <3>1 DEF Chunks
  <2>3. ASSUME NEW i \in DOMAIN h, h[i] = End, \A j \in 1..(i - 1) : h[j] \in C
        PROVE  ended /\ (n + 1) + i = m + 1
    <3>1. i \in 1..(Len(g) - 1) /\ i + 1 \in 1..Len(g) /\ g[i + 1] = End
        BY <1>3, <2>3
    <3>2. ASSUME NEW j \in 1..((i + 1) - 1) PROVE g[j] \in C
      <4>1. CASE j = 1
          BY <1>7, <4>1
      <4>2. CASE j > 1
        <5>1. j - 1 \in 1..(i - 1) /\ j - 1 \in 1..(Len(g) - 1) /\ (j - 1) + 1 = j
            BY <3>1, <4>2
        <5>2. h[j - 1] = g[(j - 1) + 1]
            BY <1>3, <5>1
        <5> QED BY <2>3, <5>1, <5>2
      <4> QED BY <4>1, <4>2
    <3>3. ended /\ n + (i + 1) = m + 1
        BY <1>6, <3>1, <3>2
    <3> QED BY <3>1, <3>3
  <2>4. Whole(t, n + 1, m, ended)
      BY <1>4, <1>5, <2>1, <2>2, <2>3 DEF Whole
  <2> QED BY <1>1, <1>3, <1>7, <2>4, ChunksAre
<1>8. CASE g[1] \notin C
  <2>1. ASSUME NEW i \in DOMAIN h PROVE h[i] \notin C
    <3>1. i + 1 \in 1..Len(g) /\ 1 < i + 1 /\ 1 \in 1..Len(g) /\ h[i] = g[i + 1]
        BY <1>3
    <3>2. \A a, b \in 1..Len(g) : a < b /\ g[b] \in C => g[a] \in C
        BY <1>1, <1>3 DEF Sane
    <3> QED BY <1>8, <3>1, <3>2
  <2>2. CASE g[1] = End
    <3>1. 1 \in 1..Len(g) /\ \A j \in 1..(1 - 1) : g[j] \in C
        BY <1>3
    <3>2. ended /\ n + 1 = m + 1
        BY <1>6, <2>2, <3>1
    <3>3. ended /\ n = m
        BY <3>2
    <3>4. s.queue = <<>> /\ s.state = "closed"
      <4>1. ~Chunks(g)
          BY <1>3, <1>8 DEF Chunks
      <4>2. s.queue = <<>>
          BY <1>1, <4>1 DEF Sane
      <4> QED BY <1>1, <1>3, <2>2, <4>2 DEF Sane
    <3>5. Len(t.queue) = 0 /\ Len(h) \in Nat
        BY <1>3, <3>4 DEF HeardOff
    <3>6. Chunks(h) => Holds(t, n) = m
      <4>1. ASSUME Chunks(h) PROVE Len(h) = 0
        <5>1. ASSUME Len(h) # 0 PROVE FALSE
          <6>1. 1 \in DOMAIN h
              BY <1>3, <5>1
          <6> QED BY <2>1, <4>1, <6>1 DEF Chunks
        <5> QED BY <5>1
      <4>2. Len(h) = 0 => n + Len(h) + Len(t.queue) = m
          BY <3>3, <3>5
      <4> QED BY <1>4, <4>1, <4>2 DEF Holds
    <3>7. \A i \in DOMAIN h : (\A j \in 1..(i - 1) : h[j] \in C) => i = 1
      <4>1. ASSUME NEW i \in DOMAIN h, i # 1 PROVE 1 \in 1..(i - 1) /\ h[1] \notin C
          BY <1>3, <2>1, <4>1
      <4> QED BY <4>1
    <3>8. \A i \in DOMAIN h : (\A j \in 1..(i - 1) : h[j] \in C) => n + i = m + 1
        BY <3>3, <3>7
    <3>9. Whole(t, n, m, ended)
        BY <1>4, <3>3, <3>6, <3>8 DEF Whole
    <3> QED BY <1>1, <1>3, <1>8, <2>2, <3>3, <3>9, ChunksAre
  <2>3. CASE g[1] = Failed
    <3>1. ASSUME s.state = "errored" PROVE Whole(t, n, m, ended)
      <4>1. \A i \in 1..Len(g) : g[i] # End
          BY <1>1, <1>3, <3>1 DEF Sane
      <4>2. \A i \in DOMAIN h : h[i] # End
          BY <1>3, <4>1
      <4> QED BY <1>4, <3>1, <4>2 DEF Whole
    <3> QED BY <1>1, <1>3, <1>8, <2>3, <3>1, ChunksAre
  <2>4. g[1] = End \/ g[1] = Failed
      BY <1>1, <1>3, <1>8
  <2> QED BY <2>2, <2>3, <2>4
<1> QED BY <1>7, <1>8

-----------------------------------------------------------------------------
(* What a step makes of a stream, and of whose reads wait in it.            *)

(* A stream does not open again.                                            *)
Later(t, s) ==
    /\ t.started = s.started /\ t.pulls = s.pulls
    /\ t.state = "readable" => s.state = "readable"
    /\ CanEnqueue(t) => CanEnqueue(s)
Closes(t, s) ==
    /\ CanEnqueue(s) /\ ~CanEnqueue(t) /\ Extends(t.got, s.got, End)
    /\ t.queue = s.queue /\ (t.got = s.got \/ t.queue = <<>>)
Fails(t, s) ==
    /\ s.state = "readable" /\ t.state # "readable" /\ Extends(t.got, s.got, Failed)
    /\ t.queue = <<>> \/ (t.queue = s.queue /\ t.got = s.got)
    /\ t.state = "errored" \/ Len(t.got) > Len(s.got)
Cancels(t, s) ==
    s.state = "readable" /\ t.state = "closed" /\ t.queue = <<>> /\ Extends(t.got, s.got, End)

(* A stream of the script's, or of the library's.                           *)
Own(s, str, tk, ak) ==
    /\ tk \subseteq MayTake(s) /\ AtMostOne(tk) /\ ak \in Seq(tk) /\ Len(ak) = Len(str.got) + str.reads
    /\ StreamOK(str, C) /\ (str.pull # "idle" => str.started /\ str.pulls)

LEMMA PortIsOwn ==
    ASSUME NEW s, NEW str, NEW tk, NEW ak, NEW stopped, ~NativeRaw(s)
    PROVE  Port(s, str, tk, ak, stopped) <=> Own(s, str, tk, ak)
BY DEF Port, Own, Waits

LEMMA OwnFields ==
    ASSUME NEW s, NEW str, NEW tk, NEW ak, Own(s, str, tk, ak)
    PROVE  /\ str \in ReadableType(C) /\ str.reads \in Nat /\ str.queue \in Seq(C)
           /\ str.got \in Seq(C \cup {End, Failed}) /\ Len(str.got) \in Nat
           /\ ak \in Seq(tk) /\ Len(ak) \in Nat
<1>1. str \in ReadableType(C) /\ ak \in Seq(tk)
    BY DEF Own, StreamOK
<1>2. str.reads \in Nat /\ str.queue \in Seq(C) /\ str.got \in Seq(C \cup {End, Failed})
    BY <1>1, ReadableFields
<1>3. \A S : \A x \in Seq(S) : Len(x) \in Nat
    OBVIOUS
<1> QED BY <1>1, <1>2, <1>3

LEMMA OwnActs ==
    ASSUME NEW s, NEW str, NEW tk, NEW ak, Own(s, str, tk, ak), str.started, str.pulls,
           NEW p \in {"idle", "called", "running", "acted"}
    PROVE  LET t == [str EXCEPT !.pull = p]
           IN  Own(s, t, tk, ak) /\ Stays(t, str) /\ Later(t, str)
<1>1. str \in ReadableType(C)
    BY OwnFields
<1>2. PICK t : t = [str EXCEPT !.pull = p]
    OBVIOUS
<1>3. /\ t \in ReadableType(C) /\ t.state = str.state /\ t.closing = str.closing /\ t.queue = str.queue
      /\ t.got = str.got /\ t.reads = str.reads /\ t.started = str.started /\ t.pulls = str.pulls
    BY <1>1, <1>2 DEF ReadableType
<1>4. StreamOK(t, C)
    BY <1>3, StreamAlike DEF Own
<1>5. Own(s, t, tk, ak)
    BY <1>3, <1>4 DEF Own
<1> QED BY <1>2, <1>3, <1>5 DEF Stays, Later, CanEnqueue

LEMMA OwnEnqueued ==
    ASSUME NEW s, NEW str, NEW tk, NEW ak, Own(s, str, tk, ak), CanEnqueue(str), NEW c \in C
    PROVE  LET t == Enqueued(str, c)
           IN  Own(s, t, tk, ak) /\ Takes(t, str, c) /\ Later(t, str)
<1>1. /\ str \in ReadableType(C) /\ str.reads \in Nat /\ str.got \in Seq(C \cup {End, Failed})
      /\ StreamOK(str, C)
    BY OwnFields DEF Own
<1>2. PICK t : t = Enqueued(str, c)
    OBVIOUS
<1>3. StreamOK(t, C) /\ Takes(t, str, c)
    BY <1>1, <1>2, ChunksAre, StreamEnqueued, EnqueuedTakes
<1>4. SizeOf[c] \in Nat
    BY ChunksAre DEF ChunkSet
<1>5. /\ t.state = str.state /\ t.closing = str.closing /\ t.started = str.started /\ t.pulls = str.pulls
      /\ str.reads > 0 => t.reads = str.reads - 1 /\ t.got = Append(str.got, c)
      /\ str.reads = 0 => t.reads = 0 /\ t.got = str.got
      /\ t.pull = IF Pullable(t) /\ WantsMore(t) /\ str.pull = "idle" /\ str.pulls
                  THEN "called" ELSE str.pull
    BY <1>1, <1>2, <1>4, EnqueuedIs
<1>6. Len(t.got) + t.reads = Len(str.got) + str.reads
  <2>1. Len(Append(str.got, c)) = Len(str.got) + 1 /\ Len(str.got) \in Nat
      BY <1>1
  <2>2. CASE str.reads > 0
    <3>1. Len(t.got) = Len(str.got) + 1 /\ t.reads = str.reads - 1
        BY <1>5, <2>1, <2>2
    <3> QED BY <1>1, <2>1, <3>1
  <2>3. CASE str.reads = 0
      BY <1>1, <1>5, <2>1, <2>3
  <2> QED BY <1>1, <2>2, <2>3
<1>7. t.pull # "idle" => t.started /\ t.pulls
    BY <1>5 DEF Own, Pullable
<1>8. Own(s, t, tk, ak)
    BY <1>3, <1>6, <1>7 DEF Own
<1>9. Later(t, str)
    BY <1>5 DEF Later, CanEnqueue
<1> QED BY <1>2, <1>3, <1>8, <1>9

LEMMA OwnCloses ==
    ASSUME NEW s, NEW str, NEW tk, NEW ak, Own(s, str, tk, ak), CanEnqueue(str)
    PROVE  LET t == CloseRequested(str)
           IN  Own(s, t, tk, ak) /\ Closes(t, str) /\ Later(t, str)
<1>1. /\ str \in ReadableType(C) /\ str.reads \in Nat /\ str.got \in Seq(C \cup {End, Failed})
      /\ StreamOK(str, C)
    BY OwnFields DEF Own
<1>2. PICK t : t = CloseRequested(str)
    OBVIOUS
<1>3. StreamOK(t, C)
    BY <1>1, <1>2, ChunksAre, StreamCloseRequested
<1>4. /\ t.closing /\ t.queue = str.queue /\ SamePull(t, str)
      /\ str.queue = <<>> =>
             /\ t.state = "closed" /\ t.reads = 0
             /\ Extends(t.got, str.got, End) /\ Len(t.got) = Len(str.got) + str.reads
      /\ str.queue # <<>> => t.state = "readable" /\ t.reads = str.reads /\ t.got = str.got
    BY <1>1, <1>2, CloseRequestedIs
<1>5. Len(t.got) + t.reads = Len(str.got) + str.reads
  <2>1. Len(str.got) \in Nat
      BY <1>1
  <2> QED BY <1>1, <1>4, <2>1
<1>6. Own(s, t, tk, ak)
    BY <1>3, <1>4, <1>5 DEF Own, SamePull
<1>7. \A g \in Seq(C \cup {End, Failed}) : Extends(g, g, End)
    BY DEF Extends
<1>8. Closes(t, str)
    BY <1>1, <1>4, <1>7 DEF Closes, CanEnqueue
<1>9. Later(t, str)
    BY <1>4 DEF Later, CanEnqueue, SamePull
<1> QED BY <1>2, <1>6, <1>8, <1>9

LEMMA OwnFails ==
    ASSUME NEW s, NEW str, NEW tk, NEW ak, Own(s, str, tk, ak)
    PROVE  LET t == ReadableErrored(str)
           IN  Own(s, t, tk, ak) /\ Later(t, str) /\ ((t = str /\ str.state # "readable") \/ Fails(t, str))
<1>1. /\ str \in ReadableType(C) /\ str.reads \in Nat /\ str.got \in Seq(C \cup {End, Failed})
      /\ StreamOK(str, C)
    BY OwnFields DEF Own
<1>2. PICK t : t = ReadableErrored(str)
    OBVIOUS
<1>3. StreamOK(t, C)
    BY <1>1, <1>2, ChunksAre, StreamErrored
<1>4. CASE str.state = "readable"
  <2>1. /\ t.state = "errored" /\ t.reads = 0 /\ t.queue = <<>> /\ t.closing = str.closing /\ SamePull(t, str)
        /\ Extends(t.got, str.got, Failed) /\ Len(t.got) = Len(str.got) + str.reads
      BY <1>1, <1>2, <1>4, ErroredIs
  <2>2. Len(str.got) \in Nat
      BY <1>1
  <2>3. Own(s, t, tk, ak)
      BY <1>1, <1>3, <2>1, <2>2 DEF Own, SamePull
  <2>4. Fails(t, str) /\ Later(t, str)
      BY <1>4, <2>1 DEF Fails, Later, CanEnqueue, SamePull
  <2> QED BY <1>2, <2>3, <2>4
<1>5. CASE str.state # "readable"
  <2>1. t = str
      BY <1>2, <1>5 DEF ReadableErrored
  <2> QED BY <1>2, <1>5, <2>1 DEF Later
<1> QED BY <1>4, <1>5

LEMMA OwnCancels ==
    ASSUME NEW s, NEW str, NEW tk, NEW ak, Own(s, str, tk, ak)
    PROVE  LET t == ReadableCancelled(str)
           IN  /\ Own(s, t, tk, ak) /\ Later(t, str) /\ t.state # "readable"
               /\ (t = str /\ str.state # "readable") \/ Cancels(t, str)
<1>1. /\ str \in ReadableType(C) /\ str.reads \in Nat /\ str.got \in Seq(C \cup {End, Failed})
      /\ StreamOK(str, C)
    BY OwnFields DEF Own
<1>2. PICK t : t = ReadableCancelled(str)
    OBVIOUS
<1>3. CASE str.state = "readable"
  <2>1. /\ t.state = "closed" /\ t.reads = 0 /\ t.queue = <<>> /\ t.closing = str.closing /\ SamePull(t, str)
        /\ Extends(t.got, str.got, End) /\ Len(t.got) = Len(str.got) + str.reads
      BY <1>1, <1>2, <1>3, CancelledIs
  <2>2. StreamOK(t, C)
      BY <1>1, <1>2, <1>3, ChunksAre, StreamCancelled
  <2>3. Len(str.got) \in Nat
      BY <1>1
  <2>4. Own(s, t, tk, ak)
      BY <1>1, <2>1, <2>2, <2>3 DEF Own, SamePull
  <2>5. Cancels(t, str) /\ Later(t, str)
      BY <1>3, <2>1 DEF Cancels, Later, CanEnqueue, SamePull
  <2> QED BY <1>2, <2>1, <2>4, <2>5
<1>4. CASE str.state # "readable"
  <2>1. t = str
      BY <1>2, <1>4 DEF ReadableCancelled
  <2> QED BY <1>2, <1>4, <2>1 DEF Later
<1> QED BY <1>3, <1>4

LEMMA OwnReads ==
    ASSUME NEW s, NEW str, NEW tk, NEW ak, Own(s, str, tk, ak),
           NEW tk2, tk \subseteq tk2, tk2 \subseteq MayTake(s), AtMostOne(tk2), NEW r \in tk2
    PROVE  LET t == ReadMade(str)
           IN  Own(s, t, tk2, Append(ak, r)) /\ Reads(t, str) /\ Later(t, str)
<1>1. /\ str \in ReadableType(C) /\ str.reads \in Nat /\ str.got \in Seq(C \cup {End, Failed})
      /\ str.queue \in Seq(C) /\ StreamOK(str, C) /\ Len(ak) = Len(str.got) + str.reads
    BY OwnFields DEF Own
<1>2. str.state \in {"readable", "closed", "errored"}
    BY <1>1, ReadableFields
<1>3. PICK t : t = ReadMade(str)
    OBVIOUS
<1>4. StreamOK(t, C)
    BY <1>1, <1>3, ChunksAre, StreamRead
<1>5. /\ t.closing = str.closing /\ t.started = str.started /\ t.pulls = str.pulls
      /\ t.state = "readable" => str.state = "readable"
    BY <1>1, <1>3, ReadMadeIs
<1>6. ak \in Seq(tk2)
  <2>1. ak \in Seq(tk)
      BY DEF Own
  <2> QED BY <2>1
<1>7. PICK a : a = Append(ak, r)
    OBVIOUS
<1>8. a \in Seq(tk2) /\ Len(a) = Len(ak) + 1
    BY <1>6, <1>7
<1>9. Len(str.got) \in Nat /\ \A x \in C \cup {End, Failed} : Len(Append(str.got, x)) = Len(str.got) + 1
    BY <1>1
<1>10. t.pull # "idle" => t.started /\ t.pulls
  <2>1. \/ SamePull(t, str)
        \/ t.pull = IF Pullable(t) /\ WantsMore(t) /\ str.pull = "idle" /\ str.pulls THEN "called" ELSE str.pull
      BY <1>1, <1>3, ReadMadeIs
  <2> QED BY <1>5, <2>1 DEF SamePull, Pullable, Own
<1>11. Len(a) = Len(t.got) + t.reads /\ Reads(t, str)
  <2>1. CASE str.queue # <<>>
    <3>1. str.state = "readable" /\ str.reads = 0
        BY <1>1, <1>2, <2>1 DEF StreamOK
    <3>2. /\ t.queue = Tail(str.queue) /\ t.got = Append(str.got, Head(str.queue)) /\ t.reads = 0
          /\ t.state = IF t.queue = <<>> /\ str.closing THEN "closed" ELSE "readable"
        BY <1>1, <1>3, <2>1, <3>1, ReadMadeIs
    <3>3. Head(str.queue) \in C
        BY <1>1, <2>1
    <3>4. Len(a) = Len(t.got) + t.reads
        BY <1>1, <1>8, <1>9, <3>1, <3>2, <3>3
    <3> QED BY <1>5, <2>1, <3>1, <3>2, <3>4 DEF Reads
  <2>2. CASE str.queue = <<>> /\ str.state = "closed"
    <3>1. t.state = "closed" /\ t.queue = <<>> /\ t.reads = str.reads /\ t.got = Append(str.got, End)
        BY <1>1, <1>3, <2>2, ReadMadeIs
    <3>2. Len(a) = Len(t.got) + t.reads
        BY <1>1, <1>8, <1>9, <3>1
    <3> QED BY <1>5, <2>2, <3>1, <3>2 DEF Reads
  <2>3. CASE str.queue = <<>> /\ str.state = "errored"
    <3>1. t.state = "errored" /\ t.queue = <<>> /\ t.reads = str.reads /\ t.got = Append(str.got, Failed)
        BY <1>1, <1>3, <2>3, ReadMadeIs
    <3>2. Len(a) = Len(t.got) + t.reads
        BY <1>1, <1>8, <1>9, <3>1
    <3> QED BY <1>5, <2>3, <3>1, <3>2 DEF Reads
  <2>4. CASE str.queue = <<>> /\ str.state = "readable"
    <3>1. t.state = "readable" /\ t.queue = <<>> /\ t.reads = str.reads + 1 /\ t.got = str.got
        BY <1>1, <1>3, <2>4, ReadMadeIs
    <3>2. Len(a) = Len(t.got) + t.reads
        BY <1>1, <1>8, <1>9, <3>1
    <3> QED BY <1>5, <2>4, <3>1, <3>2 DEF Reads
  <2> QED BY <1>2, <2>1, <2>2, <2>3, <2>4
<1>12. Own(s, t, tk2, a)
    BY <1>4, <1>8, <1>10, <1>11 DEF Own
<1>13. Later(t, str)
    BY <1>5 DEF Later, CanEnqueue
<1> QED BY <1>3, <1>7, <1>11, <1>12, <1>13

LEMMA OwnHeard ==
    ASSUME NEW s, NEW str, NEW tk, NEW ak, Own(s, str, tk, ak), str.got # <<>>
    PROVE  LET t == [str EXCEPT !.got = Tail(@)]
           IN  Own(s, t, tk, Tail(ak)) /\ HeardOff(t, str) /\ Later(t, str)
<1>1. /\ str \in ReadableType(C) /\ str.reads \in Nat /\ str.got \in Seq(C \cup {End, Failed})
      /\ StreamOK(str, C) /\ Len(ak) = Len(str.got) + str.reads /\ ak \in Seq(tk)
    BY OwnFields DEF Own
<1>2. PICK t : t = [str EXCEPT !.got = Tail(@)]
    OBVIOUS
<1>3. StreamOK(t, C)
    BY <1>1, <1>2, ChunksAre, StreamTaken
<1>4. /\ t.got = Tail(str.got) /\ SamePull(t, str) /\ t.state = str.state /\ t.queue = str.queue
      /\ t.closing = str.closing /\ t.reads = str.reads
    BY <1>1, <1>2, TakenIs
<1>5. Len(str.got) \in Nat /\ Len(str.got) >= 1 /\ Len(Tail(str.got)) = Len(str.got) - 1
    BY <1>1
<1>6. Len(ak) >= 1
    BY <1>1, <1>5
<1>7. PICK a : a = Tail(ak)
    OBVIOUS
<1>8. a \in Seq(tk) /\ Len(a) = Len(ak) - 1
    BY <1>1, <1>6, <1>7
<1>9. Own(s, t, tk, a)
    BY <1>1, <1>3, <1>4, <1>5, <1>8 DEF Own, SamePull
<1>10. HeardOff(t, str) /\ Later(t, str)
    BY <1>4 DEF HeardOff, Later, SamePull, CanEnqueue
<1> QED BY <1>2, <1>7, <1>9, <1>10

LEMMA OwnStarts ==
    ASSUME NEW s, NEW str, NEW tk, NEW ak, Own(s, str, tk, ak)
    PROVE  LET t == Started(str)
           IN  Own(s, t, tk, ak) /\ Stays(t, str) /\ t.started /\ t.pulls = str.pulls
<1>1. str \in ReadableType(C) /\ StreamOK(str, C)
    BY OwnFields DEF Own
<1>2. PICK u : u = [str EXCEPT !.started = TRUE]
    OBVIOUS
<1>3. /\ u \in ReadableType(C) /\ u.state = str.state /\ u.queue = str.queue /\ u.got = str.got
      /\ u.reads = str.reads /\ u.closing = str.closing /\ u.started /\ u.pulls = str.pulls /\ u.pull = str.pull
    BY <1>1, <1>2 DEF ReadableType
<1>4. PICK t : t = Pulled(u)
    OBVIOUS
<1>5. /\ t \in ReadableType(C) /\ Alike(t, u)
      /\ t.pull = IF Pullable(u) /\ WantsMore(u) /\ u.pull = "idle" /\ u.pulls THEN "called" ELSE u.pull
    BY <1>3, <1>4, PulledKeeps
<1>6. StreamOK(t, C)
    BY <1>1, <1>3, <1>5, StreamAlike DEF Alike
<1>7. t.pull # "idle" => t.started /\ t.pulls
    BY <1>3, <1>5 DEF Alike, Own
<1>8. Own(s, t, tk, ak)
    BY <1>3, <1>5, <1>6, <1>7 DEF Own, Alike
<1> QED BY <1>2, <1>3, <1>4, <1>5, <1>8 DEF Started, Stays, Alike

LEMMA OwnPullEnds ==
    ASSUME NEW s, NEW str, NEW tk, NEW ak, Own(s, str, tk, ak), str.pull # "idle"
    PROVE  LET t == PullEnded(str)
           IN  Own(s, t, tk, ak) /\ Stays(t, str) /\ Later(t, str)
<1>1. str \in ReadableType(C) /\ StreamOK(str, C) /\ str.started /\ str.pulls
    BY OwnFields DEF Own
<1>2. PICK u : u = [str EXCEPT !.pull = "idle", !.again = FALSE]
    OBVIOUS
<1>3. /\ u \in ReadableType(C) /\ u.state = str.state /\ u.queue = str.queue /\ u.got = str.got
      /\ u.reads = str.reads /\ u.closing = str.closing /\ u.started = str.started /\ u.pulls = str.pulls
    BY <1>1, <1>2 DEF ReadableType
<1>4. PICK t : t = PullEnded(str)
    OBVIOUS
<1>5. t = u \/ t = Pulled(u)
    BY <1>2, <1>4 DEF PullEnded
<1>6. t \in ReadableType(C) /\ Alike(t, u)
    BY <1>3, <1>5, PulledKeeps DEF Alike
<1>7. StreamOK(t, C)
    BY <1>1, <1>3, <1>6, StreamAlike DEF Alike
<1>8. Own(s, t, tk, ak)
    BY <1>1, <1>3, <1>6, <1>7 DEF Own, Alike
<1> QED BY <1>3, <1>4, <1>6, <1>8 DEF Stays, Later, Alike, CanEnqueue

(* What the stream above, or a source, hands over: a chunk, the end, an     *)
(* error -- or nothing, to a stream that is not readable any more.          *)
Gets(t, s, a) ==
    \/ a \in C /\ CanEnqueue(s) /\ Takes(t, s, a)
    \/ a = End /\ Closes(t, s)
    \/ a = Failed /\ Fails(t, s)
    \/ ~CanEnqueue(s) /\ Stays(t, s)

LEMMA StaysOn ==
    ASSUME NEW s, NEW t, NEW u, Stays(u, t), NEW a
    PROVE  /\ Gets(t, s, a) => Gets(u, s, a)
           /\ Later(t, s) /\ Later(u, t) => Later(u, s)
           /\ Stays(t, s) => Stays(u, s)
BY DEF Stays, Gets, Takes, Closes, Fails, Later, CanEnqueue

LEMMA OwnPassed ==
    ASSUME NEW s, NEW str, NEW tk, NEW ak, Own(s, str, tk, ak), NEW a \in C \cup {End, Failed}
    PROVE  LET t == Passed(str, a)
           IN  Own(s, t, tk, ak) /\ Gets(t, str, a) /\ Later(t, str)
<1>1. PICK t : t = Passed(str, a)
    OBVIOUS
<1>2. CASE a = Failed
  <2>1. t = ReadableErrored(str)
      BY <1>1, <1>2 DEF Passed
  <2>2. Own(s, t, tk, ak) /\ Later(t, str) /\ ((t = str /\ str.state # "readable") \/ Fails(t, str))
      BY <2>1, OwnFails
  <2>3. Gets(t, str, a)
      BY <1>2, <2>2 DEF Gets, Stays, CanEnqueue
  <2> QED BY <1>1, <2>2, <2>3
<1>3. CASE a # Failed /\ ~CanEnqueue(str)
  <2>1. t = str
      BY <1>1, <1>3 DEF Passed
  <2> QED BY <1>1, <1>3, <2>1 DEF Gets, Stays, Later
<1>4. CASE a = End /\ CanEnqueue(str)
  <2>1. t = CloseRequested(str)
      BY <1>1, <1>4, ChunksAre DEF Passed
  <2>2. Own(s, t, tk, ak) /\ Closes(t, str) /\ Later(t, str)
      BY <1>4, <2>1, OwnCloses
  <2> QED BY <1>1, <1>4, <2>2 DEF Gets
<1>5. CASE a \in C /\ CanEnqueue(str)
  <2>1. t = Enqueued(str, a)
      BY <1>1, <1>5, ChunksAre DEF Passed
  <2>2. Own(s, t, tk, ak) /\ Takes(t, str, a) /\ Later(t, str)
      BY <1>5, <2>1, OwnEnqueued
  <2> QED BY <1>1, <1>5, <2>2 DEF Gets
<1> QED BY <1>2, <1>3, <1>4, <1>5

(* Passed on within a pull().                                               *)
LEMMA OwnPassedOn ==
    ASSUME NEW s, NEW str, NEW tk, NEW ak, Own(s, str, tk, ak), NEW a \in C \cup {End, Failed},
           str.started, str.pulls
    PROVE  LET t == [Passed(str, a) EXCEPT !.pull = "acted"]
           IN  Own(s, t, tk, ak) /\ Gets(t, str, a) /\ Later(t, str)
<1>1. PICK u : u = Passed(str, a)
    OBVIOUS
<1>2. Own(s, u, tk, ak) /\ Gets(u, str, a) /\ Later(u, str)
    BY <1>1, OwnPassed
<1>3. PICK t : t = [u EXCEPT !.pull = "acted"]
    OBVIOUS
<1>4. u.started /\ u.pulls
    BY <1>2 DEF Later
<1>5. Own(s, t, tk, ak) /\ Stays(t, u) /\ Later(t, u)
    BY <1>2, <1>3, <1>4, OwnActs
<1> QED BY <1>1, <1>2, <1>3, <1>5, StaysOn

-----------------------------------------------------------------------------
(* The native stream.                                                       *)
Net(str, tk, ak, stopped) ==
    /\ tk \subseteq MayTake("raw") /\ ak \in Seq(tk)
    /\ Len(ak) = Len(str.got) + IF stopped THEN 0 ELSE str.reads
    /\ NativeOK(str, stopped)

LEMMA PortIsNet ==
    ASSUME NEW s, NEW str, NEW tk, NEW ak, NEW stopped, NativeRaw(s)
    PROVE  Port(s, str, tk, ak, stopped) <=> Net(str, tk, ak, stopped)
BY DEF Port, Net, Waits, NativeRaw

LEMMA NetFields ==
    ASSUME NEW str, NEW tk, NEW ak, NEW stopped, Net(str, tk, ak, stopped)
    PROVE  /\ str \in ReadableType(C) /\ str.reads \in Nat /\ str.queue \in Seq(C)
           /\ str.got \in Seq(C \cup {End, Failed}) /\ Len(str.got) \in Nat
           /\ str.state \in {"readable", "closed", "errored"}
           /\ ak \in Seq(tk) /\ Len(ak) \in Nat /\ Sane(str)
           /\ ~str.pulls /\ ~str.started /\ str.pull = "idle" /\ ~str.closing
           /\ str.reads > 0 => str.queue = <<>> /\ (str.state = "readable" \/ stopped)
           /\ stopped => str.state # "readable"
           /\ CanEnqueue(str) <=> str.state = "readable"
<1>1. str \in ReadableType(C) /\ ak \in Seq(tk) /\ NativeOK(str, stopped)
    BY DEF Net, NativeOK
<1>2. /\ str.reads \in Nat /\ str.queue \in Seq(C) /\ str.got \in Seq(C \cup {End, Failed})
      /\ str.state \in {"readable", "closed", "errored"}
    BY <1>1, ReadableFields
<1>3. \A S : \A x \in Seq(S) : Len(x) \in Nat
    OBVIOUS
<1> QED BY <1>1, <1>2, <1>3, NativeSane DEF NativeOK, CanEnqueue

(* A native stream that is over, or goes on as before.                      *)
LEMMA NetIs ==
    ASSUME NEW str, NEW tk, NEW ak, NEW stopped, Net(str, tk, ak, stopped),
           NEW t \in ReadableType(C), ~t.pulls, ~t.started, t.pull = "idle", ~t.closing, Sane(t),
           t.reads > 0 => t.queue = <<>> /\ (t.state = "readable" \/ stopped),
           stopped => t.state # "readable"
    PROVE  NativeOK(t, stopped)
BY DEF NativeOK, Sane

LEMMA NetEnqueued ==
    ASSUME NEW str, NEW tk, NEW ak, NEW stopped, Net(str, tk, ak, stopped), str.state = "readable", NEW c \in C
    PROVE  LET t == Enqueued(str, c)
           IN  Net(t, tk, ak, stopped) /\ Takes(t, str, c) /\ Later(t, str) /\ t.state = str.state
<1>1. /\ str \in ReadableType(C) /\ str.reads \in Nat /\ str.queue \in Seq(C)
      /\ ~str.pulls /\ ~str.started /\ str.pull = "idle" /\ ~str.closing
      /\ str.reads > 0 => str.queue = <<>>
      /\ ~stopped /\ Sane(str)
    BY NetFields
<1>2. PICK t : t = Enqueued(str, c)
    OBVIOUS
<1>3. SizeOf[c] \in Nat
    BY ChunksAre DEF ChunkSet
<1>4. /\ t \in ReadableType(C) /\ t.state = str.state /\ t.closing = str.closing /\ t.started = str.started
      /\ t.pulls = str.pulls
      /\ str.reads > 0 => t.reads = str.reads - 1 /\ t.got = Append(str.got, c) /\ t.queue = str.queue
      /\ str.reads = 0 => t.reads = 0 /\ t.got = str.got /\ t.queue = Append(str.queue, c)
      /\ t.pull = IF Pullable(t) /\ WantsMore(t) /\ str.pull = "idle" /\ str.pulls
                  THEN "called" ELSE str.pull
    BY <1>1, <1>2, <1>3, EnqueuedIs
<1>5. PICK g \in Seq(C \cup {End, Failed}) : g = str.got
    BY NetFields
<1>6. Len(g) \in Nat /\ Len(Append(g, c)) = Len(g) + 1
    OBVIOUS
<1>7. Chunks(g)
    BY <1>1, <1>5 DEF Sane
<1>8. Chunks(t.got) /\ Len(t.got) + t.reads = Len(g) + str.reads
  <2>1. CASE str.reads > 0
    <3>1. PICK h : h = Append(g, c)
        OBVIOUS
    <3>2. DOMAIN h = 1..(Len(g) + 1) /\ h[Len(g) + 1] = c /\ (\A i \in 1..Len(g) : h[i] = g[i]) /\ DOMAIN g = 1..Len(g)
        BY <3>1
    <3>3. Chunks(h)
        BY <1>7, <3>2 DEF Chunks
    <3>4. t.got = h /\ Len(t.got) = Len(g) + 1 /\ t.reads = str.reads - 1
        BY <1>4, <1>5, <1>6, <2>1, <3>1
    <3> QED BY <1>1, <1>6, <3>3, <3>4
  <2>2. CASE str.reads = 0
      BY <1>4, <1>5, <1>7, <2>2
  <2> QED BY <1>1, <2>1, <2>2
<1>9. t.queue \in Seq(C) /\ t.got \in Seq(C \cup {End, Failed})
    BY <1>4, ReadableFields
<1>10. Sane(t)
    BY <1>4, <1>8, <1>9, ChunksAre DEF Sane, Chunks
<1>11. t.reads > 0 => t.queue = <<>>
    BY <1>1, <1>4
<1>12. NativeOK(t, stopped)
    BY <1>1, <1>4, <1>10, <1>11, NetIs
<1>13. Net(t, tk, ak, stopped)
    BY <1>1, <1>5, <1>8, <1>12 DEF Net
<1>14. Takes(t, str, c)
    BY <1>1, <1>4 DEF Takes, CanEnqueue
<1> QED BY <1>2, <1>4, <1>13, <1>14 DEF Later, CanEnqueue

(* The transfer is done, or fails: reads that wait are answered.            *)
LEMMA NetAnswers ==
    ASSUME NEW str, NEW tk, NEW ak, NEW stopped, Net(str, tk, ak, stopped), str.state = "readable",
           NEW a \in {End, Failed}, NEW t \in ReadableType(C),
           ~t.pulls, ~t.started, t.pull = "idle", ~t.closing, t.reads = 0,
           t.state \in {"closed", "errored"}, a = End => t.state = "closed",
           t.queue = <<>> \/ (t.queue = str.queue /\ (t.queue # <<>> => t.got = str.got)),
           Extends(t.got, str.got, a), Len(t.got) = Len(str.got) + str.reads
    PROVE  Net(t, tk, ak, stopped)
<1>1. ~stopped /\ Sane(str)
    BY NetFields
<1>2. PICK g \in Seq(C \cup {End, Failed}) : g = str.got
    BY NetFields
<1>3. PICK h \in Seq(C \cup {End, Failed}) : h = t.got
    BY ReadableFields
<1>4. Chunks(g) /\ DOMAIN g = 1..Len(g) /\ DOMAIN h = 1..Len(h)
    BY <1>1, <1>2 DEF Sane
<1>5. /\ \A i \in 1..Len(g) : i \in 1..Len(h) /\ h[i] = g[i]
      /\ \A i \in 1..Len(h) : i \notin 1..Len(g) => h[i] = a
    BY <1>2, <1>3, <1>4 DEF Extends
<1>6. \A i \in 1..Len(h) : h[i] = End => t.state = "closed"
    BY <1>4, <1>5, ChunksAre DEF Chunks
<1>7. ASSUME NEW i \in 1..Len(h), NEW j \in 1..Len(h), i < j, h[j] \in C PROVE h[i] \in C
  <2>1. j \in 1..Len(g)
      BY <1>5, <1>7, ChunksAre
  <2>2. i \in 1..Len(g)
      BY <1>7, <2>1
  <2> QED BY <1>4, <1>5, <2>2 DEF Chunks
<1>8. t.queue # <<>> => Chunks(h)
    BY <1>2, <1>3, <1>4
<1>9. t.queue \in Seq(C)
    BY ReadableFields
<1>10. Sane(t)
    BY <1>3, <1>4, <1>6, <1>7, <1>8, <1>9 DEF Sane
<1>11. NativeOK(t, stopped)
    BY <1>1, <1>10, NetIs
<1>12. Len(t.got) \in Nat
    BY <1>3
<1>13. Len(ak) = Len(t.got) + (IF stopped THEN 0 ELSE t.reads)
    BY <1>1, <1>12 DEF Net
<1> QED BY <1>11, <1>13 DEF Net

LEMMA NetCloses ==
    ASSUME NEW str, NEW tk, NEW ak, NEW stopped, Net(str, tk, ak, stopped), str.state = "readable"
    PROVE  LET t == ReadableClosed(str)
           IN  Net(t, tk, ak, stopped) /\ Closes(t, str) /\ Later(t, str) /\ t.state # "readable"
<1>1. /\ str \in ReadableType(C) /\ str.reads \in Nat
      /\ ~str.pulls /\ ~str.started /\ str.pull = "idle" /\ ~str.closing
      /\ str.reads > 0 => str.queue = <<>>
    BY NetFields
<1>2. PICK t : t = ReadableClosed(str)
    OBVIOUS
<1>3. /\ t \in ReadableType(C) /\ t.state = "closed" /\ t.reads = 0
      /\ t.queue = str.queue /\ t.closing = str.closing /\ SamePull(t, str)
      /\ Extends(t.got, str.got, End) /\ Len(t.got) = Len(str.got) + str.reads
      /\ str.reads = 0 => t.got = str.got
    BY <1>1, <1>2, ClosedIs
<1>4. t.queue # <<>> => t.got = str.got
    BY <1>1, <1>3
<1>5. Net(t, tk, ak, stopped)
    BY <1>1, <1>3, <1>4, NetAnswers DEF SamePull
<1>6. Closes(t, str)
    BY <1>1, <1>3, <1>4 DEF Closes, CanEnqueue
<1> QED BY <1>2, <1>3, <1>5, <1>6 DEF Later, SamePull, CanEnqueue

LEMMA NetFails ==
    ASSUME NEW str, NEW tk, NEW ak, NEW stopped, Net(str, tk, ak, stopped), str.state = "readable"
    PROVE  \A t \in {NativeFailed(str), TornDown(str)} :
               Net(t, tk, ak, stopped) /\ Fails(t, str) /\ Later(t, str)
<1>1. /\ str \in ReadableType(C) /\ str.reads \in Nat /\ Len(str.got) \in Nat
      /\ str.got \in Seq(C \cup {End, Failed})
      /\ ~str.pulls /\ ~str.started /\ str.pull = "idle" /\ ~str.closing
      /\ str.reads > 0 => str.queue = <<>>
    BY NetFields
<1>2. PICK u : u = NativeFailed(str)
    OBVIOUS
<1>3. /\ u \in ReadableType(C) /\ u.reads = 0 /\ u.state \in {"closed", "errored"}
      /\ u.queue = str.queue /\ u.closing = str.closing /\ SamePull(u, str)
      /\ Extends(u.got, str.got, Failed) /\ Len(u.got) = Len(str.got) + str.reads
      /\ str.reads = 0 => u.got = str.got /\ u.state = "errored"
  <2>1. CASE str.reads > 0
    <3>1. PICK v : v = Answered(str, Failed)
        OBVIOUS
    <3>2. /\ v \in ReadableType(C) /\ v.reads = 0
          /\ Extends(v.got, str.got, Failed) /\ Len(v.got) = Len(str.got) + str.reads
          /\ \A f \in {"state", "queue", "size", "closing", "started", "pulls", "pull", "again"} :
                 v[f] = str[f]
        BY <1>1, <3>1, AnsweredKeeps
    <3>3. /\ v.queue = str.queue /\ v.closing = str.closing /\ SamePull(v, str)
        BY <3>2 DEF SamePull
    <3>4. u = [v EXCEPT !.state = "closed"]
        BY <1>2, <2>1, <3>1 DEF NativeFailed
    <3>5. /\ u \in ReadableType(C) /\ u.reads = v.reads /\ u.state = "closed" /\ u.queue = v.queue
          /\ u.closing = v.closing /\ SamePull(u, v) /\ u.got = v.got
        BY <3>2, <3>4 DEF ReadableType, SamePull
    <3> QED BY <2>1, <3>2, <3>3, <3>5 DEF SamePull
  <2>2. CASE str.reads = 0
    <3>1. u = [str EXCEPT !.state = "errored"]
        BY <1>2, <2>2 DEF NativeFailed
    <3>2. /\ u \in ReadableType(C) /\ u.reads = 0 /\ u.state = "errored" /\ u.queue = str.queue
          /\ u.closing = str.closing /\ SamePull(u, str) /\ u.got = str.got
        BY <1>1, <2>2, <3>1 DEF ReadableType, SamePull
    <3>3. \A g \in Seq(C \cup {End, Failed}) : Extends(g, g, Failed)
        BY DEF Extends
    <3> QED BY <1>1, <2>2, <3>2, <3>3
  <2> QED BY <1>1, <2>1, <2>2
<1>4. u.queue # <<>> => u.got = str.got
    BY <1>1, <1>3
<1>5. Net(u, tk, ak, stopped)
    BY <1>1, <1>3, <1>4, NetAnswers, ChunksAre DEF SamePull
<1>6. u.state = "errored" \/ Len(u.got) > Len(str.got)
    BY <1>1, <1>3
<1>7. Fails(u, str) /\ Later(u, str)
    BY <1>3, <1>4, <1>6 DEF Fails, Later, SamePull, CanEnqueue
<1>8. PICK e \in Seq(C) : e = <<>>
    BY EmptySeq
<1>9. PICK v : v = [u EXCEPT !.queue = <<>>]
    OBVIOUS
<1>10. /\ v \in ReadableType(C) /\ v.reads = 0 /\ v.state = u.state /\ v.queue = <<>>
       /\ v.closing = u.closing /\ SamePull(v, u) /\ v.got = u.got
    BY <1>3, <1>8, <1>9 DEF ReadableType, SamePull
<1>11. Net(v, tk, ak, stopped)
    BY <1>1, <1>3, <1>10, NetAnswers, ChunksAre DEF SamePull
<1>12. Fails(v, str) /\ Later(v, str)
    BY <1>3, <1>6, <1>10 DEF Fails, Later, SamePull, CanEnqueue
<1>13. v = TornDown(str)
    BY <1>2, <1>9 DEF TornDown
<1> QED BY <1>2, <1>5, <1>7, <1>11, <1>12, <1>13

(* fetch() fails before there is a Response.                                *)
LEMMA NetIsNone ==
    ASSUME NEW str, NEW ak, NEW stopped, Net(str, {}, ak, stopped), str.state = "readable"
    PROVE  LET t == [str EXCEPT !.state = "closed"]
           IN  /\ Net(t, {}, ak, stopped) /\ Later(t, str) /\ t.state = "closed"
               /\ t.got = str.got /\ t.queue = str.queue
<1>1. /\ str \in ReadableType(C) /\ str.reads \in Nat /\ Len(str.got) \in Nat
      /\ ~str.pulls /\ ~str.started /\ str.pull = "idle" /\ ~str.closing
      /\ ~stopped /\ ak \in Seq({}) /\ Sane(str)
    BY NetFields
<1>2. Len(ak) = 0
    BY <1>1
<1>3. Len(ak) = Len(str.got) + str.reads
    BY <1>1 DEF Net
<1>4. str.reads = 0
    BY <1>1, <1>2, <1>3
<1>5. PICK t : t = [str EXCEPT !.state = "closed"]
    OBVIOUS
<1>6. /\ t \in ReadableType(C) /\ t.reads = 0 /\ t.state = "closed" /\ t.queue = str.queue
      /\ t.closing = str.closing /\ SamePull(t, str) /\ t.got = str.got
    BY <1>1, <1>4, <1>5 DEF ReadableType, SamePull
<1>7. Sane(t)
    BY <1>1, <1>6 DEF Sane
<1>8. NativeOK(t, stopped)
    BY <1>1, <1>6, <1>7, NetIs DEF SamePull
<1>9. Net(t, {}, ak, stopped)
    BY <1>4, <1>6, <1>8 DEF Net
<1> QED BY <1>1, <1>5, <1>6, <1>9 DEF Later, SamePull, CanEnqueue

LEMMA NetCancels ==
    ASSUME NEW str, NEW tk, NEW ak, NEW stopped, Net(str, tk, ak, stopped)
    PROVE  LET t == NativeCancelled(str)
           IN  /\ Net(t, tk, SubSeq(ak, 1, Len(str.got)), TRUE) /\ Later(t, str) /\ t.state # "readable"
               /\ Cancels(t, str) \/ t = str
<1>1. /\ str \in ReadableType(C) /\ str.reads \in Nat /\ Len(str.got) \in Nat
      /\ str.got \in Seq(C \cup {End, Failed}) /\ str.state \in {"readable", "closed", "errored"}
      /\ ~str.pulls /\ ~str.started /\ str.pull = "idle" /\ ~str.closing
      /\ str.reads > 0 => str.queue = <<>>
      /\ ak \in Seq(tk) /\ Sane(str) /\ tk \subseteq MayTake("raw")
    BY NetFields DEF Net
<1>2. Len(str.got) <= Len(ak)
  <2>1. Len(ak) = Len(str.got) + IF stopped THEN 0 ELSE str.reads
      BY DEF Net
  <2> QED BY <1>1, <2>1
<1>3. PICK a : a = SubSeq(ak, 1, Len(str.got))
    OBVIOUS
<1>4. \A k \in Nat : k <= Len(ak) => SubSeq(ak, 1, k) \in Seq(tk) /\ Len(SubSeq(ak, 1, k)) = k
    BY <1>1
<1>5. a \in Seq(tk) /\ Len(a) = Len(str.got)
    BY <1>1, <1>2, <1>3, <1>4
<1>6. PICK t : t = NativeCancelled(str)
    OBVIOUS
<1>7. PICK e \in Seq(C) : e = <<>>
    BY EmptySeq
<1>8. CASE str.state = "readable"
  <2>1. t = [str EXCEPT !.state = "closed", !.queue = <<>>]
      BY <1>6, <1>8 DEF NativeCancelled
  <2>2. /\ t \in ReadableType(C) /\ t.reads = str.reads /\ t.state = "closed" /\ t.queue = <<>>
        /\ t.closing = str.closing /\ SamePull(t, str) /\ t.got = str.got
      BY <1>1, <1>7, <2>1 DEF ReadableType, SamePull
  <2>3. Sane(t)
      BY <1>1, <1>7, <2>2 DEF Sane
  <2>4. NativeOK(t, TRUE)
      BY <1>1, <2>2, <2>3 DEF NativeOK, Sane, SamePull
  <2>5. Net(t, tk, a, TRUE)
    <3>1. Len(a) = Len(t.got) + 0
        BY <1>1, <1>5, <2>2
    <3> QED BY <1>1, <1>5, <2>4, <3>1 DEF Net
  <2>6. \A g \in Seq(C \cup {End, Failed}) : Extends(g, g, End)
      BY DEF Extends
  <2>7. Cancels(t, str) /\ Later(t, str)
      BY <1>1, <1>8, <2>2, <2>6 DEF Cancels, Later, SamePull, CanEnqueue
  <2> QED BY <1>3, <1>6, <2>2, <2>5, <2>7
<1>9. CASE str.state # "readable"
  <2>1. t = str
      BY <1>6, <1>9 DEF NativeCancelled
  <2>2. NativeOK(t, TRUE)
      BY <1>1, <1>9, <2>1 DEF NativeOK, Sane
  <2>3. Net(t, tk, a, TRUE)
    <3>1. Len(a) = Len(t.got) + 0
        BY <1>1, <1>5, <2>1
    <3> QED BY <1>1, <1>5, <2>2, <3>1 DEF Net
  <2> QED BY <1>3, <1>6, <1>9, <2>1, <2>3 DEF Later
<1> QED BY <1>8, <1>9

LEMMA NetHeard ==
    ASSUME NEW str, NEW tk, NEW ak, NEW stopped, Net(str, tk, ak, stopped), str.got # <<>>
    PROVE  LET t == [str EXCEPT !.got = Tail(@)]
           IN  Net(t, tk, Tail(ak), stopped) /\ HeardOff(t, str) /\ Later(t, str)
<1>1. /\ str \in ReadableType(C) /\ str.reads \in Nat
      /\ ~str.pulls /\ ~str.started /\ str.pull = "idle" /\ ~str.closing
      /\ str.reads > 0 => str.queue = <<>> /\ (str.state = "readable" \/ stopped)
      /\ stopped => str.state # "readable"
      /\ ak \in Seq(tk) /\ Sane(str) /\ tk \subseteq MayTake("raw")
    BY NetFields DEF Net
<1>2. PICK w \in Nat : w = IF stopped THEN 0 ELSE str.reads
    BY <1>1
<1>3. PICK g \in Seq(C \cup {End, Failed}) : g = str.got
    BY NetFields
<1>4. PICK h : h = Tail(g)
    OBVIOUS
<1>5. /\ Len(g) \in Nat /\ Len(g) >= 1 /\ Len(h) = Len(g) - 1 /\ h \in Seq(C \cup {End, Failed})
      /\ DOMAIN g = 1..Len(g) /\ DOMAIN h = 1..(Len(g) - 1) /\ \A i \in 1..(Len(g) - 1) : h[i] = g[i + 1]
    BY <1>3, <1>4
<1>6. PICK t : t = [str EXCEPT !.got = Tail(@)]
    OBVIOUS
<1>7. /\ t \in ReadableType(C) /\ t.got = h /\ SamePull(t, str) /\ t.state = str.state
      /\ t.queue = str.queue /\ t.closing = str.closing /\ t.reads = str.reads
    BY <1>1, <1>3, <1>4, <1>6, TakenIs
<1>8. \A i \in DOMAIN h : i + 1 \in DOMAIN g /\ h[i] = g[i + 1]
    BY <1>5
<1>9. Chunks(g) => Chunks(h)
    BY <1>8 DEF Chunks
<1>10. \A i \in DOMAIN h : h[i] = End => t.state = "closed"
    BY <1>1, <1>3, <1>7, <1>8 DEF Sane
<1>11. ASSUME NEW i \in DOMAIN h, NEW j \in DOMAIN h, i < j, h[j] \in C PROVE h[i] \in C
  <2>1. i + 1 < j + 1 /\ i + 1 \in DOMAIN g /\ j + 1 \in DOMAIN g /\ h[i] = g[i + 1] /\ h[j] = g[j + 1]
      BY <1>5, <1>8, <1>11
  <2> QED BY <1>1, <1>3, <1>11, <2>1 DEF Sane
<1>12. t.queue # <<>> \/ t.state = "readable" => Chunks(h)
    BY <1>1, <1>3, <1>7, <1>9 DEF Sane
<1>13. Sane(t)
    BY <1>1, <1>5, <1>7, <1>10, <1>11, <1>12 DEF Sane
<1>14. NativeOK(t, stopped)
    BY <1>1, <1>7, <1>13, NetIs DEF SamePull
<1>15. Len(ak) = Len(g) + w
    BY <1>2, <1>3 DEF Net
<1>16. PICK a : a = Tail(ak)
    OBVIOUS
<1>17. Len(ak) >= 1
    BY <1>5, <1>15
<1>18. a \in Seq(tk) /\ Len(a) = Len(ak) - 1
    BY <1>1, <1>16, <1>17
<1>19. Len(a) = Len(h) + w
    BY <1>5, <1>15, <1>18
<1>20. Net(t, tk, a, stopped)
    BY <1>1, <1>2, <1>7, <1>14, <1>18, <1>19 DEF Net
<1> QED BY <1>3, <1>4, <1>6, <1>7, <1>16, <1>20 DEF HeardOff, Later, SamePull, CanEnqueue

(* A read() takes the place of one that waits.                              *)
LEMMA NetReads ==
    ASSUME NEW str, NEW tk, NEW ak, NEW stopped, Net(str, tk, ak, stopped),
           NEW tk2, tk \subseteq tk2, tk2 \subseteq MayTake("raw"), NEW r \in tk2
    PROVE  LET t == NativeRead(str)
           IN  /\ Net(t, tk2, Append(SubSeq(ak, 1, Len(str.got)), r), stopped)
               /\ Reads(t, str) /\ Later(t, str)
<1>1. /\ str \in ReadableType(C) /\ str.reads \in Nat /\ Len(str.got) \in Nat
      /\ str.state \in {"readable", "closed", "errored"} /\ str.queue \in Seq(C)
      /\ ~str.pulls /\ ~str.started /\ str.pull = "idle" /\ ~str.closing
      /\ str.reads > 0 => str.queue = <<>> /\ (str.state = "readable" \/ stopped)
      /\ stopped => str.state # "readable"
      /\ ak \in Seq(tk2) /\ Sane(str)
  <2>1. ak \in Seq(tk)
      BY NetFields
  <2>2. ak \in Seq(tk2)
      BY <2>1
  <2> QED BY <2>2, NetFields
<1>2. Len(str.got) <= Len(ak)
  <2>1. Len(ak) = Len(str.got) + IF stopped THEN 0 ELSE str.reads
      BY DEF Net
  <2> QED BY <1>1, <2>1
<1>3. PICK b : b = SubSeq(ak, 1, Len(str.got))
    OBVIOUS
<1>4. \A k \in Nat : k <= Len(ak) => SubSeq(ak, 1, k) \in Seq(tk2) /\ Len(SubSeq(ak, 1, k)) = k
    BY <1>1
<1>5. b \in Seq(tk2) /\ Len(b) = Len(str.got)
    BY <1>1, <1>2, <1>3, <1>4
<1>6. PICK a : a = Append(b, r)
    OBVIOUS
<1>7. a \in Seq(tk2) /\ Len(a) = Len(str.got) + 1
    BY <1>5, <1>6
<1>8. PICK g \in Seq(C \cup {End, Failed}) : g = str.got
    BY NetFields
<1>9. PICK t : t = NativeRead(str)
    OBVIOUS
<1>10. ASSUME NEW x \in C \cup {End, Failed}, t \in ReadableType(C), t.got = Append(g, x),
             t.closing = str.closing, SamePull(t, str), t.reads = str.reads,
             t.queue = <<>> \/ (str.queue # <<>> /\ x \in C), t.reads > 0 => t.queue = <<>> /\ stopped,
             x = End => t.state = "closed", str.state = "closed" => t.state = "closed",
             t.state = "readable" => str.state = "readable" /\ x \in C /\ str.queue # <<>>,
             x \in C => Chunks(g)
      PROVE  Net(t, tk2, a, stopped)
  <2>1. PICK h : h = Append(g, x)
      OBVIOUS
  <2>2. /\ DOMAIN h = 1..(Len(g) + 1) /\ h[Len(g) + 1] = x /\ \A i \in 1..Len(g) : h[i] = g[i]
        /\ DOMAIN g = 1..Len(g) /\ Len(h) = Len(g) + 1 /\ h \in Seq(C \cup {End, Failed}) /\ Len(g) \in Nat
      BY <2>1
  <2>3. \A i \in DOMAIN h : h[i] = End => t.state = "closed"
      BY <1>1, <1>8, <1>10, <2>2 DEF Sane
  <2>4. x \in C => Chunks(h)
      BY <1>10, <2>2 DEF Chunks
  <2>5. ASSUME NEW i \in DOMAIN h, NEW j \in DOMAIN h, i < j, h[j] \in C PROVE h[i] \in C
    <3>1. CASE j = Len(g) + 1
        BY <2>2, <2>4, <2>5, <3>1 DEF Chunks
    <3>2. CASE j # Len(g) + 1
      <4>1. i \in 1..Len(g) /\ j \in 1..Len(g)
          BY <2>2, <2>5, <3>2
      <4> QED BY <1>1, <1>8, <2>2, <2>5, <4>1 DEF Sane
    <3> QED BY <3>1, <3>2
  <2>6. t.queue # <<>> \/ t.state = "readable" => x \in C
      BY <1>10
  <2>7. t.queue \in Seq(C)
      BY <1>10, ReadableFields
  <2>8. Sane(t)
      BY <1>10, <2>1, <2>2, <2>3, <2>4, <2>5, <2>6, <2>7 DEF Sane
  <2>9. NativeOK(t, stopped)
      BY <1>1, <1>10, <2>8, NetIs DEF SamePull
  <2>10. (IF stopped THEN 0 ELSE t.reads) = 0
      BY <1>1, <1>10
  <2>11. Len(a) = Len(t.got) + 0
      BY <1>7, <1>8, <1>10, <2>1, <2>2
  <2> QED BY <1>7, <2>9, <2>10, <2>11 DEF Net
<1>11. CASE str.queue # <<>>
  <2>1. t = [str EXCEPT !.queue = Tail(@), !.got = Append(@, Head(str.queue))]
      BY <1>9, <1>11 DEF NativeRead
  <2>2. Tail(str.queue) \in Seq(C) /\ Head(str.queue) \in C
      BY <1>1, <1>11
  <2>3. PICK x \in C : x = Head(str.queue)
      BY <2>2
  <2>4. Append(g, x) \in Seq(C \cup {End, Failed})
      OBVIOUS
  <2>5. /\ t \in ReadableType(C) /\ t.got = Append(g, x) /\ t.queue = Tail(str.queue) /\ t.state = str.state
        /\ t.closing = str.closing /\ SamePull(t, str) /\ t.reads = str.reads
      BY <1>1, <1>8, <2>1, <2>2, <2>3, <2>4 DEF ReadableType, SamePull
  <2>6. str.reads = 0 /\ Chunks(g)
      BY <1>1, <1>8, <1>11 DEF Sane
  <2>7. Net(t, tk2, a, stopped)
      BY <1>10, <1>11, <2>5, <2>6, ChunksAre
  <2>8. Reads(t, str)
      BY <1>8, <1>11, <2>3, <2>5 DEF Reads
  <2> QED BY <1>3, <1>6, <1>9, <2>5, <2>7, <2>8 DEF Later, SamePull, CanEnqueue
<1>12. CASE str.queue = <<>> /\ str.state = "errored"
  <2>1. t = [str EXCEPT !.state = "closed", !.got = Append(@, Failed)]
      BY <1>9, <1>12 DEF NativeRead
  <2>2. Append(g, Failed) \in Seq(C \cup {End, Failed})
      OBVIOUS
  <2>3. /\ t \in ReadableType(C) /\ t.got = Append(g, Failed) /\ t.queue = str.queue /\ t.state = "closed"
        /\ t.closing = str.closing /\ SamePull(t, str) /\ t.reads = str.reads
      BY <1>1, <1>8, <2>1, <2>2 DEF ReadableType, SamePull
  <2>4. t.reads > 0 => stopped
      BY <1>1, <1>12, <2>3
  <2>5. Net(t, tk2, a, stopped)
      BY <1>10, <1>12, <2>3, <2>4, ChunksAre
  <2>6. Reads(t, str)
      BY <1>8, <1>12, <2>3 DEF Reads
  <2> QED BY <1>3, <1>6, <1>9, <2>3, <2>5, <2>6 DEF Later, SamePull, CanEnqueue
<1>13. CASE str.queue = <<>> /\ str.state = "closed"
  <2>1. t = [str EXCEPT !.got = Append(@, End)]
      BY <1>9, <1>13 DEF NativeRead
  <2>2. Append(g, End) \in Seq(C \cup {End, Failed})
      OBVIOUS
  <2>3. /\ t \in ReadableType(C) /\ t.got = Append(g, End) /\ t.queue = str.queue /\ t.state = "closed"
        /\ t.closing = str.closing /\ SamePull(t, str) /\ t.reads = str.reads
      BY <1>1, <1>8, <1>13, <2>1, <2>2 DEF ReadableType, SamePull
  <2>4. t.reads > 0 => stopped
      BY <1>1, <1>13, <2>3
  <2>5. Net(t, tk2, a, stopped)
      BY <1>10, <1>13, <2>3, <2>4, ChunksAre
  <2>6. Reads(t, str)
      BY <1>8, <1>13, <2>3 DEF Reads
  <2> QED BY <1>3, <1>6, <1>9, <2>3, <2>5, <2>6 DEF Later, SamePull, CanEnqueue
<1>14. CASE str.queue = <<>> /\ str.state = "readable"
  <2>1. t = [str EXCEPT !.reads = 1]
      BY <1>9, <1>14 DEF NativeRead
  <2>2. /\ t \in ReadableType(C) /\ t.got = str.got /\ t.queue = str.queue /\ t.state = str.state
        /\ t.closing = str.closing /\ SamePull(t, str) /\ t.reads = 1
      BY <1>1, <2>1 DEF ReadableType, SamePull
  <2>3. Sane(t)
      BY <1>1, <2>2 DEF Sane
  <2>4. NativeOK(t, stopped)
      BY <1>1, <1>14, <2>2, <2>3, NetIs DEF SamePull
  <2>5. ~stopped
      BY <1>1, <1>14
  <2>6. Len(a) = Len(t.got) + (IF stopped THEN 0 ELSE t.reads)
      BY <1>7, <2>2, <2>5
  <2>7. Net(t, tk2, a, stopped)
      BY <1>7, <2>4, <2>6 DEF Net
  <2>8. Reads(t, str)
      BY <2>2 DEF Reads
  <2> QED BY <1>3, <1>6, <1>9, <2>2, <2>7, <2>8 DEF Later, SamePull, CanEnqueue
<1> QED BY <1>1, <1>11, <1>12, <1>13, <1>14

-----------------------------------------------------------------------------
(* The bytes of the first chunks.                                           *)

LEMMA BytesAre == \A c \in C : Bytes(c) \in Seq(Byte)
<1>1. ASSUME NEW c \in C PROVE Bytes(c) \in Seq(Byte)
  <2>1. Length[c] \in Nat
      BY <1>1, BodyAssumption DEF C
  <2>2. \A i \in 1..Length[c] : <<c, i>> \in Byte
      BY <1>1, <2>1, ChunksAre DEF Byte
  <2> QED BY <2>1, <2>2 DEF Bytes
<1> QED BY <1>1

(* The chunks that First(k) puts together.                                  *)
Pieces(k) == [c \in 1..k |-> Bytes(c)]

LEMMA PiecesAre ==
    ASSUME NEW k \in 0..NumChunks
    PROVE  /\ Pieces(k) \in Seq(Seq(Byte)) /\ First(k) = FlattenSeq(Pieces(k))
           /\ k < NumChunks => Pieces(k + 1) = Append(Pieces(k), Bytes(k + 1)) /\ k + 1 \in C
<1>1. \A c \in 1..k : Bytes(c) \in Seq(Byte)
    BY BytesAre, ChunksAre DEF C
<1>2. PICK p : p = Pieces(k)
    OBVIOUS
<1>3. k \in Nat /\ p = [c \in 1..k |-> Bytes(c)]
    BY <1>2, ChunksAre DEF Pieces
<1>4. p \in Seq(Seq(Byte)) /\ Len(p) = k /\ DOMAIN p = 1..k
    BY <1>1, <1>3
<1>5. ASSUME k < NumChunks PROVE Pieces(k + 1) = Append(p, Bytes(k + 1)) /\ k + 1 \in C
  <2>1. k + 1 \in C
      BY <1>3, <1>5, ChunksAre DEF C
  <2>2. PICK q : q = Append(p, Bytes(k + 1))
      OBVIOUS
  <2>3. DOMAIN q = 1..(k + 1) /\ q[k + 1] = Bytes(k + 1) /\ \A i \in 1..k : q[i] = p[i]
      BY <1>3, <1>4, <2>2
  <2>4. q = [i \in 1..(k + 1) |-> q[i]]
      BY <1>4, <2>1, <2>2, <2>3, BytesAre
  <2>5. \A i \in 1..(k + 1) : q[i] = Bytes(i)
      BY <1>3, <2>3
  <2> QED BY <2>1, <2>2, <2>4, <2>5 DEF Pieces
<1> QED BY <1>2, <1>4, <1>5 DEF First, Pieces

LEMMA FirstIs ==
    ASSUME NEW k \in 0..NumChunks
    PROVE  /\ First(k) \in Seq(Byte) /\ First(0) = <<>>
           /\ k < NumChunks => Joined(First(k + 1), First(k), Bytes(k + 1))
<1>1. First(k) \in Seq(Byte)
    BY PiecesAre, FlattenType
<1>2. First(0) = <<>>
  <2>1. 0 \in 0..NumChunks
      BY ChunksAre
  <2>2. PICK p \in Seq(Seq(Byte)) : p = Pieces(0) /\ First(0) = FlattenSeq(p)
      BY <2>1, PiecesAre
  <2>3. Len(p) = 0
      BY <2>2 DEF Pieces
  <2>4. p = <<>>
      BY <2>3
  <2> QED BY <2>2, <2>4, FlattenNone
<1>3. ASSUME k < NumChunks PROVE Joined(First(k + 1), First(k), Bytes(k + 1))
  <2>1. k + 1 \in 0..NumChunks /\ k + 1 \in C
      BY <1>3, ChunksAre DEF C
  <2>2. PICK q \in Seq(Seq(Byte)) : q = Pieces(k)
      BY PiecesAre
  <2>3. First(k) = FlattenSeq(q) /\ First(k + 1) = FlattenSeq(Pieces(k + 1))
      BY <2>1, <2>2, PiecesAre
  <2>4. Pieces(k + 1) = Append(q, Bytes(k + 1))
      BY <1>3, <2>2, PiecesAre
  <2>5. PICK b \in Seq(Byte) : b = Bytes(k + 1)
      BY <2>1, BytesAre
  <2>6. Joined(FlattenSeq(Append(q, b)), FlattenSeq(q), b)
      BY FlattenAppend
  <2> QED BY <2>3, <2>4, <2>5, <2>6
<1> QED BY <1>1, <1>2, <1>3

(* A chunk more.                                                            *)
LEMMA MoreBytes ==
    ASSUME NEW k \in 0..NumChunks, k < NumChunks, NEW a, a = First(k)
    PROVE  a \o Bytes(k + 1) = First(k + 1)
BY FirstIs DEF Joined

LEMMA PrefixGrows ==
    \A S : \A x, a, b \in Seq(S) : IsPrefix(x, a) => IsPrefix(x, a \o b)
<1>1. ASSUME NEW S, NEW x \in Seq(S), NEW a \in Seq(S), NEW b \in Seq(S), IsPrefix(x, a)
      PROVE  IsPrefix(x, a \o b)
  <2>1. PICK h : h = a \o b
      OBVIOUS
  <2>2. /\ Len(h) = Len(a) + Len(b) /\ Len(a) \in Nat /\ Len(b) \in Nat /\ Len(x) \in Nat
        /\ \A i \in 1..Len(a) : h[i] = a[i]
      BY <2>1
  <2>3. Len(x) <= Len(a) /\ SubSeq(x, 1, Len(x)) = SubSeq(a, 1, Len(x))
      BY <1>1 DEF IsPrefix
  <2>4. SubSeq(a, 1, Len(x)) = SubSeq(h, 1, Len(x))
    <3>1. PICK u : u = SubSeq(a, 1, Len(x))
        OBVIOUS
    <3>2. PICK v : v = SubSeq(h, 1, Len(x))
        OBVIOUS
    <3>0. h \in Seq(S)
        BY <2>1
    <3>3. /\ u \in Seq(S) /\ v \in Seq(S) /\ Len(u) = Len(x) /\ Len(v) = Len(x)
          /\ \A i \in 1..Len(x) : u[i] = a[i] /\ v[i] = h[i]
        BY <2>2, <2>3, <3>0, <3>1, <3>2
    <3>4. \A i \in 1..Len(x) : u[i] = v[i]
        BY <2>2, <2>3, <3>3
    <3> QED BY <3>1, <3>2, <3>3, <3>4
  <2> QED BY <2>1, <2>2, <2>3, <2>4 DEF IsPrefix
<1> QED BY <1>1

LEMMA FirstIsPrefix ==
    ASSUME NEW m \in 0..NumChunks, NEW k \in 0..m
    PROVE  IsPrefix(First(k), First(m))
<1>0. m \in Nat /\ k \in Nat /\ m - k \in Nat /\ NumChunks \in Nat /\ k + (m - k) = m
    BY ChunksAre
<1> DEFINE T == {d \in 0..(m - k) : IsPrefix(First(k), First(k + d))}
<1>1. 0 \in T
  <2>1. k \in 0..NumChunks
      BY <1>0
  <2>2. PICK x \in Seq(Byte) : x = First(k)
      BY <2>1, FirstIs
  <2>3. IsPrefix(x, x)
      BY DEF IsPrefix
  <2>4. k + 0 = k
      BY <1>0
  <2> QED BY <1>0, <2>2, <2>3, <2>4
<1>2. ASSUME NEW d \in 0..((m - k) - 1), d \in T PROVE d + 1 \in T
  <2>1. /\ k \in 0..NumChunks /\ k + d \in 0..NumChunks /\ k + d < NumChunks /\ k + (d + 1) = (k + d) + 1
        /\ d + 1 \in 0..(m - k) /\ (k + d) + 1 \in C
      BY <1>0 DEF C
  <2>2. PICK x \in Seq(Byte), a \in Seq(Byte), b \in Seq(Byte) :
            x = First(k) /\ a = First(k + d) /\ b = Bytes((k + d) + 1)
      BY <2>1, FirstIs, BytesAre
  <2>3. IsPrefix(x, a)
      BY <1>2, <2>2
  <2>4. IsPrefix(x, a \o b)
      BY <2>3, PrefixGrows
  <2>5. a \o b = First((k + d) + 1)
      BY <2>1, <2>2, MoreBytes
  <2> QED BY <2>1, <2>2, <2>4, <2>5
<1>3. 0..(m - k) \subseteq T
  <2> HIDE DEF T
  <2> QED BY <1>0, <1>1, <1>2, CountUp
<1>4. m - k \in T
    BY <1>0, <1>3
<1> QED BY <1>0, <1>4

(* What a BYOB reader puts into its view and what it keeps, are all it got. *)
LEMMA ViewAndRest ==
    \A g, b \in Seq(Byte) :
        LET k == IF Room < Len(b) THEN Room ELSE Len(b)
        IN  /\ (g \o SubSeq(b, 1, k)) \o Keeps(b) = g \o b
            /\ g \o SubSeq(b, 1, k) \in Seq(Byte) /\ Keeps(b) \in Seq(Byte)
            /\ g \o SubSeq(b, 1, Len(b)) = g \o b
<1>1. ASSUME NEW g \in Seq(Byte), NEW b \in Seq(Byte),
             NEW k, k = IF Room < Len(b) THEN Room ELSE Len(b)
      PROVE  /\ (g \o SubSeq(b, 1, k)) \o Keeps(b) = g \o b
             /\ g \o SubSeq(b, 1, k) \in Seq(Byte) /\ Keeps(b) \in Seq(Byte)
             /\ g \o SubSeq(b, 1, Len(b)) = g \o b
  <2>1. Len(b) \in Nat /\ Room \in Nat \ {0} /\ k \in 0..Len(b)
      BY <1>1, BodyAssumption
  <2>2. PICK x : x = SubSeq(b, 1, k)
      OBVIOUS
  <2>3. PICK y : y = SubSeq(b, Room + 1, Len(b))
      OBVIOUS
  <2>4. x \in Seq(Byte) /\ Len(x) = k /\ \A i \in 1..k : x[i] = b[i]
      BY <2>1, <2>2
  <2>5. /\ y \in Seq(Byte) /\ Len(y) = Len(b) - k
        /\ \A i \in 1..(Len(b) - k) : y[i] = b[k + i]
    <3>1. CASE Room < Len(b)
      <4>1. Room + 1 \in 1..(Len(b) + 1) /\ k = Room
          BY <1>1, <2>1, <3>1
      <4>2. y \in Seq(Byte) /\ Len(y) = Len(b) - Room /\ \A i \in 1..(Len(b) - Room) : y[i] = b[Room + i]
          BY <2>1, <2>3, <3>1, <4>1
      <4> QED BY <4>1, <4>2
    <3>2. CASE ~(Room < Len(b))
      <4>1. Room + 1 > Len(b) /\ k = Len(b)
          BY <1>1, <2>1, <3>2
      <4>2. y = <<>>
          BY <2>1, <2>3, <4>1
      <4>3. y \in Seq(Byte) /\ Len(y) = 0
          BY <4>2, EmptySeq
      <4> QED BY <2>1, <4>1, <4>3
    <3> QED BY <3>1, <3>2
  <2>6. x \o y = b
    <3>1. PICK z : z = x \o y
        OBVIOUS
    <3>2. z \in Seq(Byte) /\ Len(z) = Len(b)
          /\ \A i \in 1..Len(b) : z[i] = IF i <= k THEN x[i] ELSE y[i - k]
        BY <2>1, <2>4, <2>5, <3>1
    <3>3. ASSUME NEW i \in 1..Len(b) PROVE z[i] = b[i]
      <4>1. CASE i <= k
          BY <2>1, <2>4, <3>2, <4>1
      <4>2. CASE ~(i <= k)
        <5>1. i - k \in 1..(Len(b) - k) /\ k + (i - k) = i
            BY <2>1, <4>2
        <5> QED BY <2>5, <3>2, <4>2, <5>1
      <4> QED BY <4>1, <4>2
    <3>4. z = b
        BY <3>2, <3>3
    <3> QED BY <3>1, <3>4
  <2>7. (g \o x) \o y = g \o (x \o y)
      BY <2>4, <2>5, ConcatAssociative
  <2>8. SubSeq(b, 1, Len(b)) = b
      BY <2>1
  <2>9. g \o x \in Seq(Byte)
      BY <2>4
  <2> QED BY <2>2, <2>3, <2>5, <2>6, <2>7, <2>8, <2>9 DEF Keeps
<1> QED BY <1>1

-----------------------------------------------------------------------------
(* What a step leaves as it was.                                            *)

LEMMA UseStays ==
    ASSUME use' = use
    PROVE  /\ Native' = Native /\ Static' = Static /\ Body' = Body
           /\ \A u : StreamOf(u)' = StreamOf(u)
           /\ \A s : NativeRaw(s)' = NativeRaw(s)
           /\ \A s : MayTake(s)' = MayTake(s)
           /\ \A w : Does(w)' = Does(w)
           /\ \A u : Byob(u)' = Byob(u)
BY DEF Native, Static, Body, StreamOf, NativeRaw, MayTake, Does, Byob

LEMMA Forms ==
    ASSUME use \in Uses
    PROVE  /\ Body \in Streams /\ Body \in {"raw", "body"} /\ (Body = "raw" => ~Native /\ ~Static)
           /\ ~(Native /\ Static)
           /\ ~Native /\ ~Static => Body = "raw"
           /\ \A u \in Users : StreamOf(u) \in Streams /\ ~NativeRaw(StreamOf(u))
           /\ \A s \in Streams : s # "raw" => ~NativeRaw(s)
           /\ ~NativeRaw(Body) /\ use.most \in 0..NumChunks
<1>1. use.form \in {"static", "stream", "native"} /\ use.most \in 0..NumChunks
    BY UsesAssumption
<1> QED BY <1>1 DEF Body, Streams, Native, Static, Users, StreamOf, NativeRaw

LEMMA MayTakeIs == \A s \in Streams : MayTake(s) \subseteq Takers
BY DEF MayTake, Streams, Takers, Readers, Loops, Users

(* Every stream is as it was but those that a step says something of.       *)
LEMMA PortsAre ==
    ASSUME Frame, use' = use,
           streams' = [s \in Streams |-> streams'[s]], takers' = [s \in Streams |-> takers'[s]],
           asks' = [s \in Streams |-> asks'[s]],
           \A s \in Streams : Port(s, streams'[s], takers'[s], asks'[s], source'.stopped)
    PROVE  /\ PortsOK' /\ streams' \in [Streams -> ReadableType(C)]
           /\ takers' \in [Streams -> SUBSET Takers] /\ asks' \in [Streams -> Seq(Takers)]
<1>1. PortsOK'
    BY UseStays DEF PortsOK, Port, Waits
<1>2. \A s \in Streams : streams'[s] \in ReadableType(C)
    BY PortSane
<1>3. ASSUME NEW s \in Streams PROVE takers'[s] \in SUBSET Takers /\ asks'[s] \in Seq(Takers)
  <2>1. takers'[s] \subseteq Takers /\ asks'[s] \in Seq(takers'[s])
      BY MayTakeIs DEF Port
  <2> QED BY <2>1
<1>4. streams' \in [Streams -> ReadableType(C)]
    BY <1>2
<1>5. takers' \in [Streams -> SUBSET Takers]
    BY <1>3
<1>6. asks' \in [Streams -> Seq(Takers)]
    BY <1>3
<1> QED BY <1>1, <1>4, <1>5, <1>6

LEMMA OneMoves ==
    ASSUME Frame, use' = use, source'.stopped = source.stopped, NEW x \in Streams, NEW t, NEW k, NEW b,
           streams' = [streams EXCEPT ![x] = t], takers' = [takers EXCEPT ![x] = k],
           asks' = [asks EXCEPT ![x] = b], Port(x, t, k, b, source.stopped)
    PROVE  /\ PortsOK' /\ streams' \in [Streams -> ReadableType(C)]
           /\ takers' \in [Streams -> SUBSET Takers] /\ asks' \in [Streams -> Seq(Takers)]
           /\ streams'[x] = t /\ takers'[x] = k /\ asks'[x] = b
           /\ \A s \in Streams : s # x =>
                  streams'[s] = streams[s] /\ takers'[s] = takers[s] /\ asks'[s] = asks[s]
<1>1. /\ DOMAIN streams = Streams /\ DOMAIN takers = Streams /\ DOMAIN asks = Streams
    BY DEF Frame, Types
<1>2. /\ streams'[x] = t /\ takers'[x] = k /\ asks'[x] = b
      /\ \A s \in Streams : s # x =>
             streams'[s] = streams[s] /\ takers'[s] = takers[s] /\ asks'[s] = asks[s]
    BY <1>1
<1>3. /\ streams' = [s \in Streams |-> streams'[s]] /\ takers' = [s \in Streams |-> takers'[s]]
      /\ asks' = [s \in Streams |-> asks'[s]]
    BY <1>1
<1>4. \A s \in Streams : Port(s, streams'[s], takers'[s], asks'[s], source'.stopped)
    BY <1>2 DEF Frame, PortsOK
<1> QED BY <1>2, <1>3, <1>4, PortsAre

LEMMA TakersStay ==
    ASSUME Frame, NEW x \in Streams
    PROVE  takers = [takers EXCEPT ![x] = takers[x]] /\ asks = [asks EXCEPT ![x] = asks[x]]
           /\ streams = [streams EXCEPT ![x] = streams[x]]
BY DEF Frame, Types

(* No stream opens again, and what has yet to start gets no chunk.          *)
Calm ==
    /\ use' = use /\ opened' = opened
    /\ \A s \in Streams : Later(streams'[s], streams[s])
    /\ \A s \in Streams \ opened : streams'[s] = streams[s] /\ takers'[s] = takers[s]
    /\ ~streams["body"].started => Blank(streams'["body"])

LEMMA OpenStays ==
    ASSUME Frame, Calm, takers'[Body] = {"tee"} <=> takers[Body] = {"tee"},
           "wrap" \in takers'["raw"] <=> "wrap" \in takers["raw"]
    PROVE  OpenOK'
<1>1. /\ Native' = Native /\ Static' = Static /\ Body' = Body
    BY UseStays DEF Calm
<1>2. "raw" \in Streams /\ "body" \in Streams
    BY DEF Streams
<1>3. Later(streams'["body"], streams["body"])
    BY <1>2 DEF Calm
<1>4. ("raw" \in opened')  <=> ~Static
    BY DEF Calm, Frame, OpenOK
<1>5. "body" \in opened' => Body = "body" /\ streams'["body"].pulls = Native
    BY <1>3 DEF Calm, Frame, OpenOK, Later
<1>6. \A b \in Halves : b \in opened' <=> takers'[Body] = {"tee"}
    BY DEF Calm, Frame, OpenOK
<1>7. \A s \in Streams \ opened' : Fresh(streams'[s]) /\ takers'[s] = {}
    BY DEF Calm, Frame, OpenOK
<1>8. "wrap" \in takers'["raw"] <=> Native /\ "body" \in opened' /\ streams'["body"].started
    BY <1>3 DEF Calm, Frame, OpenOK, Later
<1>9. ~streams'["body"].started => Blank(streams'["body"])
    BY <1>3 DEF Calm, Later
<1>10. Static /\ streams'["body"].started => ~CanEnqueue(streams'["body"])
    BY <1>3 DEF Frame, OpenOK, Later
<1> QED BY <1>1, <1>4, <1>5, <1>6, <1>7, <1>8, <1>9, <1>10 DEF OpenOK

(* The readers whose state a step changes are seen to by themselves.        *)
Onward(t, s) ==
    /\ s.started /\ s.pulls => t.started /\ t.pulls
    /\ t.state = "readable" => s.state = "readable"
    /\ CanEnqueue(t) => CanEnqueue(s)

LEMMA LaterOn == \A s, t : Later(t, s) => Onward(t, s)
BY DEF Later, Onward

LEMMA ReadersStay ==
    ASSUME Frame, use' = use, \A s \in Streams : Onward(streams'[s], streams[s]),
           \A s \in Streams : takers[s] \subseteq takers'[s],
           byob'.left # <<>> => byob.left # <<>> \/ Does("byob"),
           \A u \in Users : state'[u] \in {"reading", "cancelled"} =>
               state'[u] = state[u] \/ u \in takers'[StreamOf(u)],
           \A u \in Users : state'[u] = "cancelled" =>
               state'[u] = state[u] \/ streams'[StreamOf(u)].state # "readable",
           \A r \in Loops : state'[r] = "reading" => state'[r] = state[r] \/ r \in takers'["raw"],
           \A s \in Streams, r \in Readers : r \in takers'[s] => r \in takers[s] \/ state'[r] # "idle",
           \A r \in Readers : state'[r] = "idle" => state[r] = "idle",
           \A r \in Loops \cup {"copy"} : state'[r] = "cancelled" => state'[r] = state[r],
           state'["copy"] = "reading" => state'["copy"] = state["copy"]
    PROVE  ReadersOK'
<1>1. /\ \A u : StreamOf(u)' = StreamOf(u)
      /\ \A w : Does(w)' = Does(w)
    BY UseStays
<1>2. \A u \in Users : StreamOf(u) \in Streams
    BY Forms DEF Frame, Types
<1>3. "raw" \in Streams
    BY DEF Streams
<1>4. \A u \in Users : state'[u] \in {"reading", "cancelled"} => u \in takers'[StreamOf(u)]
    BY <1>2 DEF Frame, ReadersOK
<1>5. \A u \in Users : state'[u] = "cancelled" => streams'[StreamOf(u)].state # "readable"
    BY <1>2 DEF Frame, ReadersOK, Onward
<1>6. \A r \in Loops : state'[r] = "reading" => r \in takers'["raw"]
    BY <1>3 DEF Frame, ReadersOK
<1>7. \A s \in Streams, r \in Readers : r \in takers'[s] => state'[r] # "idle"
    BY DEF Frame, ReadersOK
<1>8. \A r \in Loops \cup {"copy"} : state'[r] # "cancelled"
    BY DEF Frame, ReadersOK
<1>9. state'["copy"] # "reading" /\ (byob'.left # <<>> => Does("byob"))
    BY DEF Frame, ReadersOK
<1> QED BY <1>1, <1>4, <1>5, <1>6, <1>7, <1>8, <1>9 DEF ReadersOK

LEMMA TeeStays ==
    ASSUME Frame, use' = use, tee' = tee, \A s \in Streams : Onward(streams'[s], streams[s]),
           "tee" \in takers'[Body] => "tee" \in takers[Body] /\ Len(asks'[Body]) = Len(asks[Body]),
           "tee" \in takers[Body] => "tee" \in takers'[Body],
           \A b \in Halves : state'[b] = "cancelled" <=> state[b] = "cancelled"
    PROVE  TeeOK'
<1>1. Body' = Body /\ Body \in Streams
    BY UseStays, Forms DEF Frame, Types
<1>2. tee.for \in Streams
    BY DEF Frame, Types, Halves, Streams
<1>3. \A b \in Halves : b \in tee'.cancelled <=> state'[b] = "cancelled"
    BY DEF Frame, TeeOK
<1>4. "tee" \in takers'[Body] => Len(asks'[Body]) = IF tee'.reading THEN 1 ELSE 0
    BY DEF Frame, TeeOK
<1>5. "tee" \notin takers'[Body] => ~tee'.reading
    BY DEF Frame, TeeOK
<1>6. tee'.reading => streams'[tee'.for].started /\ streams'[tee'.for].pulls
    BY <1>2 DEF Frame, TeeOK, Onward
<1> QED BY <1>1, <1>3, <1>4, <1>5, <1>6 DEF TeeOK

LEMMA SourceStays ==
    ASSUME Frame, use' = use, source'.made = source.made, source'.ended = source.ended,
           source'.stopped = source.stopped, Onward(streams'["raw"], streams["raw"])
    PROVE  SourceOK'
BY UseStays DEF Frame, SourceOK, Onward

LEMMA CallStays ==
    ASSUME Frame, use' = use, call'.state = call.state, opened' = opened \/ call.state = "head",
           takers' = takers \/ call.state = "head",
           streams'["raw"] = streams["raw"] \/ call.state \in {"head", "refused"}
    PROVE  CallOK'
<1>1. Native' = Native
    BY UseStays
<1>2. ~Native => call'.state = "head"
    BY DEF Frame, CallOK
<1>3. call'.state # "head" => opened' \subseteq {"raw"} /\ \A s \in Streams : takers'[s] = {}
    BY DEF Frame, CallOK
<1>4. call'.state \in {"none", "asked"} => streams'["raw"].state = "readable"
    BY DEF Frame, CallOK
<1>5. call'.state = "answered" => streams'["raw"].state # "closed"
    BY DEF Frame, CallOK
<1> QED BY <1>1, <1>2, <1>3, <1>4, <1>5 DEF CallOK

LEMMA StopStays ==
    ASSUME Frame, use' = use, source'.stopped = source.stopped, source'.missed = source.missed,
           \A s \in Streams : Onward(streams'[s], streams[s]),
           "wrap" \in takers["raw"] => "wrap" \in takers'["raw"],
           tee'.cancelled = tee.cancelled, state'["user"] = "cancelled" <=> state["user"] = "cancelled",
           Native /\ CanEnqueue(streams["body"]) =>
               CanEnqueue(streams'["body"]) \/ streams'["raw"].state # "readable"
    PROVE  StopOK'
<1>1. Native' = Native /\ Static' = Static /\ Body' = Body
    BY UseStays
<1>2. "raw" \in Streams /\ "body" \in Streams /\ Body \in Streams
    BY Forms DEF Streams, Frame, Types
<1>3. Unwanted' <=> Unwanted
    BY DEF Unwanted
<1>4. source'.stopped => Unwanted /\ (Native => "wrap" \in takers'["raw"])
    BY DEF Frame, StopOK
<1>5. Unwanted => streams'[Body].state # "readable"
    BY <1>2 DEF Frame, StopOK, Onward
<1>6. Native /\ ~CanEnqueue(streams'["body"]) => streams'["raw"].state # "readable" \/ source'.missed
    BY <1>2 DEF Frame, StopOK, Onward
<1>7. Unwanted => Static \/ source'.stopped \/ source'.missed \/ streams'["raw"].state # "readable"
    BY <1>2 DEF Frame, StopOK, Onward
<1> QED BY <1>1, <1>3, <1>4, <1>5, <1>6, <1>7 DEF StopOK

-----------------------------------------------------------------------------
(* The source, the transfer and the fetch.                                  *)

LEMMA LaterSame == \A s : Later(s, s) /\ Stays(s, s)
BY DEF Later, Stays

(* Nothing but the raw stream, its source and the fetch.                    *)
RawOnly(t) ==
    /\ UNCHANGED <<use, opened, takers, asks, state, got, tee, byob>>
    /\ streams' = [streams EXCEPT !["raw"] = t]
    /\ source'.stopped = source.stopped /\ source'.missed = source.missed

LEMMA RawMoves ==
    ASSUME Frame, NEW t, RawOnly(t), Port("raw", t, takers["raw"], asks["raw"], source.stopped),
           Later(t, streams["raw"]), ~Static, SourceOK', CallOK',
           source' \in [made : 0..NumChunks, ended : BOOLEAN, stopped : BOOLEAN, missed : BOOLEAN],
           call' \in [state : {"none", "asked", "answered", "refused", "head"},
                      aborted : BOOLEAN, redirect : BOOLEAN]
    PROVE  /\ Frame' /\ streams'["raw"] = t
           /\ \A s \in Streams : s # "raw" => streams'[s] = streams[s]
<1>1. "raw" \in Streams /\ "body" \in Streams /\ "raw" \in opened
    BY DEF Streams, Frame, OpenOK
<1>2. /\ use' = use /\ opened' = opened /\ takers' = takers /\ asks' = asks /\ state' = state /\ got' = got
      /\ tee' = tee /\ byob' = byob /\ source'.stopped = source.stopped /\ source'.missed = source.missed
    BY DEF RawOnly
<1>3. /\ PortsOK' /\ streams' \in [Streams -> ReadableType(C)]
      /\ streams'["raw"] = t /\ \A s \in Streams : s # "raw" => streams'[s] = streams[s]
  <2>1. takers' = [takers EXCEPT !["raw"] = takers["raw"]] /\ asks' = [asks EXCEPT !["raw"] = asks["raw"]]
      BY <1>1, <1>2, TakersStay
  <2>2. streams' = [streams EXCEPT !["raw"] = t]
      BY DEF RawOnly
  <2>3. use' = use /\ source'.stopped = source.stopped
      BY <1>2
  <2> QED BY <1>1, <2>1, <2>2, <2>3, OneMoves
<1>4. Types'
    BY <1>2, <1>3 DEF Frame, Types
<1>5. \A s \in Streams : Later(streams'[s], streams[s])
    BY <1>3, LaterSame
<1>6. Calm
    BY <1>1, <1>2, <1>3, <1>5 DEF Calm, Frame, OpenOK
<1>7. OpenOK'
    BY <1>2, <1>6, OpenStays
<1>8. ReadersOK'
    BY <1>2, <1>5, ReadersStay, LaterOn
<1>9. TeeOK'
    BY <1>2, <1>5, TeeStays, LaterOn
<1>10. StopOK'
    BY <1>1, <1>2, <1>3, <1>5, StopStays, LaterOn
<1> QED BY <1>3, <1>4, <1>7, <1>8, <1>9, <1>10 DEF Frame

LEMMA RawPort ==
    ASSUME Frame
    PROVE  /\ Port("raw", streams["raw"], takers["raw"], asks["raw"], source.stopped)
           /\ Native => Net(streams["raw"], takers["raw"], asks["raw"], source.stopped)
           /\ ~Native => Own("raw", streams["raw"], takers["raw"], asks["raw"])
           /\ \A t, k, b, stopped : Native /\ Net(t, k, b, stopped) => Port("raw", t, k, b, stopped)
           /\ \A t, k, b, stopped : ~Native /\ Own("raw", t, k, b) => Port("raw", t, k, b, stopped)
           /\ "raw" \in Streams
<1>1. "raw" \in Streams /\ Port("raw", streams["raw"], takers["raw"], asks["raw"], source.stopped)
    BY DEF Frame, PortsOK, Streams
<1>2. NativeRaw("raw") <=> Native
    BY DEF NativeRaw
<1> QED BY <1>1, <1>2, PortIsNet, PortIsOwn

LEMMA OwnPort ==
    ASSUME Frame, NEW s \in Streams, ~NativeRaw(s)
    PROVE  /\ Own(s, streams[s], takers[s], asks[s])
           /\ \A t, k, b, stopped : Own(s, t, k, b) => Port(s, t, k, b, stopped)
BY PortIsOwn DEF Frame, PortsOK

LEMMA SourceIsOpen ==
    ASSUME Frame, SourceActs
    PROVE  /\ CanEnqueue(streams["raw"]) /\ streams["raw"].state = "readable" /\ ~Static /\ ~source.ended
           /\ call.state \in {"head", "refused"} /\ ~source.stopped
           /\ ~Native => /\ Own("raw", Acts(streams["raw"]), takers["raw"], asks["raw"])
                         /\ Stays(Acts(streams["raw"]), streams["raw"])
                         /\ Later(Acts(streams["raw"]), streams["raw"])
                         /\ CanEnqueue(Acts(streams["raw"]))
<1>1. ~Static /\ ~source.stopped
    BY DEF SourceActs, Frame, OpenOK
<1>2. CASE Native
  <2>1. streams["raw"].state = "readable" /\ call.state \in {"head", "refused"}
      BY <1>2 DEF SourceActs
  <2>2. CanEnqueue(streams["raw"])
      BY <1>2, <2>1, RawPort, NetFields
  <2> QED BY <1>1, <1>2, <2>1, <2>2 DEF Frame, SourceOK
<1>3. CASE ~Native
  <2>1. CanEnqueue(streams["raw"]) /\ streams["raw"].pull = "running"
      BY <1>3 DEF SourceActs
  <2>2. streams["raw"].state = "readable"
      BY <2>1 DEF CanEnqueue
  <2>3. call.state = "head"
      BY <1>3 DEF Frame, CallOK
  <2>4. Own("raw", streams["raw"], takers["raw"], asks["raw"])
      BY <1>3, RawPort
  <2>5. streams["raw"].started /\ streams["raw"].pulls
      BY <2>1, <2>4 DEF Own
  <2>6. PICK t : t = [streams["raw"] EXCEPT !.pull = "acted"]
      OBVIOUS
  <2>7. Own("raw", t, takers["raw"], asks["raw"]) /\ Stays(t, streams["raw"]) /\ Later(t, streams["raw"])
      BY <2>4, <2>5, <2>6, OwnActs
  <2>8. CanEnqueue(t)
      BY <2>1, <2>7 DEF Stays, CanEnqueue
  <2>9. t = Acts(streams["raw"])
      BY <1>3, <2>6 DEF Acts
  <2> QED BY <1>1, <2>1, <2>2, <2>3, <2>7, <2>8, <2>9 DEF Frame, SourceOK
<1> QED BY <1>2, <1>3

(* A stream takes, or is closed or failed, through what only stays with it. *)
LEMMA ThroughStays ==
    ASSUME NEW s, NEW u, NEW t, Stays(u, s), Later(u, s), Later(t, u), NEW c
    PROVE  /\ Later(t, s) /\ (Takes(t, u, c) => Takes(t, s, c))
           /\ (Closes(t, u) => Closes(t, s)) /\ (Fails(t, u) => Fails(t, s))
BY DEF Stays, Later, Takes, Closes, Fails, CanEnqueue

LEMMA SourceEnqueuesIs ==
    ASSUME Frame, SourceEnqueues
    PROVE  LET t == Enqueued(Acts(streams["raw"]), source.made + 1)
           IN  /\ Port("raw", t, takers["raw"], asks["raw"], source.stopped)
               /\ Later(t, streams["raw"]) /\ Takes(t, streams["raw"], source.made + 1)
               /\ source.made + 1 \in C /\ source'.made = source.made + 1 /\ source'.ended = source.ended
               /\ RawOnly(t) /\ call' = call
<1>1. /\ SourceActs /\ source.made < use.most /\ source' = [source EXCEPT !.made = @ + 1]
      /\ source \in [made : 0..NumChunks, ended : BOOLEAN, stopped : BOOLEAN, missed : BOOLEAN]
      /\ use.most \in 0..NumChunks
    BY Forms DEF SourceEnqueues, Frame, Types
<1>2. source'.made = source.made + 1 /\ source.made + 1 \in C
    BY <1>1, ChunksAre DEF C
<1>3. source'.ended = source.ended /\ source'.stopped = source.stopped /\ source'.missed = source.missed
    BY <1>1
<1>4. PICK t : t = Enqueued(Acts(streams["raw"]), source.made + 1)
    OBVIOUS
<1>5. RawOnly(t) /\ call' = call
    BY <1>2, <1>3, <1>4 DEF SourceEnqueues, RawOnly
<1>6. CASE Native
  <2>1. Acts(streams["raw"]) = streams["raw"]
      BY <1>6 DEF Acts
  <2>2. Net(t, takers["raw"], asks["raw"], source.stopped) /\ Takes(t, streams["raw"], source.made + 1)
        /\ Later(t, streams["raw"])
      BY <1>1, <1>2, <1>4, <1>6, <2>1, SourceIsOpen, RawPort, NetEnqueued
  <2> QED BY <1>2, <1>3, <1>4, <1>5, <1>6, <2>2, RawPort
<1>7. CASE ~Native
  <2>1. PICK u : u = Acts(streams["raw"])
      OBVIOUS
  <2>2. /\ Own("raw", u, takers["raw"], asks["raw"]) /\ Stays(u, streams["raw"])
        /\ Later(u, streams["raw"]) /\ CanEnqueue(u)
      BY <1>1, <1>7, <2>1, SourceIsOpen
  <2>3. Own("raw", t, takers["raw"], asks["raw"]) /\ Takes(t, u, source.made + 1) /\ Later(t, u)
      BY <1>2, <1>4, <2>1, <2>2, OwnEnqueued
  <2> QED BY <1>2, <1>3, <1>4, <1>5, <1>7, <2>2, <2>3, RawPort, ThroughStays
<1> QED BY <1>6, <1>7

LEMMA SourceEndsIs ==
    ASSUME Frame, SourceEnds
    PROVE  \E t : /\ Port("raw", t, takers["raw"], asks["raw"], source.stopped)
                  /\ Later(t, streams["raw"]) /\ Closes(t, streams["raw"])
                  /\ source'.made = source.made /\ source'.ended
                  /\ RawOnly(t) /\ call' = call
<1>1. /\ SourceActs /\ source' = [source EXCEPT !.ended = TRUE]
      /\ source \in [made : 0..NumChunks, ended : BOOLEAN, stopped : BOOLEAN, missed : BOOLEAN]
    BY DEF SourceEnds, Frame, Types
<1>2. /\ source'.made = source.made /\ source'.ended
      /\ source'.stopped = source.stopped /\ source'.missed = source.missed
    BY <1>1
<1>3. PICK t : t = IF Native THEN ReadableClosed(streams["raw"]) ELSE CloseRequested(Acts(streams["raw"]))
    OBVIOUS
<1>4. RawOnly(t) /\ call' = call
    BY <1>2, <1>3 DEF SourceEnds, RawOnly
<1>5. CASE Native
  <2>1. /\ Net(t, takers["raw"], asks["raw"], source.stopped) /\ Closes(t, streams["raw"])
        /\ Later(t, streams["raw"])
      BY <1>1, <1>3, <1>5, SourceIsOpen, RawPort, NetCloses
  <2> QED BY <1>2, <1>4, <1>5, <2>1, RawPort
<1>6. CASE ~Native
  <2>1. PICK u : u = Acts(streams["raw"])
      OBVIOUS
  <2>2. /\ Own("raw", u, takers["raw"], asks["raw"]) /\ Stays(u, streams["raw"])
        /\ Later(u, streams["raw"]) /\ CanEnqueue(u)
      BY <1>1, <1>6, <2>1, SourceIsOpen
  <2>3. Own("raw", t, takers["raw"], asks["raw"]) /\ Closes(t, u) /\ Later(t, u)
      BY <1>3, <1>6, <2>1, <2>2, OwnCloses
  <2> QED BY <1>2, <1>4, <1>6, <2>2, <2>3, RawPort, ThroughStays
<1> QED BY <1>5, <1>6

LEMMA SourceFailsIs ==
    ASSUME Frame, SourceFails
    PROVE  \E t : /\ Port("raw", t, takers["raw"], asks["raw"], source.stopped)
                  /\ Later(t, streams["raw"]) /\ Fails(t, streams["raw"])
                  /\ RawOnly(t) /\ call' = call /\ source' = source
<1>1. SourceActs /\ source' = source
    BY DEF SourceFails
<1>2. PICK t : t = IF Native THEN NativeFailed(streams["raw"]) ELSE ReadableErrored(Acts(streams["raw"]))
    OBVIOUS
<1>3. RawOnly(t) /\ call' = call
    BY <1>2 DEF SourceFails, RawOnly
<1>4. CASE Native
  <2>1. /\ Net(t, takers["raw"], asks["raw"], source.stopped) /\ Fails(t, streams["raw"])
        /\ Later(t, streams["raw"])
      BY <1>1, <1>2, <1>4, SourceIsOpen, RawPort, NetFails
  <2> QED BY <1>1, <1>3, <1>4, <2>1, RawPort
<1>5. CASE ~Native
  <2>1. PICK u : u = Acts(streams["raw"])
      OBVIOUS
  <2>2. /\ Own("raw", u, takers["raw"], asks["raw"]) /\ Stays(u, streams["raw"])
        /\ Later(u, streams["raw"]) /\ CanEnqueue(u)
      BY <1>1, <1>5, <2>1, SourceIsOpen
  <2>3. Own("raw", t, takers["raw"], asks["raw"]) /\ Fails(t, u) /\ Later(t, u)
      BY <1>2, <1>5, <2>1, <2>2, OwnFails DEF CanEnqueue
  <2> QED BY <1>1, <1>3, <1>5, <2>2, <2>3, RawPort, ThroughStays
<1> QED BY <1>4, <1>5

LEMMA SourceFrame ==
    ASSUME Frame, SourceEnqueues \/ SourceEnds \/ SourceFails
    PROVE  Frame'
<1>1. SourceActs
    BY DEF SourceEnqueues, SourceEnds, SourceFails
<1>2. /\ source \in [made : 0..NumChunks, ended : BOOLEAN, stopped : BOOLEAN, missed : BOOLEAN]
      /\ call \in [state : {"none", "asked", "answered", "refused", "head"},
                   aborted : BOOLEAN, redirect : BOOLEAN]
    BY DEF Frame, Types
<1>3. ~Static /\ call.state \in {"head", "refused"} /\ "raw" \in Streams
    BY <1>1, SourceIsOpen, RawPort
<1>4. PICK t : /\ Port("raw", t, takers["raw"], asks["raw"], source.stopped)
               /\ Later(t, streams["raw"]) /\ RawOnly(t) /\ call' = call
               /\ source'.ended => source.ended \/ ~CanEnqueue(t)
               /\ source' \in [made : 0..NumChunks, ended : BOOLEAN, stopped : BOOLEAN, missed : BOOLEAN]
  <2>1. CASE SourceEnqueues
    <3>1. source.made + 1 \in 0..NumChunks
        BY <2>1, SourceEnqueuesIs, ChunksAre DEF C
    <3>2. source' = [source EXCEPT !.made = @ + 1]
        BY <2>1 DEF SourceEnqueues
    <3>3. source' \in [made : 0..NumChunks, ended : BOOLEAN, stopped : BOOLEAN, missed : BOOLEAN]
        BY <1>2, <3>1, <3>2
    <3> QED BY <2>1, <3>3, SourceEnqueuesIs
  <2>2. CASE SourceEnds
    <3>1. source' = [source EXCEPT !.ended = TRUE]
        BY <2>2 DEF SourceEnds
    <3>2. source' \in [made : 0..NumChunks, ended : BOOLEAN, stopped : BOOLEAN, missed : BOOLEAN]
        BY <1>2, <3>1
    <3> QED BY <2>2, <3>2, SourceEndsIs DEF Closes
  <2>3. CASE SourceFails
      BY <1>2, <2>3, SourceFailsIs
  <2> QED BY <2>1, <2>2, <2>3
<1>5. streams'["raw"] = t
    BY <1>3, <1>4 DEF RawOnly, Frame, Types
<1>6. SourceOK'
    BY <1>3, <1>4, <1>5, UseStays DEF RawOnly, Frame, SourceOK, Later
<1>7. CallOK'
    BY <1>3, <1>4, CallStays DEF RawOnly
<1> QED BY <1>2, <1>3, <1>4, <1>6, <1>7, RawMoves

-----------------------------------------------------------------------------
(* What each step of the fetch does to the frame.                           *)

LEMMA HeadArrivesFrame == ASSUME Frame, HeadArrives PROVE Frame'
<1>1. /\ call.state = "asked" /\ UNCHANGED <<use, bodyVars, source>>
      /\ \E redirect \in BOOLEAN : call' = [call EXCEPT !.state = "answered", !.redirect = redirect]
    BY DEF HeadArrives
<1>2. PICK redirect \in BOOLEAN : call' = [call EXCEPT !.state = "answered", !.redirect = redirect]
    BY <1>1
<1>3. call \in [state : {"none", "asked", "answered", "refused", "head"}, aborted : BOOLEAN, redirect : BOOLEAN]
    BY DEF Frame, Types
<1>4. /\ call' \in [state : {"none", "asked", "answered", "refused", "head"}, aborted : BOOLEAN, redirect : BOOLEAN]
      /\ call'.state = "answered"
    BY <1>2, <1>3
<1>5. CallOK'
    BY <1>1, <1>4, UseStays DEF Frame, CallOK, bodyVars
<1>6. PICK t : t = streams["raw"]
    OBVIOUS
<1>7. RawOnly(t)
    BY <1>1, <1>6, RawPort, TakersStay DEF RawOnly, bodyVars
<1>8. SourceOK'
    BY <1>1, UseStays DEF Frame, SourceOK, bodyVars
<1>9. ~Static
    BY <1>1, Forms DEF Frame, CallOK, Types
<1>10. source' \in [made : 0..NumChunks, ended : BOOLEAN, stopped : BOOLEAN, missed : BOOLEAN]
    BY <1>1 DEF Frame, Types
<1> QED BY <1>4, <1>5, <1>6, <1>7, <1>8, <1>9, <1>10, RawPort, RawMoves, LaterSame

LEMMA FetchCallsFrame == ASSUME Frame, FetchCalls PROVE Frame'
<1>1. /\ call.state = "none" /\ UNCHANGED <<use, bodyVars, source>>
      /\ call' = [call EXCEPT !.state = IF call.aborted THEN "refused" ELSE "asked"]
    BY DEF FetchCalls
<1>3. call \in [state : {"none", "asked", "answered", "refused", "head"}, aborted : BOOLEAN, redirect : BOOLEAN]
    BY DEF Frame, Types
<1>4. /\ call' \in [state : {"none", "asked", "answered", "refused", "head"}, aborted : BOOLEAN, redirect : BOOLEAN]
      /\ call'.state \in {"asked", "refused"}
    BY <1>1, <1>3
<1>5. CallOK'
    BY <1>1, <1>4, UseStays DEF Frame, CallOK, bodyVars
<1>6. PICK t : t = streams["raw"]
    OBVIOUS
<1>7. RawOnly(t)
    BY <1>1, <1>6, RawPort, TakersStay DEF RawOnly, bodyVars
<1>8. SourceOK'
    BY <1>1, UseStays DEF Frame, SourceOK, bodyVars
<1>9. ~Static
    BY <1>1, Forms DEF Frame, CallOK, Types
<1>10. source' \in [made : 0..NumChunks, ended : BOOLEAN, stopped : BOOLEAN, missed : BOOLEAN]
    BY <1>1 DEF Frame, Types
<1> QED BY <1>4, <1>5, <1>6, <1>7, <1>8, <1>9, <1>10, RawPort, RawMoves, LaterSame

LEMMA HeadHeardFrame == ASSUME Frame, HeadHeard PROVE Frame'
<1>1. /\ call.state = "answered" /\ UNCHANGED <<use, bodyVars, source>>
      /\ call' = [call EXCEPT !.state = IF call.redirect THEN "refused" ELSE "head"]
    BY DEF HeadHeard
<1>3. call \in [state : {"none", "asked", "answered", "refused", "head"}, aborted : BOOLEAN, redirect : BOOLEAN]
    BY DEF Frame, Types
<1>4. /\ call' \in [state : {"none", "asked", "answered", "refused", "head"}, aborted : BOOLEAN, redirect : BOOLEAN]
      /\ call'.state \in {"refused", "head"}
    BY <1>1, <1>3
<1>5. CallOK'
    BY <1>1, <1>4, UseStays DEF Frame, CallOK, bodyVars
<1>6. PICK t : t = streams["raw"]
    OBVIOUS
<1>7. RawOnly(t)
    BY <1>1, <1>6, RawPort, TakersStay DEF RawOnly, bodyVars
<1>8. SourceOK'
    BY <1>1, UseStays DEF Frame, SourceOK, bodyVars
<1>9. ~Static
    BY <1>1, Forms DEF Frame, CallOK, Types
<1>10. source' \in [made : 0..NumChunks, ended : BOOLEAN, stopped : BOOLEAN, missed : BOOLEAN]
    BY <1>1 DEF Frame, Types
<1> QED BY <1>4, <1>5, <1>6, <1>7, <1>8, <1>9, <1>10, RawPort, RawMoves, LaterSame

LEMMA TransferFailsIs ==
    ASSUME Frame, TransferFails
    PROVE  LET t == [streams["raw"] EXCEPT !.state = "closed"]
           IN  /\ Port("raw", t, takers["raw"], asks["raw"], source.stopped) /\ Later(t, streams["raw"])
               /\ t.state = "closed" /\ t.got = streams["raw"].got /\ t.queue = streams["raw"].queue
               /\ RawOnly(t) /\ source' = source /\ Native /\ call' = [call EXCEPT !.state = "refused"]
               /\ call'.state = "refused"
<1>1. /\ call.state = "asked" /\ call' = [call EXCEPT !.state = "refused"] /\ source' = source
      /\ streams' = [streams EXCEPT !["raw"].state = "closed"]
    BY DEF TransferFails
<1>2. Native /\ takers["raw"] = {} /\ streams["raw"].state = "readable"
    BY <1>1, RawPort DEF Frame, CallOK
<1>3. PICK t : t = [streams["raw"] EXCEPT !.state = "closed"]
    OBVIOUS
<1>4. Net(streams["raw"], {}, asks["raw"], source.stopped)
    BY <1>2, RawPort
<1>5. /\ Net(t, {}, asks["raw"], source.stopped) /\ Later(t, streams["raw"]) /\ t.state = "closed"
      /\ t.got = streams["raw"].got /\ t.queue = streams["raw"].queue
    BY <1>2, <1>3, <1>4, NetIsNone
<1>6. Port("raw", t, takers["raw"], asks["raw"], source.stopped)
    BY <1>2, <1>5, RawPort
<1>7. RawOnly(t)
    BY <1>1, <1>3 DEF RawOnly, TransferFails
<1>8. call'.state = "refused"
    BY <1>1 DEF Frame, Types
<1> QED BY <1>1, <1>2, <1>3, <1>5, <1>6, <1>7, <1>8

LEMMA TransferFailsFrame == ASSUME Frame, TransferFails PROVE Frame'
<1>1. PICK t : /\ Port("raw", t, takers["raw"], asks["raw"], source.stopped) /\ Later(t, streams["raw"])
               /\ RawOnly(t) /\ source' = source /\ Native /\ call' = [call EXCEPT !.state = "refused"]
               /\ call'.state = "refused"
    BY TransferFailsIs
<1>2. call \in [state : {"none", "asked", "answered", "refused", "head"}, aborted : BOOLEAN, redirect : BOOLEAN]
    BY DEF Frame, Types
<1>3. call' \in [state : {"none", "asked", "answered", "refused", "head"}, aborted : BOOLEAN, redirect : BOOLEAN]
    BY <1>1, <1>2
<1>4. streams'["raw"] = t
    BY <1>1, RawPort DEF RawOnly, Frame, Types
<1>5. call.state = "asked"
    BY DEF TransferFails
<1>6. CallOK'
    BY <1>1, <1>5, UseStays DEF Frame, CallOK, RawOnly
<1>7. SourceOK'
    BY <1>1, <1>4, SourceStays, LaterOn DEF RawOnly
<1>8. ~Static
    BY <1>1, Forms DEF Frame, Types
<1>9. source' \in [made : 0..NumChunks, ended : BOOLEAN, stopped : BOOLEAN, missed : BOOLEAN]
    BY <1>1 DEF Frame, Types
<1> QED BY <1>1, <1>3, <1>6, <1>7, <1>8, <1>9, RawMoves

LEMMA AbortsIs ==
    ASSUME Frame, Aborts
    PROVE  \E t : /\ Port("raw", t, takers["raw"], asks["raw"], source.stopped) /\ Later(t, streams["raw"])
                  /\ t = streams["raw"] \/ Fails(t, streams["raw"])
                  /\ call.state = "none" => t = streams["raw"]
                  /\ takers["raw"] = {} => t.state = "errored" \/ t = streams["raw"]
                  /\ RawOnly(t) /\ source' = source /\ Native
                  /\ call' = [call EXCEPT !.aborted = TRUE, !.state = IF @ = "asked" THEN "refused" ELSE @]
<1>1. /\ Native /\ source' = source
      /\ call' = [call EXCEPT !.aborted = TRUE, !.state = IF @ = "asked" THEN "refused" ELSE @]
      /\ streams' = IF call.state = "none" THEN streams ELSE [streams EXCEPT !["raw"] = TornDown(@)]
    BY DEF Aborts
<1>2. PICK t : t = IF call.state = "none" THEN streams["raw"] ELSE TornDown(streams["raw"])
    OBVIOUS
<1>3. streams' = [streams EXCEPT !["raw"] = t]
    BY <1>1, <1>2, TakersStay, RawPort
<1>4. RawOnly(t)
    BY <1>1, <1>3 DEF RawOnly, Aborts
<1>5. Net(streams["raw"], takers["raw"], asks["raw"], source.stopped)
    BY <1>1, RawPort
<1>6. CASE t = streams["raw"]
    BY <1>1, <1>4, <1>5, <1>6, RawPort, LaterSame
<1>7. CASE t # streams["raw"]
  <2>1. t = TornDown(streams["raw"]) /\ streams["raw"].state = "readable" /\ call.state # "none"
      BY <1>2, <1>7 DEF TornDown
  <2>2. Net(t, takers["raw"], asks["raw"], source.stopped) /\ Fails(t, streams["raw"]) /\ Later(t, streams["raw"])
      BY <1>5, <2>1, NetFails
  <2>3. ASSUME takers["raw"] = {} PROVE t.state = "errored"
    <3>1. PICK a \in Seq({}) : a = asks["raw"]
        BY <1>5, <2>3 DEF Net
    <3>2. Len(a) = 0
        BY <3>1
    <3>3. PICK w \in Nat : w = IF source.stopped THEN 0 ELSE t.reads
        BY <2>2, NetFields
    <3>4. Len(a) = Len(t.got) + w /\ Len(t.got) \in Nat /\ Len(streams["raw"].got) \in Nat
        BY <1>5, <2>2, <3>1, <3>3, NetFields DEF Net
    <3>5. PICK x \in Nat, y \in Nat : x = Len(t.got) /\ y = Len(streams["raw"].got)
        BY <3>4
    <3>6. 0 = x + w
        BY <3>2, <3>4, <3>5
    <3>7. ~(x > y)
        BY <3>6
    <3> QED BY <2>2, <3>5, <3>7 DEF Fails
  <2>4. Port("raw", t, takers["raw"], asks["raw"], source.stopped)
      BY <1>1, <2>2, RawPort
  <2> QED BY <1>1, <1>4, <2>1, <2>2, <2>3, <2>4
<1> QED BY <1>6, <1>7

LEMMA AbortsFrame == ASSUME Frame, Aborts PROVE Frame'
<1>1. PICK t : /\ Port("raw", t, takers["raw"], asks["raw"], source.stopped) /\ Later(t, streams["raw"])
               /\ call.state = "none" => t = streams["raw"]
               /\ takers["raw"] = {} => t.state = "errored" \/ t = streams["raw"]
               /\ RawOnly(t) /\ source' = source /\ Native
               /\ call' = [call EXCEPT !.aborted = TRUE, !.state = IF @ = "asked" THEN "refused" ELSE @]
    BY AbortsIs
<1>2. call \in [state : {"none", "asked", "answered", "refused", "head"}, aborted : BOOLEAN, redirect : BOOLEAN]
    BY DEF Frame, Types
<1>3. /\ call' \in [state : {"none", "asked", "answered", "refused", "head"}, aborted : BOOLEAN, redirect : BOOLEAN]
      /\ call'.state = IF call.state = "asked" THEN "refused" ELSE call.state
    BY <1>1, <1>2
<1>4. streams'["raw"] = t
    BY <1>1, RawPort DEF RawOnly, Frame, Types
<1>5. CallOK'
  <2>1. call'.state # "head" => opened' \subseteq {"raw"} /\ \A s \in Streams : takers'[s] = {}
      BY <1>1, <1>3 DEF Frame, CallOK, RawOnly
  <2>2. call'.state \in {"none", "asked"} => streams'["raw"].state = "readable"
      BY <1>1, <1>3, <1>4 DEF Frame, CallOK
  <2>3. call'.state = "answered" => streams'["raw"].state # "closed"
      BY <1>1, <1>3, <1>4, RawPort DEF Frame, CallOK
  <2> QED BY <1>1, <2>1, <2>2, <2>3, UseStays DEF CallOK, RawOnly
<1>6. SourceOK'
    BY <1>1, <1>4, SourceStays, LaterOn DEF RawOnly
<1>7. ~Static
    BY <1>1, Forms DEF Frame, Types
<1>8. source' \in [made : 0..NumChunks, ended : BOOLEAN, stopped : BOOLEAN, missed : BOOLEAN]
    BY <1>1 DEF Frame, Types
<1> QED BY <1>1, <1>3, <1>5, <1>6, <1>7, <1>8, RawMoves

(* A read() and its place in the order; an answer that is heard.            *)
MayAsk(r, x, tk, tk2) ==
    tk \subseteq tk2 /\ tk2 \subseteq MayTake(x) /\ (NativeRaw(x) \/ AtMostOne(tk2)) /\ r \in tk2

LEMMA AskIs ==
    ASSUME Frame, NEW x \in Streams, NEW str, NEW tk, NEW ak, Port(x, str, tk, ak, source.stopped),
           NEW tk2, NEW r, MayAsk(r, x, tk, tk2)
    PROVE  \E t, b :
               /\ t = ReadOf(x, str) /\ AskedBy(r, x, str, ak) = [asks EXCEPT ![x] = b]
               /\ Port(x, t, tk2, b, source.stopped) /\ Reads(t, str) /\ Later(t, str)
               /\ Len(ak) = 0 => Len(b) = 1
               /\ ~NativeRaw(x) => Len(b) = Len(ak) + 1
<1> USE DEF MayAsk
<1>1. PICK t : t = ReadOf(x, str)
    OBVIOUS
<1>2. PICK b : b = Append(IF NativeRaw(x) THEN SubSeq(ak, 1, Len(str.got)) ELSE ak, r)
    OBVIOUS
<1>3. AskedBy(r, x, str, ak) = [asks EXCEPT ![x] = b]
    BY <1>2 DEF AskedBy, NativeRaw
<1>4. PICK a \in Seq(tk) : a = ak
    BY DEF Port
<1>5. CASE NativeRaw(x)
  <2>1. Net(str, tk, ak, source.stopped) /\ x = "raw" /\ Native
      BY <1>5, PortIsNet DEF NativeRaw
  <2>2. t = NativeRead(str) /\ b = Append(SubSeq(ak, 1, Len(str.got)), r)
      BY <1>1, <1>2, <1>5, <2>1 DEF ReadOf
  <2>3. Net(t, tk2, b, source.stopped) /\ Reads(t, str) /\ Later(t, str)
      BY <2>1, <2>2, NetReads
  <2>4. Port(x, t, tk2, b, source.stopped)
      BY <1>5, <2>3, PortIsNet
  <2>5. ASSUME Len(ak) = 0 PROVE Len(b) = 1
    <3>1. PICK l \in Nat : l = Len(str.got)
        BY <2>1, NetFields
    <3>2. PICK w \in Nat : w = IF source.stopped THEN 0 ELSE str.reads
        BY <2>1, NetFields
    <3>3. 0 = l + w
        BY <2>1, <2>5, <3>1, <3>2 DEF Net
    <3>4. l = 0
        BY <3>3
    <3>5. SubSeq(ak, 1, 0) = <<>>
        BY <1>4
    <3>6. b = Append(<<>>, r)
        BY <2>2, <3>1, <3>4, <3>5
    <3> QED BY <3>6
  <2> QED BY <1>1, <1>3, <1>5, <2>3, <2>4, <2>5
<1>6. CASE ~NativeRaw(x)
  <2>1. Own(x, str, tk, ak)
      BY <1>6, PortIsOwn
  <2>2. t = ReadMade(str) /\ b = Append(a, r)
      BY <1>1, <1>2, <1>4, <1>6 DEF ReadOf, NativeRaw
  <2>3. Own(x, t, tk2, b) /\ Reads(t, str) /\ Later(t, str)
      BY <1>4, <1>6, <2>1, <2>2, OwnReads
  <2>4. Port(x, t, tk2, b, source.stopped)
      BY <1>6, <2>3, PortIsOwn
  <2>5. Len(b) = Len(a) + 1 /\ Len(a) \in Nat
      BY <2>2
  <2>6. Len(b) = Len(ak) + 1 /\ (Len(ak) = 0 => Len(b) = 1)
      BY <1>4, <2>5
  <2> QED BY <1>1, <1>3, <2>3, <2>4, <2>6
<1> QED BY <1>5, <1>6

LEMMA HearIs ==
    ASSUME Frame, NEW x \in Streams, NEW r, Heard(r, x)
    PROVE  /\ Port(x, Taken(x), takers[x], Tail(asks[x]), source.stopped) /\ HeardOff(Taken(x), streams[x])
           /\ Later(Taken(x), streams[x])
           /\ AskedOff(x) = [asks EXCEPT ![x] = Tail(asks[x])] /\ r \in takers[x]
           /\ Answer(x) = Head(streams[x].got) /\ Answer(x) \in C \cup {End, Failed}
           /\ Len(Tail(asks[x])) = Len(asks[x]) - 1 /\ Len(asks[x]) \in Nat \ {0}
<1>1. Port(x, streams[x], takers[x], asks[x], source.stopped)
    BY DEF Frame, PortsOK
<1>2. streams[x] \in ReadableType(C)
    BY DEF Frame, Types
<1>3. asks[x] # <<>> /\ Head(asks[x]) = r /\ streams[x].got # <<>>
    BY DEF Heard
<1>4. PICK a \in Seq(takers[x]) : a = asks[x]
    BY <1>1 DEF Port
<1>5. Len(a) \in Nat /\ Len(a) # 0 /\ Head(a) \in takers[x] /\ Len(Tail(a)) = Len(a) - 1
    BY <1>3, <1>4
<1>6. PICK g \in Seq(C \cup {End, Failed}) : g = streams[x].got
    BY <1>2, ReadableFields
<1>7. Head(g) \in C \cup {End, Failed}
    BY <1>3, <1>6
<1>8. PICK t : t = [streams[x] EXCEPT !.got = Tail(@)]
    OBVIOUS
<1>9. t = Taken(x) /\ AskedOff(x) = [asks EXCEPT ![x] = Tail(asks[x])]
    BY <1>8 DEF Taken, AskedOff
<1>10. Port(x, t, takers[x], Tail(asks[x]), source.stopped) /\ HeardOff(t, streams[x]) /\ Later(t, streams[x])
  <2>1. CASE NativeRaw(x)
      BY <1>1, <1>3, <1>8, <2>1, PortIsNet, NetHeard
  <2>2. CASE ~NativeRaw(x)
      BY <1>1, <1>3, <1>8, <2>2, PortIsOwn, OwnHeard
  <2> QED BY <2>1, <2>2
<1> QED BY <1>3, <1>4, <1>5, <1>6, <1>7, <1>9, <1>10 DEF Answer

(* The script's loops.                                                      *)
LEMMA LoopTakes ==
    ASSUME Frame, NEW r \in Loops
    PROVE  r \in MayTake("raw") /\ r \in Takers /\ r \in Readers /\ r \notin Users /\ r # "copy" /\ "raw" \in Streams
BY DEF MayTake, Takers, Readers, Loops, Users, Streams

LEMMA LoopStartsIs ==
    ASSUME Frame, NEW r \in Loops, LoopStarts(r), state'[r] = "reading"
    PROVE  \E t, b :
               /\ Port("raw", t, takers["raw"] \cup {r}, b, source.stopped) /\ Reads(t, streams["raw"])
               /\ Later(t, streams["raw"]) /\ streams' = [streams EXCEPT !["raw"] = t]
               /\ takers' = [takers EXCEPT !["raw"] = takers["raw"] \cup {r}] /\ asks' = [asks EXCEPT !["raw"] = b]
               /\ Len(asks["raw"]) = 0 => Len(b) = 1
               /\ state' = [state EXCEPT ![r] = "reading"] /\ got' = got /\ ~Static /\ (~Native => takers["raw"] = {})
<1>1. /\ Native \/ (~Static /\ takers["raw"] = {})
      /\ state' = [state EXCEPT ![r] = "reading"]
      /\ takers' = [takers EXCEPT !["raw"] = @ \cup {r}]
      /\ streams' = [streams EXCEPT !["raw"] = ReadOf("raw", @)]
      /\ asks' = AskedBy(r, "raw", streams["raw"], asks["raw"]) /\ got' = got
    BY LoopTakes DEF LoopStarts, Frame, Types
<1>2. Port("raw", streams["raw"], takers["raw"], asks["raw"], source.stopped) /\ use \in Uses
      /\ takers \in [Streams -> SUBSET Takers]
    BY RawPort DEF Frame, Types
<1>3. PICK k : k = takers["raw"] \cup {r}
    OBVIOUS
<1>4. MayAsk(r, "raw", takers["raw"], k)
  <2>1. takers["raw"] \subseteq MayTake("raw")
      BY <1>2 DEF Port
  <2>2. NativeRaw("raw") \/ AtMostOne(k)
      BY <1>1, <1>3 DEF AtMostOne, NativeRaw
  <2> QED BY <1>3, <2>1, <2>2, LoopTakes DEF MayAsk
<1>5. PICK t, b :
               /\ t = ReadOf("raw", streams["raw"])
               /\ AskedBy(r, "raw", streams["raw"], asks["raw"]) = [asks EXCEPT !["raw"] = b]
               /\ Port("raw", t, k, b, source.stopped) /\ Reads(t, streams["raw"]) /\ Later(t, streams["raw"])
               /\ Len(asks["raw"]) = 0 => Len(b) = 1
  <2>1. "raw" \in Streams
      BY LoopTakes
  <2> QED BY <1>2, <1>4, <2>1, AskIs
<1>6. streams' = [streams EXCEPT !["raw"] = t] /\ takers' = [takers EXCEPT !["raw"] = k]
      /\ asks' = [asks EXCEPT !["raw"] = b]
    BY <1>1, <1>3, <1>5
<1>7. ~Static /\ (~Native => takers["raw"] = {})
    BY <1>1, <1>2, Forms
<1> QED BY <1>1, <1>3, <1>5, <1>6, <1>7

(* A reader's own state, and a stream that it reads.                        *)
Turns(r) ==
    /\ state' \in [Readers -> {"idle", "reading", "whole", "failed", "cancelled"}]
    /\ state'[r] \in {"reading", "whole", "failed", "cancelled"}
    /\ state'[r] = "cancelled" <=> state[r] = "cancelled"
    /\ \A q \in Readers : q # r => state'[q] = state[q]
    /\ got' \in [Readers -> Seq(Byte)] /\ byob' \in [left : Seq(Byte), lost : BOOLEAN]
    /\ byob'.left # <<>> => Does("byob")

LEMMA ReaderActs ==
    ASSUME Frame, UNCHANGED <<use, opened, tee, source, call>>, NEW r \in Readers, Turns(r),
           UNCHANGED <<streams, takers, asks>>,
           state'[r] = "reading" => state[r] = "reading"
    PROVE  Frame'
<1>1. PortsOK' /\ streams' \in [Streams -> ReadableType(C)]
        /\ takers' \in [Streams -> SUBSET Takers] /\ asks' \in [Streams -> Seq(Takers)]
  <2>1. Port("raw", streams["raw"], takers["raw"], asks["raw"], source.stopped) /\ "raw" \in Streams
      BY RawPort
  <2> QED BY <2>1, OneMoves, TakersStay
<1>2. Types'
    BY <1>1 DEF Frame, Types, Turns
<1>3. Calm
    BY LaterSame DEF Calm, Frame, OpenOK
<1>4. OpenOK'
    BY <1>3, OpenStays, UseStays
<1>5. ReadersOK'
    BY ReadersStay, LaterOn, LaterSame DEF Readers, Turns, Frame, ReadersOK
<1>6. TeeOK'
  <2>1. \A b \in Halves : state'[b] = "cancelled" <=> state[b] = "cancelled"
      BY DEF Halves, Users, Readers, Turns
  <2>2. Body' = Body
      BY UseStays
  <2> QED BY <2>1, <2>2, TeeStays, LaterOn, LaterSame
<1>7. SourceOK' /\ CallOK'
    BY SourceStays, LaterOn, CallStays, LaterSame
<1>8. StopOK'
  <2>1. state'["user"] = "cancelled" <=> state["user"] = "cancelled"
      BY DEF Users, Readers, Turns
  <2> QED BY <2>1, StopStays, LaterOn, LaterSame
<1> QED BY <1>1, <1>2, <1>4, <1>5, <1>6, <1>7, <1>8 DEF Frame

Moves(r, x, t, k, b) ==
    /\ UNCHANGED <<use, opened, tee, source, call>> /\ r \in Readers /\ Turns(r) /\ r # "copy"
    /\ x \in opened /\ Port(x, t, k, b, source.stopped) /\ Later(t, streams[x])
    /\ takers[x] \subseteq k /\ k \subseteq takers[x] \cup {r} /\ r \in k
    /\ call.state = "head" \/ k = takers[x]
    /\ (r \in Loops /\ x = "raw") \/ (r \in Users /\ x = StreamOf(r))
    /\ Blank(streams[x]) => Blank(t)
    /\ CanEnqueue(streams[x]) => CanEnqueue(t)
    /\ streams' = [streams EXCEPT ![x] = t]
    /\ takers' = [takers EXCEPT ![x] = k] /\ asks' = [asks EXCEPT ![x] = b]

LEMMA ReaderMoves ==
    ASSUME Frame, NEW r, NEW x, NEW t, NEW k, NEW b, Moves(r, x, t, k, b)
    PROVE  /\ Frame' /\ streams'[x] = t /\ takers'[x] = k /\ asks'[x] = b
           /\ \A s \in Streams : s # x => streams'[s] = streams[s] /\ takers'[s] = takers[s] /\ asks'[s] = asks[s]
<1> USE DEF Moves
<1>0. x \in Streams /\ r # "tee" /\ r # "wrap" /\ Body \in Streams /\ ~NativeRaw(Body)
    BY Forms DEF Frame, Types, Readers, Loops, Users
<1>1. /\ PortsOK' /\ streams' \in [Streams -> ReadableType(C)]
      /\ takers' \in [Streams -> SUBSET Takers] /\ asks' \in [Streams -> Seq(Takers)]
      /\ streams'[x] = t /\ takers'[x] = k /\ asks'[x] = b
      /\ \A s \in Streams : s # x => streams'[s] = streams[s] /\ takers'[s] = takers[s] /\ asks'[s] = asks[s]
    BY <1>0, OneMoves
<1>2. Types'
    BY <1>1 DEF Frame, Types, Turns
<1>3. \A s \in Streams : Later(streams'[s], streams[s]) /\ takers[s] \subseteq takers'[s]
    BY <1>1, LaterSame
<1>4. \A s \in Streams \ opened : streams'[s] = streams[s] /\ takers'[s] = takers[s]
    BY <1>1
<1>5. Calm
    BY <1>1, <1>3, <1>4, "body" \in Streams DEF Calm, Frame, OpenOK, Streams
<1>6. \A s \in Streams : /\ "wrap" \in takers'[s] <=> "wrap" \in takers[s]
                         /\ "tee" \in takers'[s] <=> "tee" \in takers[s]
    BY <1>0, <1>1
<1>7. takers[Body] \subseteq takers'[Body] /\ AtMostOne(takers'[Body])
    BY <1>0, <1>1, <1>3, UseStays DEF PortsOK, Port
<1>8. takers'[Body] = {"tee"} <=> takers[Body] = {"tee"}
    BY <1>0, <1>6, <1>7 DEF AtMostOne
<1>9. OpenOK'
    BY <1>5, <1>6, <1>8, OpenStays, "raw" \in Streams DEF Streams
<1>10. ReadersOK'
  <2>1. \A u \in Users : StreamOf(u) \in Streams
      BY Forms DEF Frame, Types
  <2>2. \A u \in Users : u \in Readers /\ u \notin Loops
      BY DEF Users, Readers, Loops
  <2>3. r \in Users => r \in takers'[StreamOf(r)]
      BY <1>1, <2>2
  <2>4. r \in Loops => r \in takers'["raw"] /\ r \notin Users
      BY <1>1, <2>2
  <2>5. \A q \in Loops \cup {"copy"} : q \in Readers
      BY DEF Readers
  <2>6. \A u \in Users : state'[u] \in {"reading", "cancelled"} => state'[u] = state[u] \/ u \in takers'[StreamOf(u)]
      BY <2>2, <2>3 DEF Turns
  <2>7. \A u \in Users : state'[u] = "cancelled" => state'[u] = state[u]
      BY <2>2 DEF Turns
  <2>8. \A q \in Loops : state'[q] = "reading" => state'[q] = state[q] \/ q \in takers'["raw"]
      BY <2>4, <2>5 DEF Turns
  <2>9. \A s \in Streams, q \in Readers : q \in takers'[s] => q \in takers[s] \/ state'[q] # "idle"
    <3>1. \A s \in Streams, q \in Readers : q \in takers'[s] => q \in takers[s] \/ q = r
        BY <1>1
    <3> QED BY <3>1 DEF Turns
  <2>10. \A q \in Readers : state'[q] = "idle" => state[q] = "idle"
      BY DEF Turns
  <2>11. \A q \in Loops \cup {"copy"} : state'[q] = "cancelled" => state'[q] = state[q]
      BY <2>5 DEF Turns
  <2>12. state'["copy"] = "reading" => state'["copy"] = state["copy"]
      BY <2>5 DEF Turns
  <2>13. byob'.left # <<>> => byob.left # <<>> \/ Does("byob")
      BY DEF Turns
  <2> QED BY <1>3, <2>6, <2>7, <2>8, <2>9, <2>10, <2>11, <2>12, <2>13, ReadersStay, LaterOn
<1>11. TeeOK'
  <2>1. \A h \in Halves : state'[h] = "cancelled" <=> state[h] = "cancelled"
      BY DEF Halves, Users, Readers, Turns
  <2>2. "tee" \in takers'[Body] => asks'[Body] = asks[Body]
      BY <1>0, <1>1, <1>7 DEF AtMostOne
  <2>3. Body' = Body
      BY UseStays
  <2> QED BY <1>0, <1>3, <1>6, <2>1, <2>2, <2>3, TeeStays, LaterOn
<1>12. SourceOK'
    BY <1>3, SourceStays, LaterOn, "raw" \in Streams DEF Streams
<1>13. CallOK'
  <2>1. call.state = "head" \/ takers' = takers
      BY <1>0, TakersStay
  <2>3. call.state = "head"
      BY <1>0 DEF Frame, CallOK
  <2> QED BY <2>3, CallStays
<1>14. StopOK'
  <2>1. state'["user"] = "cancelled" <=> state["user"] = "cancelled"
      BY DEF Users, Readers, Turns
  <2>2. Native /\ CanEnqueue(streams["body"]) => CanEnqueue(streams'["body"]) \/ streams'["raw"].state # "readable"
      BY <1>1, "body" \in Streams DEF Streams
  <2> QED BY <1>3, <1>6, <2>1, <2>2, StopStays, LaterOn, "raw" \in Streams DEF Streams
<1> QED BY <1>1, <1>2, <1>9, <1>10, <1>11, <1>12, <1>13, <1>14 DEF Frame

LEMMA ReadIsCalm ==
    ASSUME NEW s, NEW t, Reads(t, s) \/ HeardOff(t, s), Sane(s)
    PROVE  (Blank(s) => Blank(t)) /\ (CanEnqueue(s) => CanEnqueue(t))
<1>1. PICK g \in Seq(C \cup {End, Failed}) : g = s.got
    BY DEF Sane
<1>2. End \notin C /\ Failed \notin C
    BY ChunksAre
<1>3. CanEnqueue(s) => CanEnqueue(t)
    BY DEF Reads, HeardOff, CanEnqueue
<1>4. ASSUME Blank(s) PROVE Blank(t)
  <2>1. s.queue = <<>> /\ \A i \in DOMAIN g : g[i] \notin C
      BY <1>1, <1>4 DEF Blank
  <2>2. CASE t.queue = <<>> /\ t.got = g
      BY <2>1, <2>2 DEF Blank
  <2>3. CASE \E a \in {End, Failed} : t.queue = <<>> /\ t.got = Append(g, a)
    <3>1. PICK a \in {End, Failed} : t.queue = <<>> /\ t.got = Append(g, a)
        BY <2>3
    <3>2. PICK h : h = Append(g, a)
        OBVIOUS
    <3>3. DOMAIN h = 1..(Len(g) + 1) /\ h[Len(g) + 1] = a /\ \A i \in 1..Len(g) : h[i] = g[i]
        BY <3>2
    <3>4. \A i \in DOMAIN h : h[i] \notin C
        BY <1>2, <2>1, <3>3
    <3> QED BY <3>1, <3>2, <3>4 DEF Blank
  <2>4. CASE t.queue = <<>> /\ g # <<>> /\ t.got = Tail(g)
    <3>1. PICK h : h = Tail(g)
        OBVIOUS
    <3>2. DOMAIN h = 1..(Len(g) - 1) /\ \A i \in 1..(Len(g) - 1) : h[i] = g[i + 1] /\ i + 1 \in DOMAIN g
        BY <2>4, <3>1
    <3>3. \A i \in DOMAIN h : h[i] \notin C
        BY <2>1, <3>2
    <3> QED BY <2>4, <3>1, <3>3 DEF Blank
  <2> QED BY <1>1, <2>1, <2>2, <2>3, <2>4 DEF Reads, HeardOff
<1> QED BY <1>3, <1>4

LEMMA LoopStartsFrame == ASSUME Frame, NEW r \in Loops, LoopStarts(r) PROVE Frame'
<1>1. /\ UNCHANGED <<use, opened, tee, byob, source, call>> /\ call.state = "head" /\ state[r] = "idle"
    BY DEF LoopStarts
<1>2. /\ state \in [Readers -> {"idle", "reading", "whole", "failed", "cancelled"}]
      /\ got \in [Readers -> Seq(Byte)] /\ byob \in [left : Seq(Byte), lost : BOOLEAN]
      /\ byob.left # <<>> => Does("byob")
    BY DEF Frame, Types, ReadersOK
<1>3. r \in Readers /\ r \notin Users /\ r # "copy" /\ "raw" \in Streams
    BY LoopTakes
<1>4. CASE state'[r] # "reading"
  <2>1. \/ state' = [state EXCEPT ![r] = "whole"] /\ got' = [got EXCEPT ![r] = Everything]
        \/ state' = [state EXCEPT ![r] = "failed"] /\ got' = got
    BY <1>2, <1>3, <1>4 DEF LoopStarts
  <2>4. UNCHANGED <<streams, takers, asks>>
      BY <1>2, <1>3, <1>4 DEF LoopStarts
  <2>2. Everything \in Seq(Byte)
    <3>1. source.made \in 0..NumChunks
        BY DEF Frame, Types
    <3> QED BY <3>1, FirstIs DEF First, Everything
  <2>3. Turns(r)
      BY <1>1, <1>2, <1>3, <2>1, <2>2 DEF Turns
  <2> QED BY <1>1, <1>3, <1>4, <2>3, <2>4, ReaderActs
<1>5. CASE state'[r] = "reading"
  <2>1. PICK t, b :
               /\ Port("raw", t, takers["raw"] \cup {r}, b, source.stopped) /\ Reads(t, streams["raw"])
               /\ Later(t, streams["raw"]) /\ streams' = [streams EXCEPT !["raw"] = t]
               /\ takers' = [takers EXCEPT !["raw"] = takers["raw"] \cup {r}] /\ asks' = [asks EXCEPT !["raw"] = b]
               /\ state' = [state EXCEPT ![r] = "reading"] /\ got' = got /\ ~Static
      BY <1>5, LoopStartsIs
  <2>2. PICK k : k = takers["raw"] \cup {r}
      OBVIOUS
  <2>3. Turns(r)
      BY <1>1, <1>2, <1>3, <2>1 DEF Turns
  <2>4. "raw" \in opened
      BY <2>1 DEF Frame, OpenOK
  <2>5. Sane(streams["raw"])
      BY RawPort, PortSane
  <2>6. (Blank(streams["raw"]) => Blank(t)) /\ (CanEnqueue(streams["raw"]) => CanEnqueue(t))
      BY <2>1, <2>5, ReadIsCalm
  <2>7. takers["raw"] \subseteq k /\ k \subseteq takers["raw"] \cup {r} /\ r \in k
      BY <2>2
  <2>8. Moves(r, "raw", t, k, b)
      BY <1>1, <1>3, <2>1, <2>2, <2>3, <2>4, <2>6, <2>7 DEF Moves
  <2> QED BY <2>8, ReaderMoves
<1> QED BY <1>4, <1>5

LEMMA LoopHearsIs ==
    ASSUME Frame, NEW r \in Loops, LoopHears(r)
    PROVE  \E u, b :
               /\ Port("raw", u, takers["raw"], b, source.stopped) /\ Later(u, streams["raw"])
               /\ streams' = [streams EXCEPT !["raw"] = u] /\ asks' = [asks EXCEPT !["raw"] = b]
               /\ \/ /\ Answer("raw") \in {End, Failed} /\ u = Taken("raw") /\ b = Tail(asks["raw"])
                     /\ state' = [state EXCEPT ![r] = Outcome(Answer("raw"))] /\ got' = got
                  \/ /\ Answer("raw") \in C /\ Reads(u, Taken("raw")) /\ state' = state
                     /\ got' = [got EXCEPT ![r] = @ \o Bytes(Answer("raw"))]
                     /\ Len(asks["raw"]) = 1 => Len(b) = 1
<1>1. Heard(r, "raw")
    BY DEF LoopHears
<1>2. "raw" \in Streams /\ r \in MayTake("raw")
    BY LoopTakes
<1>3. /\ Port("raw", Taken("raw"), takers["raw"], Tail(asks["raw"]), source.stopped)
      /\ HeardOff(Taken("raw"), streams["raw"])
      /\ Later(Taken("raw"), streams["raw"])
      /\ AskedOff("raw") = [asks EXCEPT !["raw"] = Tail(asks["raw"])] /\ r \in takers["raw"]
      /\ Answer("raw") \in C \cup {End, Failed}
      /\ Len(Tail(asks["raw"])) = Len(asks["raw"]) - 1 /\ Len(asks["raw"]) \in Nat \ {0}
    BY <1>1, <1>2, HearIs
<1>4. CASE Answer("raw") \in {End, Failed}
  <2>1. /\ state' = [state EXCEPT ![r] = Outcome(Answer("raw"))] /\ got' = got
        /\ streams' = [streams EXCEPT !["raw"] = Taken("raw")] /\ asks' = [asks EXCEPT !["raw"] = Tail(asks["raw"])]
      BY <1>3, <1>4 DEF LoopHears
  <2> QED BY <1>3, <1>4, <2>1
<1>5. CASE Answer("raw") \notin {End, Failed}
  <2>1. /\ streams' = [streams EXCEPT !["raw"] = ReadOf("raw", Taken("raw"))] /\ state' = state
        /\ asks' = AskedBy(r, "raw", Taken("raw"), Tail(asks["raw"]))
        /\ got' = [got EXCEPT ![r] = @ \o Bytes(Answer("raw"))] /\ Answer("raw") \in C
      BY <1>3, <1>5 DEF LoopHears
  <2>2. MayAsk(r, "raw", takers["raw"], takers["raw"])
      BY <1>2, <1>3 DEF MayAsk, Port
  <2>6. PICK v : v = Taken("raw")
      OBVIOUS
  <2>7. PICK w : w = Tail(asks["raw"])
      OBVIOUS
  <2>8. Port("raw", v, takers["raw"], w, source.stopped)
      BY <1>3, <2>6, <2>7
  <2>9. PICK u, b :
               /\ u = ReadOf("raw", v) /\ AskedBy(r, "raw", v, w) = [asks EXCEPT !["raw"] = b]
               /\ Port("raw", u, takers["raw"], b, source.stopped) /\ Reads(u, v) /\ Later(u, v)
               /\ Len(w) = 0 => Len(b) = 1
      BY <1>2, <2>2, <2>8, AskIs
  <2>3. /\ u = ReadOf("raw", Taken("raw"))
        /\ AskedBy(r, "raw", Taken("raw"), Tail(asks["raw"])) = [asks EXCEPT !["raw"] = b]
        /\ Port("raw", u, takers["raw"], b, source.stopped) /\ Reads(u, Taken("raw")) /\ Later(u, Taken("raw"))
        /\ Len(Tail(asks["raw"])) = 0 => Len(b) = 1
      BY <2>6, <2>7, <2>9
  <2>4. Later(u, streams["raw"])
      BY <1>3, <2>3 DEF Later
  <2>5. Len(asks["raw"]) = 1 => Len(b) = 1
    <3>1. PICK m \in Nat : m = Len(asks["raw"])
        BY <1>3
    <3>2. Len(Tail(asks["raw"])) = m - 1 /\ (m = 1 => m - 1 = 0)
        BY <1>3, <3>1
    <3> QED BY <2>3, <3>1, <3>2
  <2> QED BY <2>1, <2>3, <2>4, <2>5
<1> QED BY <1>4, <1>5

LEMMA LoopHearsFrame == ASSUME Frame, NEW r \in Loops, LoopHears(r) PROVE Frame'
<1>1. PICK u, b :
               /\ Port("raw", u, takers["raw"], b, source.stopped) /\ Later(u, streams["raw"])
               /\ streams' = [streams EXCEPT !["raw"] = u] /\ asks' = [asks EXCEPT !["raw"] = b]
               /\ \/ /\ Answer("raw") \in {End, Failed} /\ u = Taken("raw") /\ b = Tail(asks["raw"])
                     /\ state' = [state EXCEPT ![r] = Outcome(Answer("raw"))] /\ got' = got
                  \/ /\ Answer("raw") \in C /\ Reads(u, Taken("raw")) /\ state' = state
                     /\ got' = [got EXCEPT ![r] = @ \o Bytes(Answer("raw"))]
    BY LoopHearsIs
<1>2. "raw" \in Streams /\ r \in Readers /\ r # "copy" /\ Heard(r, "raw")
    BY LoopTakes DEF LoopHears
<1>3. /\ Port("raw", Taken("raw"), takers["raw"], Tail(asks["raw"]), source.stopped)
      /\ HeardOff(Taken("raw"), streams["raw"])
      /\ r \in takers["raw"]
    BY <1>2, HearIs
<1>4. "raw" \in opened
    BY <1>2, <1>3 DEF Frame, OpenOK
<1>5. Sane(streams["raw"]) /\ Sane(Taken("raw"))
    BY <1>3, RawPort, PortSane
<1>6. /\ Blank(streams["raw"]) => Blank(Taken("raw"))
      /\ CanEnqueue(streams["raw"]) => CanEnqueue(Taken("raw"))
    BY <1>3, <1>5, ReadIsCalm
<1>7. /\ Reads(u, Taken("raw")) => /\ Blank(Taken("raw")) => Blank(u)
                                   /\ CanEnqueue(Taken("raw")) => CanEnqueue(u)
    BY <1>5, ReadIsCalm
<1>8. /\ Blank(streams["raw"]) => Blank(u)
      /\ CanEnqueue(streams["raw"]) => CanEnqueue(u)
    BY <1>1, <1>6, <1>7
<1>9. /\ state \in [Readers -> {"idle", "reading", "whole", "failed", "cancelled"}]
      /\ got \in [Readers -> Seq(Byte)] /\ byob \in [left : Seq(Byte), lost : BOOLEAN]
      /\ byob.left # <<>> => Does("byob")
    BY DEF Frame, Types, ReadersOK
<1>10. UNCHANGED <<use, opened, takers, tee, byob, source, call>>
    BY DEF LoopHears
<1>11. state[r] # "idle" /\ state[r] # "cancelled"
    BY <1>2, <1>3 DEF Frame, ReadersOK
<1>12. Turns(r)
  <2>1. CASE state' = [state EXCEPT ![r] = Outcome(Answer("raw"))] /\ got' = got
      BY <1>2, <1>9, <1>10, <1>11, <2>1 DEF Turns, Outcome
  <2>2. CASE Answer("raw") \in C /\ state' = state /\ got' = [got EXCEPT ![r] = @ \o Bytes(Answer("raw"))]
    <3>1. PICK g \in Seq(Byte) : g = got[r]
        BY <1>2, <1>9
    <3>2. PICK d \in Seq(Byte) : d = Bytes(Answer("raw"))
        BY <2>2, BytesAre
    <3>3. PICK h : h = g \o d
        OBVIOUS
    <3>4. h \in Seq(Byte)
        BY <3>3
    <3>5. got' = [got EXCEPT ![r] = h]
        BY <2>2, <3>1, <3>2, <3>3
    <3>6. got' \in [Readers -> Seq(Byte)]
        BY <1>9, <3>4, <3>5
    <3> QED BY <1>2, <1>9, <1>10, <1>11, <2>2, <3>6 DEF Turns
  <2> QED BY <1>1, <2>1, <2>2
<1>13. PICK k : k = takers["raw"]
    OBVIOUS
<1>14. takers' = [takers EXCEPT !["raw"] = k]
    BY <1>2, <1>10, <1>13, TakersStay
<1>15. Moves(r, "raw", u, k, b)
    BY <1>1, <1>2, <1>3, <1>4, <1>8, <1>10, <1>12, <1>13, <1>14 DEF Moves
<1> QED BY <1>15, ReaderMoves

(* The user's reader, which may keep what does not fit into its view.       *)
LEMMA FillIs ==
    ASSUME Frame, NEW u \in Users, NEW b \in Seq(Byte), Fill(u, b)
    PROVE  /\ got' \in [Readers -> Seq(Byte)] /\ byob' \in [left : Seq(Byte), lost : BOOLEAN]
           /\ byob'.lost = byob.lost /\ (byob'.left # <<>> => Does("byob"))
           /\ \A q \in Readers : q # u => got'[q] = got[q]
           /\ u # "user" => byob' = byob
           /\ Byob(u) => got'[u] \o byob'.left = got[u] \o b
           /\ ~Byob(u) => byob' = byob /\ got'[u] = got[u] \o b
<1>1. /\ got \in [Readers -> Seq(Byte)] /\ byob \in [left : Seq(Byte), lost : BOOLEAN]
      /\ byob.left # <<>> => Does("byob")
    BY DEF Frame, Types, ReadersOK
<1>2. u \in Readers
    BY DEF Readers
<1>3. PICK g \in Seq(Byte) : g = got[u]
    BY <1>1, <1>2
<1>4. PICK k : k = IF Room < Len(b) THEN Room ELSE Len(b)
    OBVIOUS
<1>5. /\ (g \o SubSeq(b, 1, k)) \o Keeps(b) = g \o b
      /\ g \o SubSeq(b, 1, k) \in Seq(Byte) /\ Keeps(b) \in Seq(Byte)
      /\ g \o SubSeq(b, 1, Len(b)) = g \o b
    BY <1>4, ViewAndRest
<1>6. g \o b \in Seq(Byte)
    OBVIOUS
<1>7. CASE Byob(u)
  <2>1. PICK h : h = g \o SubSeq(b, 1, k)
      OBVIOUS
  <2>2. IF Byob(u) /\ Room < Len(b) THEN k = Room ELSE k = Len(b)
      BY <1>4, <1>7
  <2>3. got' = [got EXCEPT ![u] = h]
      BY <1>3, <1>4, <1>7, <2>1 DEF Fill
  <2>4. byob' = [byob EXCEPT !.left = Keeps(b)]
      BY <1>7 DEF Fill
  <2>5. got' \in [Readers -> Seq(Byte)] /\ got'[u] = h /\ \A q \in Readers : q # u => got'[q] = got[q]
      BY <1>1, <1>2, <1>5, <2>1, <2>3
  <2>6. byob' \in [left : Seq(Byte), lost : BOOLEAN] /\ byob'.lost = byob.lost /\ byob'.left = Keeps(b)
      BY <1>1, <1>5, <2>4
  <2>7. u = "user" /\ Does("byob")
      BY <1>7 DEF Byob
  <2>8. h \o Keeps(b) = g \o b
      BY <1>5, <2>1
  <2> QED BY <1>3, <1>7, <2>5, <2>6, <2>7, <2>8
<1>8. CASE ~Byob(u)
  <2>1. PICK h : h = g \o SubSeq(b, 1, Len(b))
      OBVIOUS
  <2>2. got' = [got EXCEPT ![u] = h]
      BY <1>3, <1>8, <2>1 DEF Fill
  <2>3. byob' = byob
      BY <1>8 DEF Fill
  <2>4. h = g \o b /\ h \in Seq(Byte)
      BY <1>5, <1>6, <2>1
  <2>5. got' \in [Readers -> Seq(Byte)] /\ got'[u] = h /\ \A q \in Readers : q # u => got'[q] = got[q]
      BY <1>1, <1>2, <2>2, <2>4
  <2> QED BY <1>1, <1>3, <1>8, <2>3, <2>4, <2>5
<1> QED BY <1>7, <1>8

LEMMA UserTakes ==
    ASSUME Frame, NEW u \in Users
    PROVE  /\ StreamOf(u) \in Streams /\ ~NativeRaw(StreamOf(u)) /\ u \in Readers /\ u # "copy" /\ u \notin Loops
           /\ u # "tee" /\ u # "wrap" /\ u \in MayTake(StreamOf(u))
<1>1. StreamOf(u) \in Streams /\ ~NativeRaw(StreamOf(u)) /\ Body \in {"raw", "body"} /\ (Body = "raw" => ~Native)
    BY Forms DEF Frame, Types
<1>2. u \in MayTake(StreamOf(u))
    BY <1>1 DEF MayTake, StreamOf, Users, Halves
<1> QED BY <1>1, <1>2 DEF Users, Readers, Loops

UserAsks(u) ==
    /\ state[u] = "idle" => takers[StreamOf(u)] = {}
    /\ ~Settled(u) /\ ~(Byob(u) /\ byob.left # <<>>)
    /\ state' = [state EXCEPT ![u] = "reading"]
    /\ takers' = [takers EXCEPT ![StreamOf(u)] = @ \cup {u}]
    /\ streams' = [streams EXCEPT ![StreamOf(u)] = ReadOf(StreamOf(u), @)]
    /\ asks' = AskedBy(u, StreamOf(u), streams[StreamOf(u)], asks[StreamOf(u)])
    /\ UNCHANGED <<got, byob>>

LEMMA UserAsksIs ==
    ASSUME Frame, NEW u \in Users, UserReads(u), UserAsks(u)
    PROVE  \E t, k, b :
               /\ Moves(u, StreamOf(u), t, k, b) /\ Reads(t, streams[StreamOf(u)])
               /\ k = takers[StreamOf(u)] \cup {u} /\ (state[u] = "reading" => u \in takers[StreamOf(u)])
<1>1. PICK x \in Streams : x = StreamOf(u)
    BY UserTakes
<1>2. /\ x \in opened /\ call.state = "head" /\ UNCHANGED <<use, opened, tee, source, call>>
      /\ state' = [state EXCEPT ![u] = "reading"] /\ got' = got /\ byob' = byob /\ ~Settled(u)
      /\ state[u] = "idle" => takers[x] = {}
    BY <1>1 DEF UserReads, UserAsks
<1>3. /\ state \in [Readers -> {"idle", "reading", "whole", "failed", "cancelled"}]
      /\ got \in [Readers -> Seq(Byte)] /\ byob \in [left : Seq(Byte), lost : BOOLEAN]
      /\ byob.left # <<>> => Does("byob")
    BY DEF Frame, Types, ReadersOK
<1>4. u \in Readers /\ u # "copy" /\ u \in MayTake(x) /\ ~NativeRaw(x)
    BY <1>1, UserTakes
<1>5. state[u] \in {"idle", "reading"}
    BY <1>2, <1>3, <1>4 DEF Settled
<1>6. Turns(u)
    BY <1>2, <1>3, <1>4, <1>5 DEF Turns
<1>7. PICK k : k = takers[x] \cup {u}
    OBVIOUS
<1>8. Port(x, streams[x], takers[x], asks[x], source.stopped)
    BY DEF Frame, PortsOK
<1>9. state[u] = "reading" => u \in takers[x]
    BY <1>1 DEF Frame, ReadersOK
<1>10. MayAsk(u, x, takers[x], k)
    BY <1>2, <1>4, <1>5, <1>7, <1>8, <1>9 DEF MayAsk, Port, AtMostOne
<1>11. PICK t, b :
               /\ t = ReadOf(x, streams[x]) /\ AskedBy(u, x, streams[x], asks[x]) = [asks EXCEPT ![x] = b]
               /\ Port(x, t, k, b, source.stopped) /\ Reads(t, streams[x]) /\ Later(t, streams[x])
    BY <1>8, <1>10, AskIs
<1>12. /\ streams' = [streams EXCEPT ![x] = t] /\ takers' = [takers EXCEPT ![x] = k]
       /\ asks' = [asks EXCEPT ![x] = b]
    BY <1>1, <1>7, <1>11 DEF UserAsks
<1>13. /\ Blank(streams[x]) => Blank(t)
       /\ CanEnqueue(streams[x]) => CanEnqueue(t)
    BY <1>8, <1>11, PortSane, ReadIsCalm
<1>14. Moves(u, x, t, k, b)
    BY <1>1, <1>2, <1>4, <1>6, <1>7, <1>11, <1>12, <1>13 DEF Moves
<1> QED BY <1>1, <1>7, <1>9, <1>11, <1>14

LEMMA UserReadsFrame == ASSUME Frame, NEW u \in Users, UserReads(u) PROVE Frame'
<1>1. UNCHANGED <<use, opened, tee, source, call>> /\ u \in Readers
    BY UserTakes DEF UserReads
<1>2. /\ state \in [Readers -> {"idle", "reading", "whole", "failed", "cancelled"}]
      /\ got \in [Readers -> Seq(Byte)] /\ byob \in [left : Seq(Byte), lost : BOOLEAN]
      /\ byob.left # <<>> => Does("byob")
    BY DEF Frame, Types, ReadersOK
<1>3. CASE /\ state[u] = "idle" /\ takers[StreamOf(u)] # {} /\ state' = [state EXCEPT ![u] = "failed"]
           /\ UNCHANGED <<streams, takers, asks, got, byob>>
  <2>1. Turns(u)
      BY <1>1, <1>2, <1>3 DEF Turns
  <2> QED BY <1>1, <1>2, <1>3, <2>1, ReaderActs
<1>4. CASE /\ state[u] = "reading" /\ Byob(u) /\ Fill(u, byob.left)
           /\ UNCHANGED <<streams, takers, asks, state>>
  <2>1. byob.left \in Seq(Byte)
      BY <1>2
  <2>2. /\ got' \in [Readers -> Seq(Byte)] /\ byob' \in [left : Seq(Byte), lost : BOOLEAN]
        /\ byob'.left # <<>> => Does("byob")
      BY <1>4, <2>1, FillIs
  <2>3. Turns(u)
      BY <1>1, <1>2, <1>4, <2>2 DEF Turns
  <2> QED BY <1>1, <1>4, <2>3, ReaderActs
<1>5. CASE UserAsks(u)
    BY <1>5, UserAsksIs, ReaderMoves
<1> QED BY <1>3, <1>4, <1>5 DEF UserReads, UserAsks

(* A user hears.                                                            *)
LEMMA UserHearsIs ==
    ASSUME Frame, NEW u \in Users, UserHears(u) \/ UserOverwrites(u)
    PROVE  LET x == StreamOf(u)
           IN  /\ Moves(u, x, Taken(x), takers[x], Tail(asks[x])) /\ HeardOff(Taken(x), streams[x])
               /\ takers' = takers /\ u \in takers[x] /\ Answer(x) \in C \cup {End, Failed}
<1>1. PICK x \in Streams : x = StreamOf(u)
    BY UserTakes
<1>2. /\ UNCHANGED <<use, opened, takers, tee, source, call>> /\ Heard(u, x)
      /\ streams' = [streams EXCEPT ![x] = Taken(x)] /\ asks' = AskedOff(x)
    BY <1>1 DEF UserHears, UserOverwrites
<1>3. u \in Readers /\ u # "copy" /\ ~NativeRaw(x)
    BY <1>1, UserTakes
<1>4. /\ Port(x, Taken(x), takers[x], Tail(asks[x]), source.stopped) /\ HeardOff(Taken(x), streams[x])
      /\ Later(Taken(x), streams[x]) /\ u \in takers[x] /\ Answer(x) \in C \cup {End, Failed}
      /\ AskedOff(x) = [asks EXCEPT ![x] = Tail(asks[x])]
    BY <1>2, HearIs
<1>5. /\ state \in [Readers -> {"idle", "reading", "whole", "failed", "cancelled"}]
      /\ got \in [Readers -> Seq(Byte)] /\ byob \in [left : Seq(Byte), lost : BOOLEAN]
      /\ byob.left # <<>> => Does("byob")
    BY DEF Frame, Types, ReadersOK
<1>6. state[u] # "idle" /\ x \in opened
    BY <1>3, <1>4 DEF Frame, ReadersOK, OpenOK
<1>7. PICK g \in Seq(Byte) : g = got[u]
    BY <1>3, <1>5
<1>8. Turns(u)
  <2>1. CASE /\ UserHears(u) /\ Answer(x) \in {End, Failed}
    <3>1. state' = [state EXCEPT ![u] = IF Settled(u) THEN @ ELSE Outcome(Answer(x))] /\ got' = got /\ byob' = byob
        BY <1>1, <2>1 DEF UserHears
    <3>2. Outcome(Answer(x)) \in {"whole", "failed"}
        BY DEF Outcome
    <3>3. state[u] = "cancelled" => Settled(u)
        BY DEF Settled
    <3> QED BY <1>3, <1>5, <1>6, <3>1, <3>2, <3>3 DEF Turns
  <2>2. CASE UserHears(u) /\ Answer(x) \notin {End, Failed}
    <3>1. Fill(u, Bytes(Answer(x))) /\ state' = state
        BY <1>1, <2>2 DEF UserHears
    <3>2. PICK b \in Seq(Byte) : b = Bytes(Answer(x))
        BY <1>4, <2>2, BytesAre
    <3>3. /\ got' \in [Readers -> Seq(Byte)] /\ byob' \in [left : Seq(Byte), lost : BOOLEAN]
          /\ byob'.left # <<>> => Does("byob")
        BY <3>1, <3>2, FillIs
    <3> QED BY <1>3, <1>5, <1>6, <3>1, <3>3 DEF Turns
  <2>3. CASE UserOverwrites(u)
    <3>1. Answer(x) \in C /\ Byob(u) /\ state' = state
        BY <1>1, <1>4, <2>3 DEF UserOverwrites
    <3>2. PICK b \in Seq(Byte) : b = Bytes(Answer(x))
        BY <3>1, BytesAre
    <3>3. PICK l : l = IF Room < Len(b) THEN Room ELSE Len(b)
        OBVIOUS
    <3>4. PICK h : h = g \o SubSeq(b, 1, l)
        OBVIOUS
    <3>5. h \in Seq(Byte) /\ Keeps(b) \in Seq(Byte)
        BY <3>3, <3>4, ViewAndRest
    <3>6. got' = [got EXCEPT ![u] = h] /\ byob' = [left |-> Keeps(b), lost |-> TRUE]
        BY <1>1, <1>7, <2>3, <3>2, <3>3, <3>4 DEF UserOverwrites
    <3>7. got' \in [Readers -> Seq(Byte)] /\ byob' \in [left : Seq(Byte), lost : BOOLEAN]
        BY <1>5, <3>5, <3>6
    <3>8. Does("byob")
        BY <3>1 DEF Byob
    <3> QED BY <1>3, <1>5, <1>6, <3>1, <3>7, <3>8 DEF Turns
  <2> QED BY <2>1, <2>2, <2>3
<1>9. takers' = [takers EXCEPT ![x] = takers[x]]
    BY <1>2, TakersStay
<1>10. /\ Blank(streams[x]) => Blank(Taken(x))
       /\ CanEnqueue(streams[x]) => CanEnqueue(Taken(x))
  <2>1. Port(x, streams[x], takers[x], asks[x], source.stopped)
      BY DEF Frame, PortsOK
  <2> QED BY <1>4, <2>1, PortSane, ReadIsCalm
<1>11. PICK k : k = takers[x]
    OBVIOUS
<1>12. Moves(u, x, Taken(x), k, Tail(asks[x]))
    BY <1>1, <1>2, <1>3, <1>4, <1>6, <1>8, <1>9, <1>10, <1>11 DEF Moves
<1> QED BY <1>1, <1>2, <1>4, <1>11, <1>12

LEMMA UserHearsFrame == ASSUME Frame, NEW u \in Users, UserHears(u) \/ UserOverwrites(u) PROVE Frame'
<1>1. PICK t, k, b : Moves(u, StreamOf(u), t, k, b)
    BY UserHearsIs
<1> QED BY <1>1, ReaderMoves

LEMMA ClonesFrame == ASSUME Frame, Clones PROVE Frame'
<1>1. /\ state \in [Readers -> {"idle", "reading", "whole", "failed", "cancelled"}]
      /\ got \in [Readers -> Seq(Byte)] /\ byob \in [left : Seq(Byte), lost : BOOLEAN]
      /\ byob.left # <<>> => Does("byob")
    BY DEF Frame, Types, ReadersOK
<1>2. /\ UNCHANGED <<use, streams, opened, takers, asks, tee, byob, source, call>> /\ state["copy"] = "idle"
      /\ "copy" \in Readers
    BY DEF Clones, Readers
<1>3. Everything \in Seq(Byte)
  <2>1. source.made \in 0..NumChunks
      BY DEF Frame, Types
  <2> QED BY <2>1, FirstIs DEF First, Everything
<1>4. PICK v \in {"failed", "whole"} : state' = [state EXCEPT !["copy"] = v]
    BY DEF Clones
<1>5. PICK h \in Seq(Byte) : got' = [got EXCEPT !["copy"] = h]
  <2>1. <<>> \in Seq(Byte)
      BY EmptySeq
  <2> QED BY <1>3, <2>1 DEF Clones
<1>6. Turns("copy")
    BY <1>1, <1>2, <1>4, <1>5 DEF Turns
<1>7. state'["copy"] # "reading"
    BY <1>1, <1>2, <1>4
<1> QED BY <1>2, <1>6, <1>7, ReaderActs

(* The body getter, and start().                                            *)
LEMMA NewIsOwn ==
    ASSUME NEW s, NEW pulls \in BOOLEAN
    PROVE  LET t == NewReadable(pulls, FALSE)
           IN  /\ Own(s, t, {}, <<>>) /\ t.state = "readable" /\ ~t.closing /\ t.queue = <<>> /\ t.got = <<>>
               /\ ~t.started /\ t.pulls = pulls /\ Blank(t)
<1>1. <<>> \in Seq(C) /\ <<>> \in Seq(C \cup {End, Failed}) /\ <<>> \in Seq({})
    BY EmptySeq
<1>2. PICK e : e = <<>>
    OBVIOUS
<1>3. e \in Seq(C) /\ e \in Seq(C \cup {End, Failed}) /\ e \in Seq({}) /\ Len(e) = 0 /\ \A i \in DOMAIN e : FALSE
    BY <1>1, <1>2
<1>4. PICK t : t = NewReadable(pulls, FALSE)
    OBVIOUS
<1>5. /\ t = [state |-> "readable", queue |-> e, size |-> 0, closing |-> FALSE,
              started |-> FALSE, pulls |-> pulls, pull |-> "idle", again |-> FALSE, reads |-> 0, got |-> e]
    BY <1>2, <1>4 DEF NewReadable
<1>6. /\ t.state = "readable" /\ t.queue = e /\ ~t.closing /\ ~t.started /\ t.pulls = pulls /\ t.pull = "idle"
      /\ t.reads = 0 /\ t.got = e
    BY <1>5
<1>7. t \in ReadableType(C)
    BY <1>3, <1>5 DEF ReadableType
<1>8. StreamOK(t, C)
    BY <1>2, <1>3, <1>6, <1>7 DEF StreamOK
<1>9. Len(e) = Len(t.got) + t.reads
    BY <1>3, <1>6
<1>10. Own(s, t, {}, e)
    BY <1>3, <1>6, <1>8, <1>9 DEF Own, AtMostOne
<1>11. Blank(t)
  <2>1. t.queue = <<>>
      BY <1>2, <1>6
  <2>2. \A i \in DOMAIN t.got : FALSE
      BY <1>3, <1>6
  <2> QED BY <2>1, <2>2 DEF Blank
<1> QED BY <1>2, <1>4, <1>6, <1>10, <1>11

(* A stream that is not there yet has no taker and no reads.                *)
LEMMA NotOpen ==
    ASSUME Frame, NEW s \in Streams, takers[s] = {}
    PROVE  /\ asks[s] = <<>> /\ streams[s].got = <<>> /\ Len(asks[s]) = 0
<1>1. Port(s, streams[s], {}, asks[s], source.stopped) /\ streams[s] \in ReadableType(C)
  <2>1. PICK k : k = takers[s]
      OBVIOUS
  <2>2. Port(s, streams[s], k, asks[s], source.stopped)
      BY <2>1 DEF Frame, PortsOK
  <2>3. k = {}
      BY <2>1
  <2>4. Port(s, streams[s], {}, asks[s], source.stopped)
      BY <2>2, <2>3
  <2> QED BY <2>4, PortSane
<1>2. PICK a \in Seq({}) : a = asks[s]
    BY <1>1 DEF Port
<1>3. a = <<>> /\ Len(a) = 0
    BY <1>2
<1>4. PICK w \in Nat : w = Waits(s, streams[s], source.stopped)
    BY <1>1, ReadableFields DEF Waits
<1>5. PICK g \in Seq(C \cup {End, Failed}) : g = streams[s].got
    BY <1>1, ReadableFields
<1>6. Len(g) \in Nat /\ 0 = Len(g) + w
    BY <1>1, <1>2, <1>3, <1>4, <1>5 DEF Port
<1>7. Len(g) = 0
    BY <1>6
<1>8. g = <<>>
    BY <1>7
<1> QED BY <1>2, <1>3, <1>5, <1>8

LEMMA NobodyCancelled ==
    ASSUME Frame, takers[Body] = {}
    PROVE  ~Unwanted /\ ~source.stopped
<1>1. Body \in Streams /\ "user" \in Users /\ StreamOf("user") = Body /\ "one" \in Users /\ "one" \in Halves
      /\ StreamOf("one") = "one" /\ "one" \in Streams
    BY Forms DEF Frame, Types, Users, StreamOf, Halves, Streams
<1>2. state["user"] # "cancelled"
    BY <1>1 DEF Frame, ReadersOK
<1>3. takers[Body] # {"tee"}
    OBVIOUS
<1>4. "one" \notin opened
    BY <1>1, <1>3 DEF Frame, OpenOK
<1>5. takers["one"] = {}
    BY <1>1, <1>4 DEF Frame, OpenOK
<1>6. state["one"] # "cancelled"
    BY <1>1, <1>5 DEF Frame, ReadersOK
<1>7. tee.cancelled # Halves
    BY <1>1, <1>6 DEF Frame, TeeOK
<1> QED BY <1>2, <1>7 DEF Unwanted, Frame, StopOK

LEMMA OpensBodyIs ==
    ASSUME Frame, OpensBody
    PROVE  LET t == NewReadable(Native, FALSE)
           IN  /\ streams' = [streams EXCEPT !["body"] = t] /\ opened' = opened \cup {"body"}
               /\ Port("body", t, takers["body"], asks["body"], source.stopped)
               /\ takers["body"] = {} /\ Fresh(streams["body"]) /\ Body = "body" /\ ~Unwanted
               /\ "wrap" \notin takers["raw"] /\ ~streams["body"].started
<1>1. /\ "body" \notin opened /\ "body" \in Streams /\ Body = "body"
      /\ streams' = [streams EXCEPT !["body"] = NewReadable(Native, FALSE)]
      /\ opened' = opened \cup {"body"}
    BY DEF OpensBody, Streams
<1>2. Fresh(streams["body"]) /\ takers["body"] = {} /\ "wrap" \notin takers["raw"]
    BY <1>1 DEF Frame, OpenOK
<1>3. asks["body"] = <<>>
    BY <1>1, <1>2, NotOpen
<1>4. PICK t : t = NewReadable(Native, FALSE)
    OBVIOUS
<1>5. Own("body", t, {}, <<>>)
    BY <1>4, NewIsOwn DEF Native
<1>6. Port("body", t, takers["body"], asks["body"], source.stopped)
    BY <1>1, <1>2, <1>3, <1>5, OwnPort, Forms DEF Frame, Types
<1>7. ~Unwanted
    BY <1>1, <1>2, NobodyCancelled
<1> QED BY <1>1, <1>2, <1>4, <1>6, <1>7 DEF Fresh

LEMMA OpensBodyFrame == ASSUME Frame, OpensBody PROVE Frame'
<1>1. UNCHANGED <<use, takers, asks, state, got, tee, byob, source, call>> /\ call.state = "head"
    BY DEF OpensBody
<1>2. PICK t : t = NewReadable(Native, FALSE)
    OBVIOUS
<1>3. /\ streams' = [streams EXCEPT !["body"] = t] /\ opened' = opened \cup {"body"}
      /\ Port("body", t, takers["body"], asks["body"], source.stopped)
      /\ takers["body"] = {} /\ Fresh(streams["body"]) /\ Body = "body" /\ ~Unwanted
      /\ "wrap" \notin takers["raw"] /\ ~streams["body"].started
    BY <1>2, OpensBodyIs
<1>4. t.state = "readable" /\ ~t.closing /\ t.queue = <<>> /\ ~t.started /\ t.pulls = Native /\ Blank(t)
    BY <1>2, NewIsOwn DEF Native
<1>5. "body" \in Streams /\ "raw" \in Streams /\ "body" # "raw"
    BY DEF Streams
<1>6. /\ PortsOK' /\ streams' \in [Streams -> ReadableType(C)]
      /\ takers' \in [Streams -> SUBSET Takers] /\ asks' \in [Streams -> Seq(Takers)]
      /\ streams'["body"] = t
      /\ \A s \in Streams : s # "body" => streams'[s] = streams[s]
  <2>1. /\ takers' = [takers EXCEPT !["body"] = takers["body"]]
        /\ asks' = [asks EXCEPT !["body"] = asks["body"]]
      BY <1>1, <1>5, TakersStay
  <2>2. PICK k : k = takers["body"]
      OBVIOUS
  <2>3. PICK b : b = asks["body"]
      OBVIOUS
  <2>4. Port("body", t, k, b, source.stopped) /\ streams' = [streams EXCEPT !["body"] = t]
      BY <1>3, <2>2, <2>3
  <2>5. /\ takers' = [takers EXCEPT !["body"] = k]
        /\ asks' = [asks EXCEPT !["body"] = b]
      BY <2>1, <2>2, <2>3
  <2>6. use' = use /\ source'.stopped = source.stopped
      BY <1>1
  <2> QED BY <1>5, <2>4, <2>5, <2>6, OneMoves
<1>7. Types'
    BY <1>1, <1>3, <1>5, <1>6 DEF Frame, Types
<1>8. \A s \in Streams : Onward(streams'[s], streams[s])
  <2>1. Onward(t, streams["body"])
      BY <1>3, <1>4 DEF Onward, Fresh, CanEnqueue
  <2> QED BY <1>6, <2>1, LaterSame, LaterOn
<1>9. /\ Native' = Native /\ Static' = Static /\ Body' = Body
    BY <1>1, UseStays
<1>10. OpenOK'
  <2>1. "raw" \in opened' <=> ~Static
      BY <1>3 DEF Frame, OpenOK
  <2>2. streams'["body"].pulls = Native
      BY <1>4, <1>6
  <2>3. \A b \in Halves : b \in opened' <=> takers'[Body] = {"tee"}
      BY <1>1, <1>3 DEF Frame, OpenOK, Halves
  <2>4. \A s \in Streams \ opened' : Fresh(streams'[s]) /\ takers'[s] = {}
      BY <1>1, <1>3, <1>6 DEF Frame, OpenOK
  <2>5. ~streams'["body"].started /\ Blank(streams'["body"]) /\ "wrap" \notin takers'["raw"]
      BY <1>1, <1>3, <1>4, <1>6
  <2> QED BY <1>3, <1>9, <2>1, <2>2, <2>3, <2>4, <2>5 DEF OpenOK
<1>11. ReadersOK'
    BY <1>1, <1>8, ReadersStay DEF Frame, ReadersOK
<1>12. TeeOK'
    BY <1>1, <1>8, <1>9, TeeStays
<1>13. SourceOK'
    BY <1>1, <1>5, <1>8, SourceStays
<1>14. CallOK'
    BY <1>1, <1>5, <1>6, CallStays
<1>15. StopOK'
  <2>1. CanEnqueue(streams'["body"])
      BY <1>4, <1>6 DEF CanEnqueue
  <2> QED BY <1>1, <1>8, <2>1, StopStays
<1> QED BY <1>6, <1>7, <1>10, <1>11, <1>12, <1>13, <1>14, <1>15 DEF Frame

LEMMA StreamStartsIs ==
    ASSUME Frame, NEW s \in Streams, StreamStarts(s)
    PROVE  \E t :
               /\ s \in opened /\ ~NativeRaw(s) /\ ~streams[s].started
               /\ streams' = [streams EXCEPT ![s] = t] /\ Own(s, t, takers[s], asks[s])
               /\ t.started /\ t.pulls = streams[s].pulls /\ Onward(t, streams[s])
               /\ \/ Stays(t, streams[s]) /\ ~(s = "body" /\ Static /\ CanEnqueue(streams[s]))
                  \/ /\ s = "body" /\ Static /\ CanEnqueue(streams[s])
                     /\ \E v : /\ Own(s, v, takers[s], asks[s]) /\ CanEnqueue(v)
                               /\ Takes(v, streams[s], 1) /\ Closes(t, v)
<1>1. s \in opened /\ ~NativeRaw(s) /\ ~streams[s].started
    BY DEF StreamStarts, NativeRaw
<1>2. Own(s, streams[s], takers[s], asks[s])
    BY <1>1, OwnPort
<1>3. CASE s = "body" /\ Static /\ CanEnqueue(streams[s])
  <2>1. PICK v : v = Enqueued(streams[s], 1)
      OBVIOUS
  <2>2. 1 \in C
      BY ChunksAre DEF C
  <2>3. Own(s, v, takers[s], asks[s]) /\ Takes(v, streams[s], 1) /\ Later(v, streams[s])
      BY <1>2, <1>3, <2>1, <2>2, OwnEnqueued
  <2>4. CanEnqueue(v)
      BY <2>3 DEF Takes
  <2>5. PICK w : w = CloseRequested(v)
      OBVIOUS
  <2>6. Own(s, w, takers[s], asks[s]) /\ Closes(w, v) /\ Later(w, v)
      BY <2>3, <2>4, <2>5, OwnCloses
  <2>7. PICK t : t = Started(w)
      OBVIOUS
  <2>8. Own(s, t, takers[s], asks[s]) /\ Stays(t, w) /\ t.started /\ t.pulls = w.pulls
      BY <2>6, <2>7, OwnStarts
  <2>9. streams' = [streams EXCEPT ![s] = t]
      BY <1>3, <2>1, <2>5, <2>7 DEF StreamStarts
  <2>10. Closes(t, v)
      BY <2>6, <2>8 DEF Closes, Stays, CanEnqueue
  <2>11. t.pulls = streams[s].pulls /\ Onward(t, streams[s])
      BY <1>1, <1>3, <2>3, <2>6, <2>8, <2>10 DEF Later, Onward, CanEnqueue, Closes
  <2> QED BY <1>1, <1>3, <2>3, <2>4, <2>8, <2>9, <2>10, <2>11
<1>4. CASE ~(s = "body" /\ Static /\ CanEnqueue(streams[s]))
  <2>1. PICK t : t = Started(streams[s])
      OBVIOUS
  <2>2. Own(s, t, takers[s], asks[s]) /\ Stays(t, streams[s]) /\ t.started /\ t.pulls = streams[s].pulls
      BY <1>2, <2>1, OwnStarts
  <2>3. streams' = [streams EXCEPT ![s] = t]
      BY <1>4, <2>1 DEF StreamStarts
  <2>4. Onward(t, streams[s])
      BY <1>1, <2>2 DEF Stays, Onward, CanEnqueue
  <2> QED BY <1>1, <1>4, <2>2, <2>3, <2>4
<1> QED BY <1>3, <1>4

LEMMA StreamStartsFrame == ASSUME Frame, NEW s \in Streams, StreamStarts(s) PROVE Frame'
<1>1. /\ UNCHANGED <<use, opened, asks, state, got, tee, byob, source, call>>
      /\ takers' = IF s = "body" /\ Native THEN [takers EXCEPT !["raw"] = @ \cup {"wrap"}] ELSE takers
    BY DEF StreamStarts
<1>2. PICK t :
               /\ s \in opened /\ ~NativeRaw(s) /\ ~streams[s].started
               /\ streams' = [streams EXCEPT ![s] = t] /\ Own(s, t, takers[s], asks[s])
               /\ t.started /\ t.pulls = streams[s].pulls /\ Onward(t, streams[s])
               /\ \/ Stays(t, streams[s]) /\ ~(s = "body" /\ Static /\ CanEnqueue(streams[s]))
                  \/ /\ s = "body" /\ Static /\ CanEnqueue(streams[s])
                     /\ \E v : Closes(t, v)
    BY StreamStartsIs
<1>3. /\ streams \in [Streams -> ReadableType(C)] /\ takers \in [Streams -> SUBSET Takers]
      /\ asks \in [Streams -> Seq(Takers)] /\ "raw" \in Streams /\ "body" \in Streams /\ "raw" # "body"
      /\ Body \in {"raw", "body"} /\ (Body = "raw" => ~Native) /\ ~(Native /\ Static) /\ Body \in Streams
    BY Forms DEF Frame, Types, Streams
<1>4. streams'[s] = t /\ \A q \in Streams : q # s => streams'[q] = streams[q]
    BY <1>2, <1>3
<1>5. PICK kr : kr = IF s = "body" /\ Native THEN takers["raw"] \cup {"wrap"} ELSE takers["raw"]
    OBVIOUS
<1>6. takers' = [takers EXCEPT !["raw"] = kr]
    BY <1>1, <1>3, <1>5
<1>7. takers'["raw"] = kr /\ \A q \in Streams : q # "raw" => takers'[q] = takers[q]
    BY <1>3, <1>6
<1>8. /\ PortsOK' /\ streams' \in [Streams -> ReadableType(C)]
      /\ takers' \in [Streams -> SUBSET Takers] /\ asks' \in [Streams -> Seq(Takers)]
  <2>1. ASSUME NEW q \in Streams PROVE Port(q, streams'[q], takers'[q], asks'[q], source'.stopped)
    <3>1. CASE q = s
      <4>1. takers'[q] = takers[q] /\ asks'[q] = asks[q]
          BY <1>1, <1>2, <1>5, <1>7, <3>1, <1>3 DEF NativeRaw
      <4> QED BY <1>2, <1>4, <3>1, <4>1, OwnPort
    <3>2. CASE q # s /\ (q # "raw" \/ kr = takers["raw"])
      <4>1. streams'[q] = streams[q] /\ takers'[q] = takers[q] /\ asks'[q] = asks[q] /\ source' = source
          BY <1>1, <1>4, <1>7, <3>2
      <4> QED BY <4>1 DEF Frame, PortsOK
    <3>3. CASE q = "raw" /\ s = "body" /\ Native
      <4>1. streams'[q] = streams[q] /\ takers'[q] = takers[q] \cup {"wrap"} /\ asks'[q] = asks[q] /\ source' = source
          BY <1>1, <1>3, <1>4, <1>5, <1>7, <3>3
      <4>2. Net(streams[q], takers[q], asks[q], source.stopped)
          BY <3>3, RawPort
      <4>3. "wrap" \in MayTake("raw")
          BY <3>3 DEF MayTake
      <4>4. PICK k : k = takers[q] \cup {"wrap"}
          OBVIOUS
      <4>5. asks[q] \in Seq(k)
        <5>1. PICK a \in Seq(takers[q]) : a = asks[q]
            BY <4>2 DEF Net
        <5>2. \A i \in DOMAIN a : a[i] \in k
            BY <4>4, <5>1
        <5>3. a \in Seq(k)
            BY <5>1, <5>2
        <5> QED BY <5>1, <5>3
      <4>6. k \subseteq MayTake("raw")
          BY <4>2, <4>3, <4>4 DEF Net
      <4>7. Net(streams[q], k, asks[q], source.stopped)
          BY <4>2, <4>5, <4>6 DEF Net
      <4>8. Port(q, streams[q], k, asks[q], source.stopped)
          BY <3>3, <4>7, RawPort
      <4> QED BY <4>1, <4>4, <4>8
    <3> QED BY <1>5, <3>1, <3>2, <3>3
  <2>2. streams' = [q \in Streams |-> streams'[q]] /\ takers' = [q \in Streams |-> takers'[q]]
        /\ asks' = [q \in Streams |-> asks'[q]]
      BY <1>1, <1>2, <1>3, <1>6
  <2>3. use' = use
      BY <1>1
  <2> QED BY <2>1, <2>2, <2>3, PortsAre
<1>9. Types'
    BY <1>1, <1>8 DEF Frame, Types
<1>10. \A q \in Streams : Onward(streams'[q], streams[q])
    BY <1>2, <1>4, LaterSame, LaterOn
<1>11. /\ Native' = Native /\ Static' = Static /\ Body' = Body
    BY <1>1, UseStays
<1>12. takers'[Body] = takers[Body]
    BY <1>3, <1>5, <1>7
<1>13. OpenOK'
  <2>1. "body" \in opened' => Body = "body" /\ streams'["body"].pulls = Native
      BY <1>1, <1>2, <1>3, <1>4 DEF Frame, OpenOK
  <2>2. \A q \in Streams \ opened' : Fresh(streams'[q]) /\ takers'[q] = {}
    <3>1. ASSUME NEW q \in Streams \ opened PROVE streams'[q] = streams[q] /\ takers'[q] = takers[q]
      <4>1. q # s
          BY <1>2, <3>1
      <4>2. q = "raw" => ~Native
          BY <1>3, <3>1 DEF Frame, OpenOK
      <4> QED BY <1>4, <1>5, <1>7, <3>1, <4>1, <4>2
    <3> QED BY <1>1, <3>1 DEF Frame, OpenOK
  <2>3. "wrap" \in takers'["raw"] <=> Native /\ "body" \in opened' /\ streams'["body"].started
    <3>1. CASE s = "body"
        BY <1>1, <1>2, <1>3, <1>4, <1>5, <1>7, <3>1 DEF Frame, OpenOK
    <3>2. CASE s # "body"
        BY <1>1, <1>3, <1>4, <1>5, <1>7, <3>2 DEF Frame, OpenOK
    <3> QED BY <3>1, <3>2
  <2>4. ~streams'["body"].started => Blank(streams'["body"])
      BY <1>2, <1>3, <1>4 DEF Frame, OpenOK
  <2>5. Static /\ streams'["body"].started => ~CanEnqueue(streams'["body"])
    <3>1. CASE s = "body"
        BY <1>2, <1>3, <1>4, <3>1 DEF Closes, Stays, CanEnqueue
    <3>2. CASE s # "body"
        BY <1>3, <1>4, <3>2 DEF Frame, OpenOK
    <3> QED BY <3>1, <3>2
  <2>6. "raw" \in opened' <=> ~Static
      BY <1>1 DEF Frame, OpenOK
  <2>7. \A b \in Halves : b \in opened' <=> takers'[Body] = {"tee"}
      BY <1>1, <1>12 DEF Frame, OpenOK
  <2> QED BY <1>11, <2>1, <2>2, <2>3, <2>4, <2>5, <2>6, <2>7 DEF OpenOK
<1>14. \A q \in Streams : takers[q] \subseteq takers'[q]
    BY <1>5, <1>7
<1>15. ReadersOK'
  <2>1. \A q \in Streams, r \in Readers : r \in takers'[q] => r \in takers[q]
    <3>1. "wrap" \notin Readers
        BY DEF Readers, Loops, Users
    <3> QED BY <1>5, <1>7, <3>1
  <2> QED BY <1>1, <1>10, <1>14, <2>1, ReadersStay DEF Frame, ReadersOK
<1>16. TeeOK'
    BY <1>1, <1>10, <1>11, <1>12, TeeStays
<1>17. SourceOK'
    BY <1>1, <1>3, <1>10, SourceStays
<1>18. CallOK'
  <2>1. streams'["raw"] = streams["raw"] \/ call.state \in {"head", "refused"}
    <3>1. CASE s = "raw"
      <4>1. ~Native
          BY <1>2, <3>1 DEF NativeRaw
      <4> QED BY <4>1 DEF Frame, CallOK
    <3>2. CASE s # "raw"
        BY <1>3, <1>4, <3>2
    <3> QED BY <3>1, <3>2
  <2>2. takers' = takers \/ call.state = "head"
    <3>1. CASE s = "body"
        BY <1>2, <1>3, <3>1 DEF Frame, CallOK
    <3>2. CASE s # "body"
        BY <1>1, <3>2
    <3> QED BY <3>1, <3>2
  <2> QED BY <1>1, <2>1, <2>2, CallStays
<1>19. StopOK'
  <2>1. Native /\ CanEnqueue(streams["body"]) => CanEnqueue(streams'["body"])
    <3>1. CASE s = "body" /\ Native
      <4>1. Stays(t, streams["body"])
          BY <1>2, <1>3, <3>1
      <4> QED BY <1>4, <3>1, <4>1 DEF Stays, CanEnqueue
    <3>2. CASE s # "body"
        BY <1>3, <1>4, <3>2
    <3> QED BY <3>1, <3>2
  <2>2. "wrap" \in takers["raw"] => "wrap" \in takers'["raw"]
      BY <1>3, <1>14
  <2>3. source'.stopped = source.stopped /\ source'.missed = source.missed /\ tee'.cancelled = tee.cancelled
        /\ state'["user"] = state["user"] /\ use' = use
      BY <1>1
  <2> QED BY <1>10, <2>1, <2>2, <2>3, StopStays
<1> QED BY <1>8, <1>9, <1>13, <1>15, <1>16, <1>17, <1>18, <1>19 DEF Frame

(* The jobs that pull, and that pass an answer on.                          *)
Works ==
    /\ UNCHANGED <<use, opened, takers, state, got, byob, source, call>>
    /\ \A q \in Streams : Later(streams'[q], streams[q])
    /\ \A q \in Streams \ opened : streams'[q] = streams[q]
    /\ ~streams["body"].started => Blank(streams'["body"])
    /\ Native /\ CanEnqueue(streams["body"]) => CanEnqueue(streams'["body"]) \/ streams'["raw"].state # "readable"
    /\ streams'["raw"] = streams["raw"] \/ call.state \in {"head", "refused"}
    /\ tee' \in [reading : BOOLEAN, for : Halves, cancelled : SUBSET Halves] /\ tee'.cancelled = tee.cancelled
    /\ TeeOK'
    /\ PortsOK' /\ streams' \in [Streams -> ReadableType(C)] /\ asks' \in [Streams -> Seq(Takers)]

LEMMA WorksFrame == ASSUME Frame, Works PROVE Frame'
<1> USE DEF Works
<1>1. Types'
    BY DEF Frame, Types
<1>2. "raw" \in Streams
    BY DEF Streams
<1>3. Calm
    BY DEF Calm
<1>4. OpenOK'
    BY <1>3, OpenStays, UseStays
<1>5. \A q \in Streams : Onward(streams'[q], streams[q])
    BY LaterOn
<1>6. ReadersOK'
    BY <1>5, ReadersStay DEF Frame, ReadersOK
<1>7. SourceOK'
    BY <1>2, <1>5, SourceStays
<1>8. CallOK'
    BY CallStays
<1>9. StopOK'
    BY <1>5, StopStays
<1> QED BY <1>1, <1>4, <1>6, <1>7, <1>8, <1>9 DEF Frame

LEMMA PullIsBusy ==
    ASSUME Frame, NEW s \in Streams, streams[s].pull # "idle"
    PROVE  /\ ~NativeRaw(s) /\ s \in opened /\ streams[s].started /\ streams[s].pulls
           /\ Own(s, streams[s], takers[s], asks[s])
           /\ s = "body" => Native /\ Body = "body" /\ "wrap" \in takers["raw"] /\ call.state = "head"
           /\ s \in Halves => Body \in Streams /\ takers[Body] = {"tee"} /\ ~NativeRaw(Body) /\ call.state = "head"
                              /\ Body \in opened
           /\ s = "raw" => call.state = "head"
<1>1. ~NativeRaw(s)
    BY RawPort, NetFields DEF NativeRaw
<1>2. Own(s, streams[s], takers[s], asks[s]) /\ streams[s].started /\ streams[s].pulls
    BY <1>1, OwnPort DEF Own
<1>3. s \in opened
    BY <1>2 DEF Frame, OpenOK, Fresh
<1>4. ASSUME s = "body" PROVE Native /\ Body = "body" /\ "wrap" \in takers["raw"] /\ call.state = "head"
  <2>1. Native /\ Body = "body"
      BY <1>2, <1>3, <1>4 DEF Frame, OpenOK
  <2>2. "wrap" \in takers["raw"]
      BY <1>2, <1>3, <1>4, <2>1 DEF Frame, OpenOK
  <2> QED BY <2>1, <2>2, "raw" \in Streams DEF Frame, CallOK, Streams
<1>5. ASSUME s \in Halves
      PROVE  Body \in Streams /\ takers[Body] = {"tee"} /\ ~NativeRaw(Body) /\ call.state = "head" /\ Body \in opened
  <2>1. Body \in Streams /\ ~NativeRaw(Body)
      BY Forms DEF Frame, Types
  <2>2. takers[Body] = {"tee"}
      BY <1>3, <1>5 DEF Frame, OpenOK
  <2>3. Body \in opened
      BY <2>1, <2>2 DEF Frame, OpenOK
  <2> QED BY <2>1, <2>2, <2>3 DEF Frame, CallOK
<1>6. s = "raw" => call.state = "head"
    BY <1>1 DEF Frame, CallOK, NativeRaw
<1> QED BY <1>1, <1>2, <1>3, <1>4, <1>5, <1>6

(* Two streams of which each stays, or is read.                             *)
Kept(t, s) == Later(t, s) /\ (Stays(t, s) \/ Reads(t, s))

LEMMA KeptIsCalm ==
    ASSUME NEW s, NEW t, Kept(t, s), Sane(s)
    PROVE  (Blank(s) => Blank(t)) /\ (CanEnqueue(s) => CanEnqueue(t))
<1>1. CASE Stays(t, s)
    BY <1>1 DEF Stays, Blank, CanEnqueue
<1>2. CASE Reads(t, s)
    BY <1>2, ReadIsCalm
<1> QED BY <1>1, <1>2 DEF Kept

LEMMA KeptWorks ==
    ASSUME Frame, UNCHANGED <<use, opened, takers, state, got, byob, source, call>>,
           \A q \in Streams : Kept(streams'[q], streams[q]), call.state = "head",
           \A q \in Streams \ opened : streams'[q] = streams[q],
           tee' \in [reading : BOOLEAN, for : Halves, cancelled : SUBSET Halves], tee'.cancelled = tee.cancelled,
           TeeOK', PortsOK', streams' \in [Streams -> ReadableType(C)], asks' \in [Streams -> Seq(Takers)]
    PROVE  Works
<1>1. "body" \in Streams
    BY DEF Streams
<1>2. Sane(streams["body"])
    BY <1>1, PortSane DEF Frame, PortsOK
<1>3. /\ Blank(streams["body"]) => Blank(streams'["body"])
      /\ CanEnqueue(streams["body"]) => CanEnqueue(streams'["body"])
    BY <1>1, <1>2, KeptIsCalm
<1>4. ~streams["body"].started => Blank(streams'["body"])
    BY <1>3 DEF Frame, OpenOK
<1>5. \A q \in Streams : Later(streams'[q], streams[q])
    BY DEF Kept
<1> QED BY <1>3, <1>4, <1>5 DEF Works

LEMMA OnlyMoves ==
    ASSUME Frame, use' = use, source'.stopped = source.stopped, NEW x \in Streams, NEW t,
           streams' = [streams EXCEPT ![x] = t], takers' = takers, asks' = asks,
           Port(x, t, takers[x], asks[x], source.stopped)
    PROVE  /\ PortsOK' /\ streams' \in [Streams -> ReadableType(C)]
           /\ takers' \in [Streams -> SUBSET Takers] /\ asks' \in [Streams -> Seq(Takers)]
           /\ streams'[x] = t /\ \A s \in Streams : s # x => streams'[s] = streams[s]
<1>1. /\ DOMAIN streams = Streams /\ takers = [s \in Streams |-> takers[s]] /\ asks = [s \in Streams |-> asks[s]]
    BY DEF Frame, Types
<1>2. streams'[x] = t /\ \A s \in Streams : s # x => streams'[s] = streams[s]
    BY <1>1
<1>3. /\ streams' = [s \in Streams |-> streams'[s]] /\ takers' = [s \in Streams |-> takers'[s]]
      /\ asks' = [s \in Streams |-> asks'[s]]
    BY <1>1
<1>4. \A s \in Streams : Port(s, streams'[s], takers'[s], asks'[s], source'.stopped)
    BY <1>2 DEF Frame, PortsOK
<1> QED BY <1>2, <1>3, <1>4, PortsAre

LEMMA PullMovesIs ==
    ASSUME Frame, NEW s \in Streams, streams[s].pull # "idle", NEW t, streams' = [streams EXCEPT ![s] = t],
           Own(s, t, takers[s], asks[s]), Kept(t, streams[s]),
           UNCHANGED <<use, opened, takers, asks, state, got, tee, byob, source, call>>
    PROVE  Works /\ \A q \in Streams : Kept(streams'[q], streams[q])
<1>1. Port(s, t, takers[s], asks[s], source.stopped) /\ s \in opened /\ call.state = "head"
    BY PullIsBusy, OwnPort DEF Streams, Halves
<1>4. /\ PortsOK' /\ streams' \in [Streams -> ReadableType(C)]
      /\ takers' \in [Streams -> SUBSET Takers] /\ asks' \in [Streams -> Seq(Takers)]
      /\ streams'[s] = t /\ \A q \in Streams : q # s => streams'[q] = streams[q]
    BY <1>1, OnlyMoves
<1>5. \A q \in Streams : Kept(streams'[q], streams[q])
    BY <1>4, LaterSame DEF Kept
<1>6. TeeOK'
  <2>1. Body' = Body
      BY UseStays
  <2>2. \A q \in Streams : Onward(streams'[q], streams[q])
      BY <1>5, LaterOn DEF Kept
  <2> QED BY <2>1, <2>2, TeeStays
<1>7. tee' \in [reading : BOOLEAN, for : Halves, cancelled : SUBSET Halves]
    BY DEF Frame, Types
<1> QED BY <1>1, <1>4, <1>5, <1>6, <1>7, KeptWorks

LEMMA PullSettlesIs ==
    ASSUME Frame, NEW s \in Streams, PullSettles(s)
    PROVE  Works /\ \A q \in Streams : Kept(streams'[q], streams[q])
<1>1. /\ streams[s].pull = "acted" /\ streams' = [streams EXCEPT ![s] = PullEnded(@)]
      /\ UNCHANGED <<use, opened, takers, asks, state, got, tee, byob, source, call>>
    BY DEF PullSettles
<1>2. PICK t : t = PullEnded(streams[s])
    OBVIOUS
<1>3. Own(s, streams[s], takers[s], asks[s])
    BY <1>1, PullIsBusy
<1>4. Own(s, t, takers[s], asks[s]) /\ Kept(t, streams[s])
    BY <1>1, <1>2, <1>3, OwnPullEnds DEF Kept
<1> QED BY <1>1, <1>2, <1>4, PullMovesIs

LEMMA PullCalledKeeps ==
    ASSUME Frame, NEW s \in Streams, streams[s].pull # "idle", NEW p \in {"running", "acted"}
    PROVE  LET t == [streams[s] EXCEPT !.pull = p]
           IN  Own(s, t, takers[s], asks[s]) /\ Kept(t, streams[s]) /\ t.started /\ t.pulls
<1>1. Own(s, streams[s], takers[s], asks[s]) /\ streams[s].started /\ streams[s].pulls
    BY PullIsBusy
<1>2. PICK t : t = [streams[s] EXCEPT !.pull = p]
    OBVIOUS
<1>3. Own(s, t, takers[s], asks[s]) /\ Stays(t, streams[s]) /\ Later(t, streams[s])
    BY <1>1, <1>2, OwnActs
<1>4. t.started /\ t.pulls
    BY <1>1, <1>3 DEF Later
<1> QED BY <1>2, <1>3, <1>4 DEF Kept

TwoChange(x, y, t, u, b) ==
    /\ use' = use /\ source'.stopped = source.stopped /\ x \in Streams /\ y \in Streams /\ x # y
    /\ streams' = [streams EXCEPT ![x] = t, ![y] = u] /\ takers' = takers
    /\ asks' = [asks EXCEPT ![x] = b] /\ Port(x, t, takers[x], b, source.stopped)
    /\ Port(y, u, takers[y], asks[y], source.stopped)

LEMMA TwoMove ==
    ASSUME Frame, NEW x, NEW y, NEW t, NEW u, NEW b, TwoChange(x, y, t, u, b)
    PROVE  /\ PortsOK' /\ streams' \in [Streams -> ReadableType(C)]
           /\ takers' \in [Streams -> SUBSET Takers] /\ asks' \in [Streams -> Seq(Takers)]
           /\ streams'[x] = t /\ asks'[x] = b /\ streams'[y] = u
           /\ \A s \in Streams : s # x => asks'[s] = asks[s]
           /\ \A s \in Streams : s # x /\ s # y => streams'[s] = streams[s]
<1> USE DEF TwoChange
<1>1. /\ DOMAIN streams = Streams /\ DOMAIN takers = Streams /\ DOMAIN asks = Streams
    BY DEF Frame, Types
<1>2. /\ streams'[x] = t /\ asks'[x] = b /\ streams'[y] = u
      /\ \A s \in Streams : s # x => asks'[s] = asks[s]
      /\ \A s \in Streams : s # x /\ s # y => streams'[s] = streams[s]
    BY <1>1
<1>3. streams' = [s \in Streams |-> streams'[s]]
    BY <1>1
<1>4. takers' = [s \in Streams |-> takers'[s]]
  <2>1. takers = [s \in Streams |-> takers[s]]
      BY DEF Frame, Types
  <2> QED BY <2>1
<1>5. asks' = [s \in Streams |-> asks'[s]]
    BY <1>1
<1>6. \A s \in Streams : Port(s, streams'[s], takers'[s], asks'[s], source'.stopped)
    BY <1>2 DEF Frame, PortsOK
<1> QED BY <1>2, <1>3, <1>4, <1>5, <1>6, PortsAre

(* One stream pulls another.                                                *)
Pulls(s, x, r) ==
    /\ s # x /\ streams[s].pull = "called" /\ r \in takers[x]
    /\ UNCHANGED <<use, opened, takers, state, got, byob, source, call>>
    /\ streams' = [streams EXCEPT ![s] = PullCalled(@), ![x] = ReadOf(x, @)]
    /\ asks' = AskedBy(r, x, streams[x], asks[x])

LEMMA PullsBelow ==
    ASSUME Frame, NEW s \in Streams, NEW x \in Streams, NEW r, Pulls(s, x, r)
    PROVE  \E b : /\ PortsOK' /\ streams' \in [Streams -> ReadableType(C)] /\ asks' \in [Streams -> Seq(Takers)]
                  /\ \A q \in Streams : Kept(streams'[q], streams[q])
                  /\ \A q \in Streams : q # s /\ q # x => streams'[q] = streams[q]
                  /\ streams'[s].started /\ streams'[s].pulls
                  /\ asks' = [asks EXCEPT ![x] = b] /\ (Len(asks[x]) = 0 => Len(b) = 1)
<1>0. /\ s # x /\ streams[s].pull = "called" /\ r \in takers[x]
      /\ UNCHANGED <<use, opened, takers, state, got, byob, source, call>>
      /\ streams' = [streams EXCEPT ![s] = PullCalled(@), ![x] = ReadOf(x, @)]
      /\ asks' = AskedBy(r, x, streams[x], asks[x])
    BY DEF Pulls
<1>1. PICK t : t = [streams[s] EXCEPT !.pull = "running"]
    OBVIOUS
<1>2. Own(s, t, takers[s], asks[s]) /\ Kept(t, streams[s]) /\ t.started /\ t.pulls /\ ~NativeRaw(s)
    BY <1>0, <1>1, PullCalledKeeps, PullIsBusy
<1>3. Port(s, t, takers[s], asks[s], source.stopped) /\ Port(x, streams[x], takers[x], asks[x], source.stopped)
    BY <1>2, OwnPort DEF Frame, PortsOK
<1>4. MayAsk(r, x, takers[x], takers[x])
    BY <1>0, <1>3 DEF MayAsk, Port
<1>5. PICK u, b :
           /\ u = ReadOf(x, streams[x]) /\ AskedBy(r, x, streams[x], asks[x]) = [asks EXCEPT ![x] = b]
           /\ Port(x, u, takers[x], b, source.stopped) /\ Reads(u, streams[x]) /\ Later(u, streams[x])
           /\ (Len(asks[x]) = 0 => Len(b) = 1)
    BY <1>3, <1>4, AskIs
<1>6. streams' = [streams EXCEPT ![x] = u, ![s] = t]
  <2>1. streams' = [streams EXCEPT ![s] = t, ![x] = u]
      BY <1>0, <1>1, <1>5 DEF PullCalled, Frame, Types
  <2>2. DOMAIN streams = Streams
      BY DEF Frame, Types
  <2> QED BY <1>0, <2>1, <2>2
<1>7. asks' = [asks EXCEPT ![x] = b]
    BY <1>0, <1>5
<1>8. /\ PortsOK' /\ streams' \in [Streams -> ReadableType(C)] /\ asks' \in [Streams -> Seq(Takers)]
      /\ streams'[x] = u /\ streams'[s] = t
      /\ \A q \in Streams : q # x /\ q # s => streams'[q] = streams[q]
  <2>1. TwoChange(x, s, u, t, b)
      BY <1>0, <1>3, <1>5, <1>6, <1>7 DEF TwoChange
  <2> QED BY <2>1, TwoMove
<1>9. \A q \in Streams : Kept(streams'[q], streams[q])
    BY <1>2, <1>5, <1>8, LaterSame DEF Kept
<1> QED BY <1>2, <1>5, <1>7, <1>8, <1>9

LEMMA PullIsCalledIs ==
    ASSUME Frame, NEW s \in Streams, PullIsCalled(s)
    PROVE  Works /\ \A q \in Streams : Kept(streams'[q], streams[q])
<1>1. streams[s].pull = "called" /\ UNCHANGED <<use, opened, takers, state, got, byob, source, call>>
    BY DEF PullIsCalled
<1>2. s = "raw" \/ s = "body" \/ s \in Halves
    BY DEF Streams, Halves
<1>3. tee \in [reading : BOOLEAN, for : Halves, cancelled : SUBSET Halves]
    BY DEF Frame, Types
<1>4. ASSUME NEW p \in {"running", "acted"}, streams' = [streams EXCEPT ![s] = [@ EXCEPT !.pull = p]],
             UNCHANGED <<asks, tee>>
      PROVE  Works /\ \A q \in Streams : Kept(streams'[q], streams[q])
  <2>1. PICK t : t = [streams[s] EXCEPT !.pull = p]
      OBVIOUS
  <2>2. Own(s, t, takers[s], asks[s]) /\ Kept(t, streams[s])
      BY <1>1, <2>1, PullCalledKeeps
  <2>3. streams' = [streams EXCEPT ![s] = t]
      BY <1>4, <2>1
  <2> QED BY <1>1, <1>4, <2>2, <2>3, PullMovesIs
<1>5. CASE s = "raw"
  <2>1. streams' = [streams EXCEPT ![s] = PullCalled(@)] /\ UNCHANGED <<asks, tee>>
      BY <1>5 DEF PullIsCalled
  <2>2. streams' = [streams EXCEPT ![s] = [@ EXCEPT !.pull = "running"]]
      BY <2>1 DEF PullCalled
  <2> QED BY <1>4, <2>1, <2>2
<1>6. CASE s \in Halves /\ tee.reading
  <2>1. streams' = [streams EXCEPT ![s].pull = "acted"] /\ UNCHANGED <<asks, tee>>
      BY <1>6 DEF PullIsCalled, PumpBusy, Halves
  <2>2. streams' = [streams EXCEPT ![s] = [@ EXCEPT !.pull = "acted"]]
      BY <2>1
  <2> QED BY <1>4, <2>1, <2>2
<1>7. CASE s = "body"
  <2>1. /\ streams' = [streams EXCEPT !["body"] = PullCalled(@), !["raw"] = ReadOf("raw", @)]
        /\ asks' = AskedBy("wrap", "raw", streams["raw"], asks["raw"]) /\ tee' = tee
      BY <1>7 DEF PullIsCalled
  <2>2. "raw" \in Streams /\ "body" \in Streams /\ "wrap" \in takers["raw"] /\ call.state = "head" /\ Body = "body"
        /\ "body" \in opened /\ "raw" \in opened
    <3>1. "raw" \in Streams /\ "body" \in Streams
        BY DEF Streams
    <3>2. "wrap" \in takers["raw"] /\ call.state = "head" /\ Body = "body" /\ "body" \in opened
        BY <1>1, <1>7, PullIsBusy
    <3> QED BY <3>1, <3>2 DEF Frame, OpenOK
  <2>3. PICK r : r = "wrap"
      OBVIOUS
  <2>4. PICK b : /\ PortsOK' /\ streams' \in [Streams -> ReadableType(C)] /\ asks' \in [Streams -> Seq(Takers)]
                 /\ \A q \in Streams : Kept(streams'[q], streams[q])
                 /\ \A q \in Streams : q # "body" /\ q # "raw" => streams'[q] = streams[q]
                 /\ asks' = [asks EXCEPT !["raw"] = b]
    <3>1. PICK x \in Streams : x = "raw"
        BY <2>2
    <3>2. Pulls(s, x, r)
        BY <1>1, <1>7, <2>1, <2>2, <2>3, <3>1 DEF Pulls
    <3>3. PICK b :
              /\ PortsOK' /\ streams' \in [Streams -> ReadableType(C)] /\ asks' \in [Streams -> Seq(Takers)]
              /\ \A q \in Streams : Kept(streams'[q], streams[q])
              /\ \A q \in Streams : q # s /\ q # x => streams'[q] = streams[q]
              /\ streams'[s].started /\ streams'[s].pulls
              /\ asks' = [asks EXCEPT ![x] = b] /\ (Len(asks[x]) = 0 => Len(b) = 1)
        BY <3>2, PullsBelow
    <3> QED BY <1>7, <3>1, <3>3
  <2>5. TeeOK'
    <3>1. Body' = Body
        BY <1>1, UseStays
    <3>2. asks'[Body] = asks[Body]
        BY <2>2, <2>4 DEF Frame, Types
    <3>3. \A q \in Streams : Onward(streams'[q], streams[q])
        BY <2>4, LaterOn DEF Kept
    <3> QED BY <1>1, <2>1, <3>1, <3>2, <3>3, TeeStays
  <2> QED BY <1>1, <1>3, <2>1, <2>2, <2>4, <2>5, KeptWorks
<1>8. CASE s \in Halves /\ ~tee.reading
  <2>0. s # "body" /\ s # "raw" /\ s \in {"one", "two"}
      BY <1>8 DEF Halves
  <2>1. /\ streams' = [streams EXCEPT ![s] = PullCalled(@), ![Body] = ReadOf(Body, @)]
        /\ asks' = AskedBy("tee", Body, streams[Body], asks[Body])
        /\ tee' = [tee EXCEPT !.reading = TRUE, !.for = s]
      BY <1>8, <2>0 DEF PullIsCalled, PumpBusy
  <2>2. takers[Body] = {"tee"} /\ call.state = "head" /\ Body \in opened /\ s \in opened
      BY <1>1, <1>8, PullIsBusy
  <2>3. PICK x \in Streams : x = Body /\ s # x
      BY <2>0, Forms DEF Frame, Types
  <2>4. PICK r : r = "tee"
      OBVIOUS
  <2>5. /\ streams' = [streams EXCEPT ![s] = PullCalled(@), ![x] = ReadOf(x, @)]
        /\ asks' = AskedBy(r, x, streams[x], asks[x]) /\ r \in takers[x]
      BY <2>1, <2>2, <2>3, <2>4
  <2>6. PICK b : /\ PortsOK' /\ streams' \in [Streams -> ReadableType(C)] /\ asks' \in [Streams -> Seq(Takers)]
                 /\ \A q \in Streams : Kept(streams'[q], streams[q])
                 /\ \A q \in Streams : q # s /\ q # x => streams'[q] = streams[q]
                 /\ streams'[s].started /\ streams'[s].pulls
                 /\ asks' = [asks EXCEPT ![x] = b] /\ (Len(asks[x]) = 0 => Len(b) = 1)
    <3>1. Pulls(s, x, r)
        BY <1>1, <2>3, <2>5 DEF Pulls
    <3> QED BY <3>1, PullsBelow
  <2>7. Len(asks[x]) = 0
      BY <1>8, <2>2, <2>3 DEF Frame, TeeOK
  <2>8. /\ tee' \in [reading : BOOLEAN, for : Halves, cancelled : SUBSET Halves] /\ tee'.cancelled = tee.cancelled
        /\ tee'.reading /\ tee'.for = s
      BY <1>3, <1>8, <2>1
  <2>9. TeeOK'
    <3>1. Body' = Body
        BY <1>1, UseStays
    <3>2. Len(asks'[Body]) = 1
        BY <2>3, <2>6, <2>7 DEF Frame, Types
    <3>3. \A h \in Halves : h \in tee'.cancelled <=> state'[h] = "cancelled"
        BY <1>1, <2>8 DEF Frame, TeeOK
    <3>4. "tee" \in takers'[Body]
        BY <1>1, <2>2
    <3> QED BY <2>6, <2>8, <3>1, <3>2, <3>3, <3>4 DEF TeeOK
  <2>10. \A q \in Streams \ opened : streams'[q] = streams[q]
      BY <2>2, <2>3, <2>6
  <2> QED BY <1>1, <2>2, <2>6, <2>8, <2>9, <2>10, KeptWorks
<1> QED BY <1>2, <1>5, <1>6, <1>7, <1>8

(* The wrapper hears.                                                       *)
LEMMA WrapHearsIs ==
    ASSUME Frame, WrapHears
    PROVE  /\ Works /\ Native /\ Body = "body" /\ "wrap" \in takers["raw"] /\ Answer("raw") \in C \cup {End, Failed}
           /\ HeardOff(streams'["raw"], streams["raw"]) /\ Gets(streams'["body"], streams["body"], Answer("raw"))
           /\ \A q \in Halves : streams'[q] = streams[q]
           /\ asks' = [asks EXCEPT !["raw"] = Tail(asks["raw"])]
<1>1. /\ Heard("wrap", "raw") /\ asks' = AskedOff("raw")
      /\ UNCHANGED <<use, opened, takers, state, got, tee, byob, source, call>>
      /\ streams' = [streams EXCEPT !["raw"] = Taken("raw"),
                                    !["body"] = [Passed(@, Answer("raw")) EXCEPT !.pull = "acted"]]
    BY DEF WrapHears
<1>2. "raw" \in Streams /\ "body" \in Streams /\ "raw" # "body"
    BY DEF Streams
<1>3. /\ Port("raw", Taken("raw"), takers["raw"], Tail(asks["raw"]), source.stopped)
      /\ HeardOff(Taken("raw"), streams["raw"]) /\ Later(Taken("raw"), streams["raw"])
      /\ AskedOff("raw") = [asks EXCEPT !["raw"] = Tail(asks["raw"])] /\ "wrap" \in takers["raw"]
      /\ Answer("raw") = Head(streams["raw"].got) /\ Answer("raw") \in C \cup {End, Failed}
    BY <1>1, <1>2, HearIs
<1>4. Native /\ Body = "body" /\ streams["body"].started /\ streams["body"].pulls /\ "body" \in opened
      /\ "raw" \in opened /\ call.state = "head"
    BY <1>2, <1>3 DEF Frame, OpenOK, CallOK
<1>5. Own("body", streams["body"], takers["body"], asks["body"])
    BY <1>2, <1>4, OwnPort, Forms DEF Frame, Types
<1>6. PICK a \in C \cup {End, Failed} : a = Answer("raw")
    BY <1>3
<1>7. PICK u : u = [Passed(streams["body"], a) EXCEPT !.pull = "acted"]
    OBVIOUS
<1>8. Own("body", u, takers["body"], asks["body"]) /\ Gets(u, streams["body"], a) /\ Later(u, streams["body"])
    BY <1>4, <1>5, <1>7, OwnPassedOn
<1>9. PICK t : t = Taken("raw")
    OBVIOUS
<1>10. PICK b : b = Tail(asks["raw"])
    OBVIOUS
<1>11. TwoChange("raw", "body", t, u, b)
  <2>1. Port("body", u, takers["body"], asks["body"], source.stopped)
      BY <1>2, <1>8, OwnPort, Forms DEF Frame, Types
  <2>2. streams' = [streams EXCEPT !["raw"] = t, !["body"] = u]
      BY <1>1, <1>2, <1>6, <1>7, <1>9
  <2> QED BY <1>1, <1>2, <1>3, <1>9, <1>10, <2>1, <2>2 DEF TwoChange
<1>12. /\ PortsOK' /\ streams' \in [Streams -> ReadableType(C)]
       /\ takers' \in [Streams -> SUBSET Takers] /\ asks' \in [Streams -> Seq(Takers)]
       /\ streams'["raw"] = t /\ asks'["raw"] = b /\ streams'["body"] = u
       /\ \A s \in Streams : s # "raw" => asks'[s] = asks[s]
       /\ \A s \in Streams : s # "raw" /\ s # "body" => streams'[s] = streams[s]
    BY <1>11, TwoMove
<1>13. \A q \in Streams : Later(streams'[q], streams[q])
    BY <1>3, <1>8, <1>9, <1>12, LaterSame
<1>14. CanEnqueue(streams["body"]) => CanEnqueue(streams'["body"]) \/ streams'["raw"].state # "readable"
  <2>1. CASE a \in C
    <3>1. CanEnqueue(streams["body"]) => CanEnqueue(u)
        BY <1>8, <2>1, ChunksAre DEF Gets, Takes
    <3> QED BY <1>12, <3>1
  <2>2. CASE a \notin C
    <3>1. Sane(streams["raw"])
        BY RawPort, PortSane
    <3>2. PICK g \in Seq(C \cup {End, Failed}) : g = streams["raw"].got
        BY <3>1 DEF Sane
    <3>3. g # <<>> /\ Head(g) = a
        BY <1>1, <1>3, <1>6, <3>2 DEF Heard
    <3>4. 1 \in DOMAIN g /\ g[1] = a
        BY <3>3
    <3>5. ~Chunks(g)
        BY <2>2, <3>4 DEF Chunks
    <3>6. streams["raw"].state # "readable"
        BY <3>1, <3>2, <3>5 DEF Sane
    <3> QED BY <1>3, <1>9, <1>12, <3>6 DEF HeardOff
  <2> QED BY <2>1, <2>2
<1>15. TeeOK'
  <2>1. Body' = Body
      BY <1>1, UseStays
  <2>2. \A q \in Streams : Onward(streams'[q], streams[q])
      BY <1>13, LaterOn
  <2> QED BY <1>1, <1>2, <1>4, <1>12, <2>1, <2>2, TeeStays
<1>16. tee' \in [reading : BOOLEAN, for : Halves, cancelled : SUBSET Halves] /\ tee'.cancelled = tee.cancelled
    BY <1>1 DEF Frame, Types
<1>17. \A q \in Streams \ opened : streams'[q] = streams[q]
    BY <1>4, <1>12
<1>18. Works
    BY <1>1, <1>4, <1>12, <1>13, <1>14, <1>15, <1>16, <1>17 DEF Works
<1>19. \A q \in Halves : streams'[q] = streams[q]
    BY <1>12 DEF Halves, Streams
<1> QED BY <1>1, <1>3, <1>4, <1>6, <1>8, <1>9, <1>12, <1>18, <1>19

(* tee().                                                                   *)
LEMMA TeesFrame == ASSUME Frame, Tees PROVE Frame'
<1>1. /\ UNCHANGED <<use, streams, asks, state, got, tee, byob, source, call>>
      /\ call.state = "head" /\ Body \in opened /\ takers[Body] = {}
      /\ takers' = [takers EXCEPT ![Body] = {"tee"}] /\ opened' = opened \cup {"one", "two"}
    BY DEF Tees
<1>2. Body \in Streams /\ Body \in {"raw", "body"} /\ ~NativeRaw(Body) /\ "raw" \in Streams
      /\ "body" \in Streams /\ (Body = "raw" => ~Native)
    BY Forms DEF Frame, Types, Streams
<1>3. /\ takers'[Body] = {"tee"} /\ \A q \in Streams : q # Body => takers'[q] = takers[q]
    BY <1>1, <1>2 DEF Frame, Types
<1>4. asks[Body] = <<>> /\ Len(asks[Body]) = 0
    BY <1>1, <1>2, NotOpen
<1>5. /\ PortsOK' /\ streams' \in [Streams -> ReadableType(C)]
      /\ takers' \in [Streams -> SUBSET Takers] /\ asks' \in [Streams -> Seq(Takers)]
  <2>1. Own(Body, streams[Body], {}, asks[Body])
      BY <1>1, <1>2, OwnPort
  <2>2. {"tee"} \subseteq MayTake(Body) /\ AtMostOne({"tee"})
      BY <1>2 DEF MayTake, AtMostOne
  <2>3. asks[Body] \in Seq({"tee"})
    <3>1. <<>> \in Seq({"tee"})
        BY EmptySeq
    <3> QED BY <1>4, <3>1
  <2>4. Own(Body, streams[Body], {"tee"}, asks[Body])
      BY <2>1, <2>2, <2>3 DEF Own
  <2>5. Port(Body, streams[Body], {"tee"}, asks[Body], source.stopped)
      BY <1>2, <2>4, OwnPort
  <2>6. PICK k : k = {"tee"}
      OBVIOUS
  <2>7. ASSUME NEW q \in Streams PROVE Port(q, streams'[q], takers'[q], asks'[q], source'.stopped)
    <3>1. CASE q = Body
        BY <1>1, <1>3, <2>5, <3>1
    <3>2. CASE q # Body
        BY <1>1, <1>3, <3>2 DEF Frame, PortsOK
    <3> QED BY <3>1, <3>2
  <2>8. /\ streams' = [q \in Streams |-> streams'[q]] /\ takers' = [q \in Streams |-> takers'[q]]
        /\ asks' = [q \in Streams |-> asks'[q]]
      BY <1>1 DEF Frame, Types
  <2>9. use' = use
      BY <1>1
  <2> QED BY <2>7, <2>8, <2>9, PortsAre
<1>6. Types'
    BY <1>1, <1>5 DEF Frame, Types, Streams
<1>7. /\ Native' = Native /\ Static' = Static /\ Body' = Body
    BY <1>1, UseStays
<1>8. OpenOK'
  <2>1. \A b \in Halves : b \in opened' <=> takers'[Body] = {"tee"}
      BY <1>1, <1>3 DEF Halves
  <2>2. "wrap" \in takers'["raw"] <=> "wrap" \in takers["raw"]
      BY <1>1, <1>2, <1>3
  <2>3. \A q \in Streams \ opened' : Fresh(streams'[q]) /\ takers'[q] = {}
      BY <1>1, <1>3 DEF Frame, OpenOK
  <2>4. ("raw" \in opened' <=> ~Static) /\ ("body" \in opened' <=> "body" \in opened)
      BY <1>1 DEF Frame, OpenOK
  <2> QED BY <1>1, <1>7, <2>1, <2>2, <2>3, <2>4 DEF Frame, OpenOK
<1>9. \A q \in Streams : Onward(streams'[q], streams[q])
    BY <1>1, LaterSame, LaterOn
<1>10. ReadersOK'
  <2>1. \A q \in Streams : takers[q] \subseteq takers'[q]
      BY <1>1, <1>3
  <2>2. \A q \in Streams, r \in Readers : r \in takers'[q] => r \in takers[q]
    <3>1. "tee" \notin Readers
        BY DEF Readers, Loops, Users
    <3> QED BY <1>3, <3>1
  <2> QED BY <1>1, <1>9, <2>1, <2>2, ReadersStay DEF Frame, ReadersOK
<1>11. TeeOK'
  <2>1. ~tee.reading
      BY <1>1 DEF Frame, TeeOK
  <2> QED BY <1>1, <1>4, <1>7, <2>1 DEF Frame, TeeOK
<1>12. SourceOK'
    BY <1>1, <1>9, <1>2, SourceStays
<1>13. CallOK'
    BY <1>1, CallStays
<1>14. StopOK'
  <2>1. "wrap" \in takers["raw"] => "wrap" \in takers'["raw"]
      BY <1>1, <1>2, <1>3
  <2>2. CanEnqueue(streams["body"]) => CanEnqueue(streams'["body"])
      BY <1>1
  <2>3. source'.stopped = source.stopped /\ source'.missed = source.missed /\ tee'.cancelled = tee.cancelled
        /\ state'["user"] = state["user"] /\ use' = use
      BY <1>1
  <2> QED BY <1>9, <2>1, <2>2, <2>3, StopStays
<1> QED BY <1>5, <1>6, <1>8, <1>10, <1>11, <1>12, <1>13, <1>14 DEF Frame

(* The pump of tee() hears.                                                 *)
LEMMA BranchHears ==
    ASSUME Frame, NEW s \in Halves, NEW a \in C \cup {End, Failed}, NEW told, NEW t,
           told = IF s \in Branches THEN Passed(streams[s], a) ELSE streams[s],
           t = IF s = tee.for THEN [told EXCEPT !.pull = "acted"] ELSE told,
           streams[tee.for].started /\ streams[tee.for].pulls
    PROVE  /\ Port(s, t, takers[s], asks[s], source.stopped) /\ Later(t, streams[s])
           /\ IF s \in Branches THEN Gets(t, streams[s], a) ELSE Stays(t, streams[s])
<1>1. s \in Streams /\ ~NativeRaw(s)
    BY Forms DEF Halves, Streams, Frame, Types
<1>2. Own(s, streams[s], takers[s], asks[s])
    BY <1>1, OwnPort
<1>3. CASE s \in Branches /\ s = tee.for
  <2>1. t = [Passed(streams[s], a) EXCEPT !.pull = "acted"] /\ streams[s].started /\ streams[s].pulls
      BY <1>3
  <2>3. PICK str, tk, ak : str = streams[s] /\ tk = takers[s] /\ ak = asks[s]
      OBVIOUS
  <2>4. Own(s, str, tk, ak) /\ str.started /\ str.pulls
      BY <1>2, <2>1, <2>3
  <2>5. PICK u : u = [Passed(str, a) EXCEPT !.pull = "acted"]
      OBVIOUS
  <2>6. Own(s, u, tk, ak) /\ Gets(u, str, a) /\ Later(u, str)
      BY <2>4, <2>5, OwnPassedOn
  <2>2. Own(s, t, takers[s], asks[s]) /\ Gets(t, streams[s], a) /\ Later(t, streams[s])
      BY <2>1, <2>3, <2>5, <2>6
  <2> QED BY <1>1, <1>3, <2>2, OwnPort
<1>4. CASE s \in Branches /\ s # tee.for
  <2>1. t = Passed(streams[s], a)
      BY <1>4
  <2>2. Own(s, t, takers[s], asks[s]) /\ Gets(t, streams[s], a) /\ Later(t, streams[s])
      BY <1>2, <2>1, OwnPassed
  <2> QED BY <1>1, <1>4, <2>2, OwnPort
<1>5. CASE s \notin Branches /\ s = tee.for
  <2>3. PICK p \in {"idle", "called", "running", "acted"} : p = "acted"
      OBVIOUS
  <2>1. t = [streams[s] EXCEPT !.pull = p]
      BY <1>5, <2>3
  <2>4. streams[s].started /\ streams[s].pulls
      BY <1>5
  <2>5. PICK str, tk, ak : str = streams[s] /\ tk = takers[s] /\ ak = asks[s]
      OBVIOUS
  <2>6. Own(s, str, tk, ak) /\ str.started /\ str.pulls /\ t = [str EXCEPT !.pull = p]
      BY <1>2, <2>1, <2>4, <2>5
  <2>8. Own(s, str, tk, ak) /\ str.started /\ str.pulls
      BY <2>6
  <2>9. Own(s, [str EXCEPT !.pull = p], tk, ak) /\ Stays([str EXCEPT !.pull = p], str)
        /\ Later([str EXCEPT !.pull = p], str)
      BY <2>3, <2>8, OwnActs
  <2>7. Own(s, t, tk, ak) /\ Stays(t, str) /\ Later(t, str)
      BY <2>6, <2>9
  <2>2. Own(s, t, takers[s], asks[s]) /\ Stays(t, streams[s]) /\ Later(t, streams[s])
      BY <2>5, <2>7
  <2> QED BY <1>1, <1>5, <2>2, OwnPort
<1>6. CASE s \notin Branches /\ s # tee.for
    BY <1>1, <1>2, <1>6, OwnPort, LaterSame
<1> QED BY <1>3, <1>4, <1>5, <1>6

LEMMA TeeHearsIs ==
    ASSUME Frame, TeeHears
    PROVE  /\ Works /\ takers[Body] = {"tee"} /\ Answer(Body) \in C \cup {End, Failed}
           /\ HeardOff(streams'[Body], streams[Body])
           /\ \A s \in Halves : IF s \in Branches THEN Gets(streams'[s], streams[s], Answer(Body))
                                ELSE Stays(streams'[s], streams[s])
           /\ \A s \in Streams : s # Body /\ s \notin Halves => streams'[s] = streams[s]
           /\ asks' = [asks EXCEPT ![Body] = Tail(asks[Body])]
<1>1. /\ Heard("tee", Body) /\ tee' = [tee EXCEPT !.reading = FALSE] /\ asks' = AskedOff(Body)
      /\ UNCHANGED <<use, opened, takers, state, got, byob, source, call>>
      /\ streams' = [s \in Streams |->
           LET told == IF s = Body THEN Taken(s)
                       ELSE IF s \in Branches THEN Passed(streams[s], Answer(Body)) ELSE streams[s]
           IN  IF s = tee.for THEN [told EXCEPT !.pull = "acted"] ELSE told]
    BY DEF TeeHears
<1>2. Body \in Streams /\ Body \notin Halves /\ ~NativeRaw(Body) /\ Body \in {"raw", "body"}
    BY Forms DEF Frame, Types, Halves
<1>3. /\ Port(Body, Taken(Body), takers[Body], Tail(asks[Body]), source.stopped)
      /\ HeardOff(Taken(Body), streams[Body]) /\ Later(Taken(Body), streams[Body])
      /\ AskedOff(Body) = [asks EXCEPT ![Body] = Tail(asks[Body])] /\ "tee" \in takers[Body]
      /\ Answer(Body) \in C \cup {End, Failed}
      /\ Len(Tail(asks[Body])) = Len(asks[Body]) - 1 /\ Len(asks[Body]) \in Nat \ {0}
    BY <1>1, <1>2, HearIs
<1>4. AtMostOne(takers[Body]) /\ takers[Body] = {"tee"}
  <2>1. AtMostOne(takers[Body])
      BY <1>2 DEF Frame, PortsOK, Port
  <2> QED BY <1>3, <2>1 DEF AtMostOne
<1>5. call.state = "head" /\ Body \in opened /\ Halves \subseteq opened
    BY <1>2, <1>4 DEF Frame, CallOK, OpenOK
<1>6. tee.reading /\ Len(asks[Body]) = 1
    BY <1>3 DEF Frame, TeeOK
<1>7. streams[tee.for].started /\ streams[tee.for].pulls /\ tee.for \in Halves
    BY <1>6 DEF Frame, TeeOK, Types
<1>8. Branches \subseteq Halves
    BY DEF Branches, Halves
<1>9. streams'[Body] = Taken(Body)
    BY <1>1, <1>2, <1>7
<1>10. ASSUME NEW s \in Halves
       PROVE  /\ Port(s, streams'[s], takers[s], asks[s], source.stopped) /\ Later(streams'[s], streams[s])
              /\ IF s \in Branches THEN Gets(streams'[s], streams[s], Answer(Body)) ELSE Stays(streams'[s], streams[s])
  <2>1. PICK a \in C \cup {End, Failed} : a = Answer(Body)
      BY <1>3
  <2>2. PICK told : told = IF s \in Branches THEN Passed(streams[s], a) ELSE streams[s]
      OBVIOUS
  <2>3. PICK t : t = IF s = tee.for THEN [told EXCEPT !.pull = "acted"] ELSE told
      OBVIOUS
  <2>4. streams'[s] = t
      BY <1>1, <1>2, <2>1, <2>2, <2>3 DEF Streams, Halves
  <2>5. /\ Port(s, t, takers[s], asks[s], source.stopped) /\ Later(t, streams[s])
        /\ IF s \in Branches THEN Gets(t, streams[s], a) ELSE Stays(t, streams[s])
      BY <1>7, <2>2, <2>3, BranchHears
  <2> QED BY <2>1, <2>4, <2>5
<1>11. \A s \in Streams : s # Body /\ s \notin Halves => streams'[s] = streams[s]
    BY <1>1, <1>7, <1>8
<1>12. asks'[Body] = Tail(asks[Body]) /\ \A s \in Streams : s # Body => asks'[s] = asks[s]
    BY <1>1, <1>2, <1>3 DEF Frame, Types
<1>13. /\ PortsOK' /\ streams' \in [Streams -> ReadableType(C)] /\ asks' \in [Streams -> Seq(Takers)]
  <2>1. ASSUME NEW q \in Streams PROVE Port(q, streams'[q], takers'[q], asks'[q], source'.stopped)
    <3>1. takers' = takers /\ source' = source
        BY <1>1
    <3>2. CASE q = Body
        BY <1>3, <1>9, <1>12, <3>1, <3>2
    <3>3. CASE q \in Halves
        BY <1>2, <1>10, <1>12, <3>1, <3>3
    <3>4. CASE q # Body /\ q \notin Halves
        BY <1>11, <1>12, <3>1, <3>4 DEF Frame, PortsOK
    <3> QED BY <3>2, <3>3, <3>4
  <2>2. streams' = [q \in Streams |-> streams'[q]]
      BY <1>1
  <2>3. takers' = [q \in Streams |-> takers'[q]]
      BY <1>1 DEF Frame, Types
  <2>4. asks' = [q \in Streams |-> asks'[q]]
      BY <1>1, <1>3 DEF Frame, Types
  <2>5. use' = use
      BY <1>1
  <2> QED BY <2>1, <2>2, <2>3, <2>4, <2>5, PortsAre
<1>14. \A q \in Streams : Later(streams'[q], streams[q])
    BY <1>3, <1>9, <1>10, <1>11, LaterSame
<1>15. "body" \in Streams /\ "body" \notin Halves /\ "raw" \in Streams /\ "raw" \notin Halves
    BY DEF Streams, Halves
<1>16. /\ Blank(streams["body"]) => Blank(streams'["body"])
       /\ CanEnqueue(streams["body"]) => CanEnqueue(streams'["body"])
  <2>1. Sane(streams["body"])
      BY <1>15, PortSane DEF Frame, PortsOK
  <2>2. CASE Body = "body"
      BY <1>3, <1>9, <2>1, <2>2, ReadIsCalm
  <2>3. CASE Body # "body"
      BY <1>11, <1>15, <2>3
  <2> QED BY <2>2, <2>3
<1>17. tee' \in [reading : BOOLEAN, for : Halves, cancelled : SUBSET Halves] /\ tee'.cancelled = tee.cancelled
       /\ ~tee'.reading
    BY <1>1 DEF Frame, Types
<1>18. TeeOK'
  <2>1. Body' = Body
      BY <1>1, UseStays
  <2>2. Len(asks'[Body]) = 0
    <3>1. Len(Tail(asks[Body])) = 1 - 1
        BY <1>3, <1>6
    <3> QED BY <1>12, <3>1
  <2>3. \A h \in Halves : h \in tee'.cancelled <=> state'[h] = "cancelled"
      BY <1>1, <1>17 DEF Frame, TeeOK
  <2> QED BY <1>17, <2>1, <2>2, <2>3 DEF TeeOK
<1>19. \A q \in Streams \ opened : streams'[q] = streams[q]
    BY <1>5, <1>11
<1>20. Works
  <2>1. ~streams["body"].started => Blank(streams'["body"])
      BY <1>16 DEF Frame, OpenOK
  <2> QED BY <1>1, <1>5, <1>13, <1>14, <1>16, <1>17, <1>18, <1>19, <2>1 DEF Works
<1> QED BY <1>1, <1>3, <1>4, <1>9, <1>10, <1>11, <1>20

(* A cancel(), and how far it reaches.                                      *)
CancelledBy(u) == tee.cancelled \cup ({u} \ {"user"})
Reached(u) == {StreamOf(u)} \cup IF u # "user" /\ CancelledBy(u) = Halves THEN {Body} ELSE {}
Wrapped(u) == "body" \in Reached(u) /\ Native /\ streams["body"].state = "readable"
Below(u) == IF Wrapped(u) /\ streams["body"].started THEN {"raw"} ELSE {}

LEMMA UserCancelsIs ==
    ASSUME Frame, NEW u \in Users, UserCancels(u)
    PROVE  /\ UNCHANGED <<use, opened, takers, got, byob, call>> /\ call.state = "head"
           /\ state' = [state EXCEPT ![u] = "cancelled"] /\ tee' = [tee EXCEPT !.cancelled = CancelledBy(u)]
           /\ source' = [source EXCEPT !.stopped = @ \/ "raw" \in Reached(u) \cup Below(u),
                                         !.missed = @ \/ (Wrapped(u) /\ ~streams["body"].started)]
           /\ Reached(u) \subseteq opened /\ Below(u) \subseteq opened /\ (Below(u) # {} => Native)
           /\ Native => "raw" \notin Reached(u)
           /\ \A s \in Streams \ (Reached(u) \cup Below(u)) : streams'[s] = streams[s]
           /\ \A s \in Reached(u) \cup Below(u) :
                  /\ Later(streams'[s], streams[s]) /\ streams'[s].state # "readable"
                  /\ Cancels(streams'[s], streams[s]) \/ streams'[s] = streams[s]
           /\ PortsOK' /\ streams' \in [Streams -> ReadableType(C)] /\ asks' \in [Streams -> Seq(Takers)]
           /\ \A s \in Streams : s # "raw" \/ ~Native => asks'[s] = asks[s]
           /\ (Below(u) = {} => asks' = asks)
<1>1. /\ UNCHANGED <<use, opened, takers, got, byob, call>> /\ state[u] = "reading"
      /\ state' = [state EXCEPT ![u] = "cancelled"]
    BY DEF UserCancels
<1>2. /\ tee' = [tee EXCEPT !.cancelled = CancelledBy(u)]
      /\ streams' = [s \in Streams |->
            IF s \in Below(u) THEN NativeCancelled(streams[s])
            ELSE IF s \in Reached(u) THEN ReadableCancelled(streams[s]) ELSE streams[s]]
      /\ asks' = IF Below(u) = {} THEN asks ELSE [asks EXCEPT !["raw"] = SubSeq(@, 1, Len(streams["raw"].got))]
      /\ source' = [source EXCEPT !.stopped = @ \/ "raw" \in Reached(u) \cup Below(u),
                                         !.missed = @ \/ (Wrapped(u) /\ ~streams["body"].started)]
    BY DEF UserCancels, CancelledBy, Reached, Wrapped, Below, BothCancel, WrapStarted, Halves
<1>3. u \in takers[StreamOf(u)] /\ StreamOf(u) \in Streams /\ Body \in Streams /\ Body \in {"raw", "body"}
      /\ ~NativeRaw(StreamOf(u)) /\ ~NativeRaw(Body) /\ (Body = "raw" => ~Native) /\ u \in Readers
    BY <1>1, UserTakes, Forms DEF Frame, ReadersOK, Types
<1>4. StreamOf(u) \in opened /\ call.state = "head"
    BY <1>3 DEF Frame, OpenOK, CallOK
<1>5. Body \in opened
  <2>1. CASE u = "user"
      BY <1>4, <2>1 DEF StreamOf
  <2>2. CASE u # "user"
    <3>1. u \in Halves /\ StreamOf(u) = u
        BY <2>2 DEF Users, Halves, StreamOf
    <3>2. takers[Body] = {"tee"}
        BY <1>4, <3>1 DEF Frame, OpenOK
    <3> QED BY <1>3, <3>2 DEF Frame, OpenOK
  <2> QED BY <2>1, <2>2
<1>6. Reached(u) \subseteq opened /\ Below(u) \subseteq opened /\ (Below(u) # {} => Native)
  <2>1. Native => "raw" \in opened
      BY Forms DEF Frame, OpenOK, Types
  <2> QED BY <1>4, <1>5, <2>1 DEF Reached, Below, Wrapped
<1>7. Native => "raw" \notin Reached(u)
  <2>1. \A s \in Reached(u) : ~NativeRaw(s)
      BY <1>3 DEF Reached
  <2> QED BY <2>1 DEF NativeRaw
<1>8. opened \subseteq Streams
    BY DEF Frame, Types
<1>9. \A s \in Streams \ (Reached(u) \cup Below(u)) : streams'[s] = streams[s]
    BY <1>2
<1>10. \A s \in Streams : s # "raw" \/ ~Native => asks'[s] = asks[s]
    BY <1>2, <1>6 DEF Frame, Types
<1>11. ASSUME NEW s \in Reached(u)
       PROVE  /\ Own(s, streams'[s], takers[s], asks[s])
              /\ Later(streams'[s], streams[s]) /\ streams'[s].state # "readable"
              /\ Cancels(streams'[s], streams[s]) \/ streams'[s] = streams[s]
  <2>1. s \in Streams /\ ~NativeRaw(s) /\ s \notin Below(u)
      BY <1>3, <1>6, <1>7 DEF Reached, Below
  <2>2. streams'[s] = ReadableCancelled(streams[s])
      BY <1>2, <2>1
  <2>3. Own(s, streams[s], takers[s], asks[s])
      BY <2>1, OwnPort
  <2> QED BY <2>2, <2>3, OwnCancels
<1>12. ASSUME NEW s \in Below(u)
       PROVE  /\ s = "raw" /\ Native /\ Net(streams'[s], takers[s], asks'[s], TRUE)
              /\ Later(streams'[s], streams[s]) /\ streams'[s].state # "readable"
              /\ Cancels(streams'[s], streams[s]) \/ streams'[s] = streams[s]
  <2>1. s = "raw" /\ Native /\ s \in Streams /\ Below(u) # {}
      BY <1>6, <1>8 DEF Below
  <2>2. streams'[s] = NativeCancelled(streams[s])
      BY <1>2, <2>1
  <2>3. asks'[s] = SubSeq(asks[s], 1, Len(streams[s].got))
      BY <1>2, <2>1 DEF Frame, Types
  <2>4. Net(streams[s], takers[s], asks[s], source.stopped)
      BY <2>1, RawPort
  <2> QED BY <2>1, <2>2, <2>3, <2>4, NetCancels
<1>13. source'.stopped = (source.stopped \/ "raw" \in Reached(u) \cup Below(u))
    BY <1>2 DEF Frame, Types
<1>14. ASSUME NEW s \in Streams PROVE Port(s, streams'[s], takers'[s], asks'[s], source'.stopped)
  <2>1. CASE s \in Reached(u)
    <3>1. ~NativeRaw(s)
        BY <1>7, <2>1 DEF NativeRaw
    <3>2. asks'[s] = asks[s]
        BY <1>10, <3>1 DEF NativeRaw
    <3> QED BY <1>1, <1>11, <2>1, <3>1, <3>2, OwnPort
  <2>2. CASE s \in Below(u)
    <3>2. "raw" \in Reached(u) \cup Below(u) /\ source.stopped \in BOOLEAN
        BY <1>12, <2>2 DEF Frame, Types
    <3>3. PICK q \in BOOLEAN : q = source.stopped
        BY <3>2
    <3>4. source'.stopped = (q \/ TRUE)
        BY <1>13, <3>2, <3>3
    <3>1. source'.stopped = TRUE
        BY <3>4
    <3> QED BY <1>1, <1>12, <2>2, <3>1, RawPort
  <2>3. CASE s \notin Reached(u) \cup Below(u) /\ ~NativeRaw(s)
    <3>1. streams'[s] = streams[s] /\ asks'[s] = asks[s] /\ takers'[s] = takers[s]
        BY <1>1, <1>9, <1>10, <2>3 DEF NativeRaw
    <3> QED BY <2>3, <3>1, OwnPort
  <2>4. CASE s \notin Reached(u) \cup Below(u) /\ NativeRaw(s)
    <3>1. s = "raw" /\ Below(u) = {}
        BY <1>12, <2>4 DEF NativeRaw, Below
    <3>2. streams'[s] = streams[s] /\ asks'[s] = asks[s] /\ takers'[s] = takers[s] /\ source'.stopped = source.stopped
        BY <1>1, <1>2, <1>9, <1>13, <2>4, <3>1 DEF Frame, Types
    <3> QED BY <3>2 DEF Frame, PortsOK
  <2> QED BY <2>1, <2>2, <2>3, <2>4
<1>15. /\ PortsOK' /\ streams' \in [Streams -> ReadableType(C)] /\ asks' \in [Streams -> Seq(Takers)]
  <2>1. streams' = [q \in Streams |-> streams'[q]] /\ takers' = [q \in Streams |-> takers'[q]]
        /\ asks' = [q \in Streams |-> asks'[q]]
      BY <1>1, <1>2 DEF Frame, Types
  <2>2. use' = use
      BY <1>1
  <2> QED BY <1>14, <2>1, <2>2, PortsAre
<1>16. Below(u) = {} => asks' = asks
    BY <1>2
<1> QED BY <1>1, <1>2, <1>4, <1>6, <1>7, <1>9, <1>10, <1>11, <1>12, <1>15, <1>16

LEMMA CancelIsBlank == ASSUME NEW s, NEW t, Cancels(t, s), Blank(s) PROVE Blank(t)
<1>1. \A i \in DOMAIN t.got : (i \in DOMAIN s.got /\ t.got[i] = s.got[i]) \/ t.got[i] = End
    BY DEF Cancels, Extends
<1> QED BY <1>1, ChunksAre DEF Blank, Cancels

LEMMA UserCancelsFrame == ASSUME Frame, NEW u \in Users, UserCancels(u) PROVE Frame'
<1>1. /\ UNCHANGED <<use, opened, takers, got, byob, call>> /\ call.state = "head"
      /\ state' = [state EXCEPT ![u] = "cancelled"] /\ tee' = [tee EXCEPT !.cancelled = CancelledBy(u)]
      /\ source' = [source EXCEPT !.stopped = @ \/ "raw" \in Reached(u) \cup Below(u),
                                         !.missed = @ \/ (Wrapped(u) /\ ~streams["body"].started)]
    BY UserCancelsIs
<1>2. /\ Reached(u) \subseteq opened /\ Below(u) \subseteq opened /\ (Below(u) # {} => Native)
      /\ Native => "raw" \notin Reached(u)
      /\ \A s \in Streams \ (Reached(u) \cup Below(u)) : streams'[s] = streams[s]
      /\ \A s \in Reached(u) \cup Below(u) :
             /\ Later(streams'[s], streams[s]) /\ streams'[s].state # "readable"
             /\ Cancels(streams'[s], streams[s]) \/ streams'[s] = streams[s]
    BY UserCancelsIs
<1>3. PortsOK' /\ streams' \in [Streams -> ReadableType(C)] /\ asks' \in [Streams -> Seq(Takers)]
    BY UserCancelsIs
<1>4. /\ state \in [Readers -> {"idle", "reading", "whole", "failed", "cancelled"}] /\ opened \subseteq Streams
      /\ tee \in [reading : BOOLEAN, for : Halves, cancelled : SUBSET Halves]
      /\ source \in [made : 0..NumChunks, ended : BOOLEAN, stopped : BOOLEAN, missed : BOOLEAN]
    BY DEF Frame, Types
<1>5. u \in Readers /\ u \notin Loops /\ u # "copy" /\ StreamOf(u) \in Streams /\ Body \in Streams
      /\ Body \in {"raw", "body"} /\ "raw" \in Streams /\ "body" \in Streams
    BY UserTakes, Forms DEF Frame, Types, Streams
<1>6. CancelledBy(u) \subseteq Halves
    BY <1>4 DEF CancelledBy, Users, Halves
<1>7. /\ state' \in [Readers -> {"idle", "reading", "whole", "failed", "cancelled"}]
      /\ state'[u] = "cancelled" /\ \A q \in Readers : q # u => state'[q] = state[q]
      /\ tee' \in [reading : BOOLEAN, for : Halves, cancelled : SUBSET Halves]
      /\ tee'.cancelled = CancelledBy(u) /\ tee'.reading = tee.reading /\ tee'.for = tee.for
      /\ source' \in [made : 0..NumChunks, ended : BOOLEAN, stopped : BOOLEAN, missed : BOOLEAN]
      /\ source'.made = source.made /\ source'.ended = source.ended
      /\ source'.stopped = (source.stopped \/ "raw" \in Reached(u) \cup Below(u))
      /\ source'.missed = (source.missed \/ (Wrapped(u) /\ ~streams["body"].started))
    BY <1>1, <1>4, <1>5, <1>6
<1>8. Types'
    BY <1>1, <1>3, <1>7 DEF Frame, Types
<1>9. \A s \in Streams : Later(streams'[s], streams[s])
    BY <1>2, LaterSame
<1>10. \A s \in Streams : Onward(streams'[s], streams[s])
    BY <1>9, LaterOn
<1>11. /\ Native' = Native /\ Static' = Static /\ Body' = Body
    BY <1>1, UseStays
<1>12. OpenOK'
  <2>1. Blank(streams["body"]) => Blank(streams'["body"])
    <3>1. CASE "body" \in Reached(u) \cup Below(u)
        BY <1>2, <3>1, CancelIsBlank
    <3>2. CASE "body" \notin Reached(u) \cup Below(u)
        BY <1>2, <1>5, <3>2
    <3> QED BY <3>1, <3>2
  <2>2. Calm
      BY <1>1, <1>2, <1>9, <2>1 DEF Calm, Frame, OpenOK
  <2> QED BY <1>1, <2>2, OpenStays
<1>13. streams'[StreamOf(u)].state # "readable"
    BY <1>2 DEF Reached
<1>14. ReadersOK'
  <2>1. \A q \in Users : q \in Readers
      BY DEF Readers
  <2>2. \A q \in Users : state'[q] \in {"reading", "cancelled"} => state'[q] = state[q] \/ q \in takers'[StreamOf(q)]
    <3>1. state[u] = "reading"
        BY DEF UserCancels
    <3>2. u \in takers[StreamOf(u)]
        BY <3>1 DEF Frame, ReadersOK
    <3> QED BY <1>1, <1>7, <2>1, <3>2
  <2>3. \A q \in Users : state'[q] = "cancelled" => state'[q] = state[q] \/ streams'[StreamOf(q)].state # "readable"
      BY <1>7, <1>13, <2>1
  <2>4. \A r \in Loops \cup {"copy"} : r # u /\ r \in Readers
      BY <1>5 DEF Readers
  <2> QED BY <1>1, <1>7, <1>10, <2>2, <2>3, <2>4, ReadersStay
<1>15. TeeOK'
  <2>1. \A h \in Halves : h \in tee'.cancelled <=> state'[h] = "cancelled"
    <3>1. \A h \in Halves : h \in Readers /\ h # "user"
        BY DEF Halves, Readers, Users
    <3> QED BY <1>7, <3>1 DEF Frame, TeeOK, CancelledBy
  <2>2. asks'[Body] = asks[Body]
      BY <1>5, UserCancelsIs, Forms DEF Frame, Types
  <2>3. tee'.reading => streams'[tee'.for].started /\ streams'[tee'.for].pulls
    <3>1. tee.for \in Streams
        BY <1>4 DEF Halves, Streams
    <3> QED BY <1>7, <1>9, <3>1 DEF Frame, TeeOK, Later
  <2> QED BY <1>1, <1>7, <1>11, <2>1, <2>2, <2>3 DEF Frame, TeeOK
<1>16. SourceOK'
  <2>1. source.ended => Static \/ ~CanEnqueue(streams'["raw"])
      BY <1>5, <1>9 DEF Frame, SourceOK, Later
  <2>2. Static => "raw" \notin Reached(u) \cup Below(u)
    <3>1. Static => "raw" \notin opened
        BY DEF Frame, OpenOK
    <3> QED BY <1>2, <3>1
  <2> QED BY <1>7, <1>11, <2>1, <2>2 DEF Frame, SourceOK
<1>17. CallOK'
    BY <1>1, CallStays
<1>18. StopOK'
  <2>1. Unwanted => Unwanted'
    <3>1. state["user"] = "cancelled" => state'["user"] = "cancelled"
        BY <1>7 DEF Readers, Users
    <3>2. tee.cancelled = Halves => tee'.cancelled = Halves
        BY <1>6, <1>7 DEF CancelledBy
    <3> QED BY <3>1, <3>2 DEF Unwanted
  <2>2. Unwanted' <=> Unwanted \/ Body \in Reached(u)
    <3>1. CASE u = "user"
        BY <1>7, <3>1 DEF Unwanted, Reached, StreamOf
    <3>2. CASE u # "user"
      <4>1. state'["user"] = state["user"]
          BY <1>7, <3>2 DEF Readers, Users
      <4>2. StreamOf(u) = u /\ u # Body
          BY <1>5, <3>2 DEF StreamOf, Users
      <4>3. Body \in Reached(u) <=> CancelledBy(u) = Halves
          BY <3>2, <4>2 DEF Reached
      <4> QED BY <1>7, <2>1, <4>1, <4>3 DEF Unwanted
    <3> QED BY <3>1, <3>2
  <2>3. "raw" \in Reached(u) => Body = "raw"
    <3>1. "raw" = StreamOf(u) => Body = "raw"
        BY DEF StreamOf, Users
    <3> QED BY <3>1 DEF Reached
  <2>4. "body" \in Reached(u) => Body = "body"
    <3>1. "body" = StreamOf(u) => Body = "body"
        BY DEF StreamOf, Users
    <3> QED BY <3>1 DEF Reached
  <2>5. "raw" \in Below(u) => Body = "body" /\ "body" \in Reached(u) /\ Native /\ "wrap" \in takers["raw"]
      BY <1>2, <2>4 DEF Below, Wrapped, Frame, OpenOK
  <2>6. source'.stopped => Unwanted' /\ (Native => "wrap" \in takers'["raw"])
    <3>1. CASE source.stopped
        BY <1>1, <2>1, <3>1 DEF Frame, StopOK
    <3>2. CASE "raw" \in Reached(u)
        BY <1>2, <2>2, <2>3, <3>2
    <3>3. CASE "raw" \in Below(u)
        BY <1>1, <2>2, <2>5, <3>3
    <3> QED BY <1>7, <3>1, <3>2, <3>3
  <2>7. Unwanted' => streams'[Body].state # "readable"
    <3>1. Unwanted => streams'[Body].state # "readable"
        BY <1>5, <1>9 DEF Frame, StopOK, Later
    <3> QED BY <1>2, <2>2, <3>1
  <2>8. Native /\ ~CanEnqueue(streams'["body"]) => streams'["raw"].state # "readable" \/ source'.missed
    <3>1. ASSUME Native, ~CanEnqueue(streams'["body"]), CanEnqueue(streams["body"])
          PROVE  streams'["raw"].state # "readable" \/ source'.missed
      <4>1. "body" \in Reached(u)
          BY <1>2, <1>5, <3>1 DEF Below
      <4>2. Wrapped(u)
          BY <3>1, <4>1 DEF Wrapped, CanEnqueue
      <4>3. CASE streams["body"].started
          BY <1>2, <4>2, <4>3 DEF Below
      <4>4. CASE ~streams["body"].started
          BY <1>7, <4>2, <4>4
      <4> QED BY <4>3, <4>4
    <3>2. ASSUME Native, ~CanEnqueue(streams["body"])
          PROVE  streams'["raw"].state # "readable" \/ source'.missed
        BY <1>5, <1>7, <1>9, <3>2 DEF Frame, StopOK, Later
    <3> QED BY <3>1, <3>2
  <2>9. Unwanted' => Static \/ source'.stopped \/ source'.missed \/ streams'["raw"].state # "readable"
    <3>1. Unwanted => Static \/ source'.stopped \/ source'.missed \/ streams'["raw"].state # "readable"
        BY <1>5, <1>7, <1>9 DEF Frame, StopOK, Later
    <3>2. ASSUME Body \in Reached(u)
          PROVE  Static \/ source'.stopped \/ source'.missed \/ streams'["raw"].state # "readable"
      <4>1. CASE Body = "raw"
          BY <1>7, <3>2, <4>1
      <4>2. CASE Body = "body"
        <5>1. Native \/ Static
            BY <4>2, Forms DEF Frame, Types
        <5>2. ~CanEnqueue(streams'["body"])
            BY <1>2, <3>2, <4>2 DEF CanEnqueue
        <5> QED BY <2>8, <5>1, <5>2
      <4> QED BY <1>5, <4>1, <4>2
    <3> QED BY <2>2, <3>1, <3>2
  <2> QED BY <1>11, <2>6, <2>7, <2>8, <2>9 DEF StopOK
<1> QED BY <1>3, <1>8, <1>12, <1>14, <1>15, <1>16, <1>17, <1>18 DEF Frame

-----------------------------------------------------------------------------
(* The frame holds always.                                                  *)

LEMMA NewIsPort ==
    ASSUME use \in Uses, NEW s \in Streams
    PROVE  Port(s, NewReadable(s # "raw" \/ ~Native, FALSE), {}, <<>>, FALSE)
<1>1. PICK p \in BOOLEAN : p = (s # "raw" \/ ~Native)
    OBVIOUS
<1>2. PICK t : t = NewReadable(p, FALSE)
    OBVIOUS
<1>3. /\ Own(s, t, {}, <<>>) /\ t.state = "readable" /\ ~t.closing /\ t.queue = <<>> /\ t.got = <<>>
      /\ ~t.started /\ t.pulls = p /\ Blank(t)
    BY <1>2, NewIsOwn
<1>4. CASE ~NativeRaw(s)
    BY <1>1, <1>2, <1>3, <1>4, PortIsOwn
<1>5. CASE NativeRaw(s)
  <2>1. p = FALSE
      BY <1>1, <1>5 DEF NativeRaw
  <2>2. t.reads = 0 /\ t.pull = "idle" /\ t \in ReadableType(C)
      BY <1>2, <1>3, OwnFields DEF NewReadable
  <2>3. \A i \in DOMAIN t.got : FALSE
      BY <1>3
  <2>4. t.pulls = FALSE /\ t.closing = FALSE /\ t.started = FALSE
      BY <1>2, <2>1 DEF NewReadable
  <2>5. NativeOK(t, FALSE)
      BY <1>3, <2>2, <2>3, <2>4 DEF NativeOK, Chunks
  <2>6. <<>> \in Seq({}) /\ Len(<<>>) = Len(t.got) + t.reads
      BY <1>3, <2>2, EmptySeq
  <2>7. Port(s, t, {}, <<>>, FALSE)
      BY <1>5, <2>5, <2>6 DEF Port, Waits
  <2> QED BY <1>1, <1>2, <2>7
<1> QED BY <1>4, <1>5

LEMMA InitFrame == ASSUME Init PROVE Frame
<1>1. use \in Uses
    BY DEF Init
<1>2. ~(Native /\ Static) /\ Body \in Streams /\ (Body = "raw" => ~Native /\ ~Static) /\ Body \in {"raw", "body"}
      /\ \A u \in Users : StreamOf(u) \in Streams
    BY <1>1, Forms
<1>3. \A s \in Streams : /\ streams[s] = NewReadable(s # "raw" \/ ~Native, FALSE)
                         /\ takers[s] = {} /\ asks[s] = <<>>
    BY DEF Init
<1>4. source.stopped = FALSE
    BY DEF Init
<1>5. PortsOK
  <2> SUFFICES ASSUME NEW s \in Streams PROVE Port(s, streams[s], takers[s], asks[s], source.stopped)
      BY DEF PortsOK
  <2>1. Port(s, NewReadable(s # "raw" \/ ~Native, FALSE), {}, <<>>, FALSE)
      BY <1>1, NewIsPort
  <2> QED BY <1>3, <1>4, <2>1
<1>6. \A s \in Streams : streams[s].state = "readable" /\ streams[s].started = FALSE /\ streams[s].closing = FALSE
                         /\ streams[s].queue = <<>> /\ streams[s].got = <<>>
  <2> SUFFICES ASSUME NEW s \in Streams
               PROVE  streams[s].state = "readable" /\ streams[s].started = FALSE /\ streams[s].closing = FALSE
                      /\ streams[s].queue = <<>> /\ streams[s].got = <<>>
      OBVIOUS
  <2>1. PICK p \in BOOLEAN : p = (s # "raw" \/ ~Native)
      OBVIOUS
  <2>2. PICK t : t = NewReadable(p, FALSE)
      OBVIOUS
  <2>3. t = streams[s]
      BY <1>3, <2>1, <2>2
  <2>4. t.state = "readable" /\ t.started = FALSE /\ t.closing = FALSE /\ t.queue = <<>> /\ t.got = <<>>
      BY <2>2 DEF NewReadable
  <2> QED BY <2>3, <2>4
<1>7. Types
  <2>1. \A s \in Streams : streams[s] \in ReadableType(C)
      BY <1>5, PortSane DEF PortsOK
  <2>2. streams \in [Streams -> ReadableType(C)]
      BY <2>1 DEF Init
  <2>3. <<>> \in Seq(Takers) /\ <<>> \in Seq(Byte)
      BY EmptySeq
  <2>4. opened \subseteq Streams
      BY DEF Init, Streams
  <2>5. source \in [made : 0..NumChunks, ended : BOOLEAN, stopped : BOOLEAN, missed : BOOLEAN]
    <3>1. 0 \in 0..NumChunks /\ 1 \in 0..NumChunks
        BY BodyAssumption
    <3>2. Static \in BOOLEAN
        BY DEF Static
    <3> QED BY <3>1, <3>2 DEF Init
  <2>6. tee \in [reading : BOOLEAN, for : Halves, cancelled : SUBSET Halves]
      BY DEF Init, Halves
  <2>7. byob \in [left : Seq(Byte), lost : BOOLEAN]
      BY <2>3 DEF Init
  <2>8. call \in [state : {"none", "asked", "answered", "refused", "head"}, aborted : BOOLEAN, redirect : BOOLEAN]
      BY DEF Init
  <2>9. takers \in [Streams -> SUBSET Takers] /\ asks \in [Streams -> Seq(Takers)] /\ got \in [Readers -> Seq(Byte)]
        /\ state \in [Readers -> {"idle", "reading", "whole", "failed", "cancelled"}]
      BY <2>3 DEF Init
  <2> QED BY <1>1, <2>2, <2>4, <2>5, <2>6, <2>7, <2>8, <2>9 DEF Types
<1>8. "raw" \in Streams /\ "body" \in Streams /\ Halves \subseteq Streams /\ "raw" # "body" /\ "raw" \notin Halves
    BY DEF Streams, Halves
<1>9. \A r \in Readers : state[r] = "idle"
    BY DEF Init
<1>10. OpenOK
  <2>1. Blank(streams["body"])
    <3>1. \A i \in DOMAIN streams["body"].got : FALSE
        BY <1>6, <1>8
    <3> QED BY <1>6, <1>8, <3>1 DEF Blank
  <2>2. ~streams["body"].started
      BY <1>6, <1>8
  <2>3. opened = IF Static THEN {} ELSE {"raw"}
      BY DEF Init
  <2>4. \A s \in Streams \ opened : Fresh(streams[s]) /\ takers[s] = {}
      BY <1>3, <1>6 DEF Fresh
  <2> QED BY <1>2, <1>3, <1>8, <2>1, <2>2, <2>3, <2>4 DEF OpenOK
<1>11. ReadersOK
  <2>1. \A u \in Users : u \in Readers
      BY DEF Readers
  <2>2. \A r \in Loops \cup {"copy"} : r \in Readers
      BY DEF Readers
  <2>3. byob.left = <<>>
      BY DEF Init
  <2> QED BY <1>3, <1>9, <2>1, <2>2, <2>3 DEF ReadersOK
<1>12. tee.cancelled = {} /\ tee.reading = FALSE
    BY DEF Init
<1>13. TeeOK
  <2>1. \A b \in Halves : b \in Readers
      BY DEF Halves, Readers, Users
  <2> QED BY <1>2, <1>3, <1>9, <1>12, <2>1 DEF TeeOK
<1>14. SourceOK
    BY DEF Init, SourceOK
<1>15. CallOK
  <2>1. call.state = IF Native THEN "none" ELSE "head"
      BY DEF Init
  <2>2. opened = IF Static THEN {} ELSE {"raw"}
      BY DEF Init
  <2> QED BY <1>3, <1>6, <1>8, <2>1, <2>2 DEF CallOK
<1>16. StopOK
  <2>1. ~Unwanted
    <3>1. state["user"] = "idle"
        BY <1>9 DEF Readers, Users
    <3> QED BY <1>12, <3>1 DEF Unwanted, Halves
  <2>2. CanEnqueue(streams["body"])
      BY <1>6, <1>8 DEF CanEnqueue
  <2> QED BY <1>4, <2>1, <2>2 DEF StopOK
<1> QED BY <1>5, <1>7, <1>10, <1>11, <1>13, <1>14, <1>15, <1>16 DEF Frame

LEMMA FrameSame == ASSUME Frame, UNCHANGED vars PROVE Frame'
<1>1. UNCHANGED <<use, streams, opened, takers, asks, state, got, tee, byob, source, call>>
    BY DEF vars, bodyVars
<1> QED BY <1>1, UseStays DEF Frame, Types, PortsOK, Port, Waits, OpenOK, ReadersOK, TeeOK, SourceOK, CallOK, StopOK,
        Unwanted

LEMMA FrameBody == ASSUME Frame, BodyNext PROVE Frame'
<1>1. CASE Source
    BY <1>1, SourceFrame DEF Source
<1>2. CASE Job
  <2>1. CASE \E s \in Streams : StreamStarts(s)
      BY <2>1, StreamStartsFrame
  <2>2. CASE \E s \in Streams : PullIsCalled(s)
      BY <2>2, PullIsCalledIs, WorksFrame
  <2>3. CASE \E s \in Streams : PullSettles(s)
      BY <2>3, PullSettlesIs, KeptWorks, WorksFrame
  <2>4. CASE \E r \in Loops : LoopHears(r)
      BY <2>4, LoopHearsFrame
  <2>5. CASE \E u \in Users : UserHears(u) \/ UserOverwrites(u)
      BY <2>5, UserHearsFrame
  <2>6. CASE WrapHears
      BY <2>6, WrapHearsIs, WorksFrame
  <2>7. CASE TeeHears
      BY <2>7, TeeHearsIs, WorksFrame
  <2> QED BY <1>2, <2>1, <2>2, <2>3, <2>4, <2>5, <2>6, <2>7 DEF Job
<1>3. CASE Fetch
    BY <1>3, HeadArrivesFrame, TransferFailsFrame, AbortsFrame DEF Fetch
<1>4. CASE Script
    BY <1>4, LoopStartsFrame, UserReadsFrame, UserCancelsFrame, OpensBodyFrame, TeesFrame, ClonesFrame DEF Script
<1> QED BY <1>1, <1>2, <1>3, <1>4 DEF BodyNext

(* What a step of the exchange does to the body.                            *)
LEMMA StepIs ==
    ASSUME [Next]_allVars
    PROVE  BodyNext \/ FetchCalls \/ HeadHeard \/ UNCHANGED vars
<1>1. CASE UNCHANGED allVars
    BY <1>1 DEF allVars
<1>2. CASE Fetches \/ Responds
    BY <1>2 DEF Fetches, Responds
<1>3. CASE HandlerCalled \/ RequestReads \/ GetsParams \/ ClientWrites \/ ClientEmits
    BY <1>3 DEF HandlerCalled, RequestReads, GetsParams, ClientWrites, ClientEmits
<1>4. CASE \E o \in DOMAIN objects : ChangesParams(o)
    BY <1>4 DEF ChangesParams
<1>5. CASE \E query \in Queries : SetsSearch(query) \/ SetsHref(query)
    BY <1>5 DEF SetsSearch, SetsHref
<1>6. CASE \E name \in ToSet(HeaderNames) : EditsHeaders(name) \/ EditsForm(name)
    BY <1>6 DEF EditsHeaders, EditsForm
<1> QED BY <1>1, <1>2, <1>3, <1>4, <1>5, <1>6 DEF Next

LEMMA StepFrame == ASSUME Frame, [Next]_allVars PROVE Frame'
BY StepIs, FrameBody, FetchCallsFrame, HeadHeardFrame, FrameSame

LEMMA FrameAlways == Spec => []Frame
<1>1. ExchangeInit => Frame
    BY InitFrame DEF ExchangeInit
<1>2. Frame /\ [Next]_allVars => Frame'
    BY StepFrame
<1> QED BY <1>1, <1>2, PTL DEF Spec

LEMMA SmallSets ==
    ASSUME NEW S, IsFiniteSet(S)
    PROVE  Cardinality(S) <= 1 <=> AtMostOne(S)
<1>1. ASSUME Cardinality(S) <= 1, NEW x \in S, NEW y \in S, x # y PROVE FALSE
  <2>1. IsFiniteSet({x}) /\ Cardinality({x}) = 1
      BY FS_Singleton
  <2>2. Cardinality({x} \cup {y}) = 2 /\ IsFiniteSet({x} \cup {y})
      BY <1>1, <2>1, FS_AddElement
  <2>3. {x} \cup {y} \subseteq S
      OBVIOUS
  <2>4. Cardinality({x} \cup {y}) <= Cardinality(S)
      BY <2>3, FS_Subset
  <2>5. PICK k \in Nat : k = Cardinality(S)
      BY FS_CardinalityType
  <2>6. 2 <= k /\ k <= 1
      BY <1>1, <2>2, <2>4, <2>5
  <2> QED BY <2>6
<1>2. ASSUME AtMostOne(S) PROVE Cardinality(S) <= 1
  <2>1. CASE S = {}
      BY <2>1, FS_EmptySet
  <2>2. CASE S # {}
    <3>1. PICK x : x \in S
        BY <2>2
    <3>2. S = {x}
        BY <1>2, <3>1 DEF AtMostOne
    <3> QED BY <3>2, FS_Singleton
  <2> QED BY <2>1, <2>2
<1> QED BY <1>1, <1>2 DEF AtMostOne

LEMMA SomeTakers == ASSUME NEW S \in SUBSET Takers PROVE IsFiniteSet(S)
<1>1. S \subseteq {"text", "again", "reply", "user", "one", "two", "copy", "wrap", "tee"}
    BY DEF Takers, Readers, Loops, Users
<1>2. IsFiniteSet({"text", "again", "reply", "user", "one", "two", "copy", "wrap", "tee"})
  <2>1. IsFiniteSet({"tee"})
      BY FS_Singleton
  <2>2. IsFiniteSet({"tee"} \cup {"wrap"})
      BY <2>1, FS_AddElement
  <2>3. IsFiniteSet({"tee"} \cup {"wrap"} \cup {"copy"})
      BY <2>2, FS_AddElement
  <2>4. IsFiniteSet({"tee"} \cup {"wrap"} \cup {"copy"} \cup {"two"})
      BY <2>3, FS_AddElement
  <2>5. IsFiniteSet({"tee"} \cup {"wrap"} \cup {"copy"} \cup {"two"} \cup {"one"})
      BY <2>4, FS_AddElement
  <2>6. IsFiniteSet({"tee"} \cup {"wrap"} \cup {"copy"} \cup {"two"} \cup {"one"} \cup {"user"})
      BY <2>5, FS_AddElement
  <2>7. IsFiniteSet({"tee"} \cup {"wrap"} \cup {"copy"} \cup {"two"} \cup {"one"} \cup {"user"} \cup {"reply"})
      BY <2>6, FS_AddElement
  <2>8. IsFiniteSet({"tee"} \cup {"wrap"} \cup {"copy"} \cup {"two"} \cup {"one"} \cup {"user"} \cup {"reply"}
                    \cup {"again"})
      BY <2>7, FS_AddElement
  <2>9. IsFiniteSet({"tee"} \cup {"wrap"} \cup {"copy"} \cup {"two"} \cup {"one"} \cup {"user"} \cup {"reply"}
                    \cup {"again"} \cup {"text"})
      BY <2>8, FS_AddElement
  <2>10. {"text", "again", "reply", "user", "one", "two", "copy", "wrap", "tee"}
         = {"tee"} \cup {"wrap"} \cup {"copy"} \cup {"two"} \cup {"one"} \cup {"user"} \cup {"reply"}
                    \cup {"again"} \cup {"text"}
      OBVIOUS
  <2> QED BY <2>9, <2>10
<1> QED BY <1>1, <1>2, FS_Subset

LEMMA TakersFinite == ASSUME Frame, NEW s \in Streams PROVE IsFiniteSet(takers[s])
BY SomeTakers DEF Frame, Types

LEMMA AloneIs == ASSUME Frame PROVE Alone <=> ~Native \/ AtMostOne(takers["raw"])
<1>1. "raw" \in Streams
    BY DEF Streams
<1> QED BY <1>1, TakersFinite, SmallSets DEF Alone

LEMMA AloneNext == ASSUME Frame', Alone', Native' PROVE AtMostOne(takers'["raw"])
<1>1. takers'["raw"] \in SUBSET Takers
    BY DEF Frame, Types, Streams
<1>2. IsFiniteSet(takers'["raw"])
    BY <1>1, SomeTakers
<1> QED BY <1>2, SmallSets DEF Alone

LEMMA OneTaker ==
    ASSUME Frame, Alone, NEW s \in Streams
    PROVE  AtMostOne(takers[s])
<1>1. s # "raw" => ~NativeRaw(s)
    BY DEF NativeRaw
<1>2. CASE NativeRaw(s)
    BY <1>2, AloneIs DEF NativeRaw
<1>3. CASE ~NativeRaw(s)
    BY <1>3, OwnPort DEF Own
<1> QED BY <1>2, <1>3

LEMMA FrameStopped == ASSUME Frame PROVE StoppedIfUnwanted
<1> SUFFICES ASSUME Alone
             PROVE  /\ source.stopped => \A r \in Readers : state[r] # "reading"
                    /\ Unwanted => source.stopped \/ source.ended \/ Static \/ streams["raw"].state # "readable"
                                   \/ source.missed
    BY DEF StoppedIfUnwanted, Unwanted, Halves
<1>1. Unwanted => Static \/ source.stopped \/ source.missed \/ streams["raw"].state # "readable"
    BY DEF Frame, StopOK
<1>2. ASSUME source.stopped, NEW r \in Readers, state[r] = "reading" PROVE FALSE
  <2>1. Unwanted /\ (Native => "wrap" \in takers["raw"]) /\ ~Static
      BY <1>2 DEF Frame, StopOK, SourceOK
  <2>2. Body \in Streams /\ "raw" \in Streams /\ (~Native => Body = "raw") /\ \A u \in Users : StreamOf(u) \in Streams
      BY <2>1, Forms DEF Frame, Types, Streams
  <2>3. AtMostOne(takers["raw"]) /\ AtMostOne(takers[Body])
      BY <2>2, OneTaker
  <2>4. \A h \in Halves : state[h] \in {"reading", "cancelled"} => takers[Body] = {"tee"}
    <3> SUFFICES ASSUME NEW h \in Halves, state[h] \in {"reading", "cancelled"} PROVE takers[Body] = {"tee"}
        OBVIOUS
    <3>1. h \in Users /\ StreamOf(h) = h /\ h \in Streams
        BY DEF Halves, Users, StreamOf, Streams
    <3>2. h \in takers[h]
        BY <3>1 DEF Frame, ReadersOK
    <3>3. h \in opened
        BY <3>1, <3>2 DEF Frame, OpenOK
    <3> QED BY <3>3 DEF Frame, OpenOK
  <2>5. state["user"] \in {"reading", "cancelled"} => "user" \in takers[Body]
    <3>1. "user" \in Users /\ StreamOf("user") = Body
        BY DEF Users, StreamOf
    <3> QED BY <3>1 DEF Frame, ReadersOK
  <2>6. tee.cancelled = Halves => /\ \A h \in Halves : state[h] = "cancelled"
                                  /\ takers[Body] = {"tee"}
    <3>1. tee.cancelled = Halves => \A h \in Halves : state[h] = "cancelled"
        BY DEF Frame, TeeOK
    <3> QED BY <2>4, <3>1 DEF Halves
  <2>7. CASE r \in Loops
    <3>1. r \in takers["raw"] /\ r # "user" /\ r # "tee" /\ r # "wrap"
        BY <1>2, <2>7 DEF Frame, ReadersOK, Loops
    <3>2. ~Native /\ Body = "raw"
        BY <2>1, <2>2, <2>3, <3>1 DEF AtMostOne
    <3> QED BY <2>1, <2>3, <2>5, <2>6, <3>1, <3>2 DEF AtMostOne, Unwanted
  <2>8. CASE r = "user"
      BY <1>2, <2>1, <2>5, <2>6, <2>8 DEF Unwanted
  <2>9. CASE r \in Halves
    <3>1. takers[Body] = {"tee"}
        BY <1>2, <2>4, <2>9
    <3>2. tee.cancelled = Halves
        BY <2>1, <2>5, <3>1 DEF Unwanted
    <3> QED BY <1>2, <2>6, <2>9, <3>2
  <2>10. CASE r = "copy"
      BY <1>2, <2>10 DEF Frame, ReadersOK
  <2> QED BY <2>7, <2>8, <2>9, <2>10 DEF Readers, Users, Halves
<1> QED BY <1>1, <1>2

(***************************************************************************)
(* For any script, any number of chunks of any lengths, any room in a      *)
(* view, any sizes and high-water mark: once a source is told to stop      *)
(* nobody is reading, and when the one reader or both branches of tee()    *)
(* have cancelled it has been told, unless it has ended or failed, or the  *)
(* cancel() came before the wrapper's start().                             *)
(***************************************************************************)
THEOREM StoppedIfUnwantedAlways == Spec => []StoppedIfUnwanted
BY FrameAlways, FrameStopped, PTL

(* The reads that wait or are answered are those their readers have made.   *)
LEMMA FrameTypeOK == ASSUME Frame PROVE TypeOK
<1>1. Body \in Streams /\ ~NativeRaw(Body)
    BY Forms DEF Frame, Types
<1>2. ASSUME NEW s \in Streams
      PROVE  Len(asks[s]) = Len(streams[s].got)
                            + (IF s = "raw" /\ Native /\ source.stopped THEN 0 ELSE streams[s].reads)
    BY DEF Frame, PortsOK, Port, Waits, NativeRaw
<1>3. ASSUME NEW s \in Streams, s # "raw" \/ ~Native PROVE Cardinality(takers[s]) <= 1
  <2>1. ~NativeRaw(s)
      BY <1>3 DEF NativeRaw
  <2> QED BY <2>1, OwnPort, TakersFinite, SmallSets DEF Own
<1>4. \A s \in Streams \ {"raw"} : streams[s] \in ReadableType(1..NumChunks)
    BY DEF Frame, Types, C
<1>5. tee.reading <=> \E i \in DOMAIN asks[Body] : asks[Body][i] = "tee"
  <2>1. AtMostOne(takers[Body]) /\ asks[Body] \in Seq(takers[Body])
      BY <1>1, OwnPort DEF Own
  <2>2. PICK a \in Seq(takers[Body]) : a = asks[Body]
      BY <2>1
  <2>3. CASE "tee" \in takers[Body]
    <3>1. Len(a) = IF tee.reading THEN 1 ELSE 0
        BY <2>2, <2>3 DEF Frame, TeeOK
    <3>2. \A i \in DOMAIN a : a[i] = "tee"
        BY <2>1, <2>3 DEF AtMostOne
    <3>3. tee.reading <=> Len(a) = 1
        BY <3>1
    <3>4. Len(a) \in {0, 1}
        BY <3>1
    <3>5. Len(a) = 1 <=> \E i \in DOMAIN a : TRUE
        BY <3>4
    <3> QED BY <2>2, <3>2, <3>3, <3>5
  <2>4. CASE "tee" \notin takers[Body]
    <3>1. ~tee.reading
        BY <2>4 DEF Frame, TeeOK
    <3>2. \A i \in DOMAIN a : a[i] # "tee"
        BY <2>4
    <3> QED BY <2>2, <3>1, <3>2
  <2> QED BY <2>3, <2>4
<1> QED BY <1>2, <1>3, <1>4, <1>5 DEF TypeOK

-----------------------------------------------------------------------------
(* The flow goes on: what leaves a stream, its readers, or all, in order.   *)

Quiet(t, s) ==
    \/ Stays(t, s) \/ Reads(t, s) \/ Fails(t, s) \/ Cancels(t, s) \/ Closes(t, s)
    \/ ~CanEnqueue(t) /\ t.got = s.got /\ t.queue = s.queue

LEMMA SameLine ==
    ASSUME NEW s, NEW t, t.got = s.got, t.queue = s.queue, NEW n, NEW m, NEW ended
    PROVE  /\ Line(s, n, m) => Line(t, n, m)
           /\ Holds(t, n) = Holds(s, n)
           /\ Stays(t, s) /\ Whole(s, n, m, ended) => Whole(t, n, m, ended)
<1>1. Holds(t, n) = Holds(s, n)
    BY DEF Holds
<1>2. Line(s, n, m) => Line(t, n, m)
    BY DEF Line
<1>3. Stays(t, s) /\ Whole(s, n, m, ended) => Whole(t, n, m, ended)
    BY <1>1 DEF Stays, Whole, CanEnqueue
<1> QED BY <1>1, <1>2, <1>3

LEMMA QuietLine ==
    ASSUME NEW s, NEW t, NEW n \in Nat, NEW m \in Nat, Sane(s), Line(s, n, m), Quiet(t, s)
    PROVE  Line(t, n, m) /\ (CanEnqueue(t) => CanEnqueue(s) /\ Holds(t, n) = Holds(s, n))
<1>1. CASE Stays(t, s)
    BY <1>1, SameLine DEF Stays, CanEnqueue
<1>2. CASE Reads(t, s)
    BY <1>2, ReadIsLine
<1>3. CASE Fails(t, s)
  <2>1. /\ Extends(t.got, s.got, Failed) /\ ~CanEnqueue(t)
        /\ t.queue = <<>> \/ (t.queue = s.queue /\ t.got = s.got)
      BY <1>3 DEF Fails, CanEnqueue
  <2> QED BY <2>1, LineEnds
<1>4. CASE Cancels(t, s)
  <2>1. Extends(t.got, s.got, End) /\ ~CanEnqueue(t) /\ t.queue = <<>>
      BY <1>4 DEF Cancels, CanEnqueue
  <2> QED BY <2>1, LineEnds
<1>5. CASE Closes(t, s)
  <2>1. /\ Extends(t.got, s.got, End) /\ ~CanEnqueue(t)
        /\ t.queue = <<>> \/ (t.queue = s.queue /\ t.got = s.got)
      BY <1>5 DEF Closes
  <2> QED BY <2>1, LineEnds
<1>6. CASE ~CanEnqueue(t) /\ t.got = s.got /\ t.queue = s.queue
    BY <1>6, SameLine
<1> QED BY <1>1, <1>2, <1>3, <1>4, <1>5, <1>6 DEF Quiet

LEMMA QuietWhole ==
    ASSUME NEW s, NEW t, NEW n \in Nat, NEW m \in Nat, NEW ended, Sane(s), Sane(t), Line(s, n, m),
           Whole(s, n, m, ended), Stays(t, s) \/ Reads(t, s) \/ Fails(t, s)
    PROVE  Whole(t, n, m, ended)
<1>1. CASE Stays(t, s)
    BY <1>1, SameLine DEF Stays
<1>2. CASE Reads(t, s)
    BY <1>2, ReadIsWhole
<1>3. CASE Fails(t, s)
    BY <1>3, FailIsWhole DEF Fails
<1> QED BY <1>1, <1>2, <1>3

LEMMA EndedGrows ==
    ASSUME NEW s, NEW n, NEW m, NEW ended, NEW over, ended => over, Whole(s, n, m, ended)
    PROVE  Whole(s, n, m, over)
BY DEF Whole

(* What a step that takes no chunk off a stream does to it.                 *)
Softly(s, n) ==
    /\ use' = use /\ source'.made = source.made /\ (source.ended => source'.ended)
    /\ Quiet(streams'[s], streams[s]) /\ takers[s] \subseteq takers'[s]
    /\ Fed(s)' /\ CanEnqueue(streams'[s]) => Fed(s) \/ Holds(streams'[s], n[s]) = Above(s, n)
    /\ Told(s)' => \/ Told(s) /\ (Stays(streams'[s], streams[s]) \/ Reads(streams'[s], streams[s])
                                    \/ Fails(streams'[s], streams[s]))
                   \/ Whole(streams'[s], n[s], source'.made, source'.ended)

LEMMA StreamSane == ASSUME Frame, NEW s \in Streams PROVE Sane(streams[s]) /\ source.made \in Nat
<1>1. Port(s, streams[s], takers[s], asks[s], source.stopped)
    BY DEF Frame, PortsOK
<1>2. source.made \in 0..NumChunks
    BY DEF Frame, Types
<1> QED BY <1>1, <1>2, PortSane

LEMMA SaneNext == ASSUME Frame', NEW s \in Streams PROVE Sane(streams'[s])
<1>1. NativeOK(streams'[s], source'.stopped) \/ StreamOK(streams'[s], C)
    BY DEF Frame, PortsOK, Port
<1> QED BY <1>1, NativeSane, ScriptSane

LEMMA SoftlyFeeds ==
    ASSUME Frame, Frame', NEW n \in [Streams -> 0..NumChunks], NEW s \in Streams, Feeds(s, n), Softly(s, n)
    PROVE  Feeds(s, n)'
<1>1. Sane(streams[s]) /\ source.made \in Nat /\ n[s] \in Nat
    BY StreamSane
<1>2. Sane(streams'[s])
    BY SaneNext
<1>3. /\ Line(streams[s], n[s], source.made) /\ Quiet(streams'[s], streams[s]) /\ source'.made = source.made
      /\ use' = use
    BY DEF Feeds, Softly
<1>4. /\ Line(streams'[s], n[s], source.made)
      /\ CanEnqueue(streams'[s]) => CanEnqueue(streams[s]) /\ Holds(streams'[s], n[s]) = Holds(streams[s], n[s])
    BY <1>1, <1>3, QuietLine
<1>5. Above(s, n)' = Above(s, n)
    BY <1>3, UseStays DEF Above
<1>6. Fed(s)' /\ CanEnqueue(streams'[s]) => Holds(streams'[s], n[s]) = Above(s, n)
    BY <1>4 DEF Feeds, Softly
<1>7. takers'[s] = {} => n[s] = 0
    BY DEF Feeds, Softly
<1>8. Told(s)' => Whole(streams'[s], n[s], source'.made, source'.ended)
  <2>1. ASSUME Told(s), Stays(streams'[s], streams[s]) \/ Reads(streams'[s], streams[s])
                                    \/ Fails(streams'[s], streams[s])
        PROVE  Whole(streams'[s], n[s], source'.made, source'.ended)
    <3>1. Whole(streams[s], n[s], source.made, source.ended)
        BY <2>1 DEF Feeds
    <3>2. Whole(streams'[s], n[s], source.made, source.ended)
        BY <1>1, <1>2, <1>3, <2>1, <3>1, QuietWhole
    <3>3. source.ended => source'.ended
        BY DEF Softly
    <3> QED BY <1>3, <3>2, <3>3, EndedGrows
  <2> QED BY <2>1 DEF Softly
<1> QED BY <1>3, <1>4, <1>5, <1>6, <1>7, <1>8 DEF Feeds

(* What is said of one reader.                                              *)
Fine(r, n) ==
    /\ r \in Loops /\ r \in takers["raw"] =>
           Has(r, "raw", n) /\ Len(asks["raw"]) = IF state[r] = "reading" THEN 1 ELSE 0
    /\ r \in Users /\ r \in takers[StreamOf(r)] => Has(r, StreamOf(r), n)
    /\ (\A s \in Streams : r \notin takers[s]) => Elsewhere(r)
Flows(n) == Feeding(n) /\ \A r \in Readers : Fine(r, n)

LEMMA FlowIs == FlowOK <=> (Alone => \E n \in [Streams -> 0..NumChunks] : Flows(n))
<1>1. Loops \subseteq Readers /\ Users \subseteq Readers
    BY DEF Readers
<1>2. ASSUME NEW n PROVE (Reading(n) /\ Others) <=> \A r \in Readers : Fine(r, n)
    BY <1>1 DEF Reading, Others, Fine
<1> QED BY <1>2 DEF FlowOK, Flow, Flows

Goes ==
    /\ use' = use /\ (source.ended => source'.ended)
    /\ source'.made = source.made \/ (~source.ended /\ ~Static)
Rests(r, n, h) ==
    /\ state'[r] = state[r] /\ Given(r)' = Given(r) /\ (r = "user" /\ byob.lost => byob'.lost)
    /\ \A s \in Streams : (r \in takers'[s] <=> r \in takers[s]) /\ (r \in takers[s] => h[s] = n[s])
    /\ r \in Loops /\ r \in takers["raw"] => asks'["raw"] = asks["raw"]

LEMMA RestsFine ==
    ASSUME Frame, Goes, NEW r \in Readers, NEW n, NEW h, Fine(r, n), Rests(r, n, h)
    PROVE  Fine(r, h)'
<1>1. use' = use /\ "raw" \in Streams /\ (r \in Users => StreamOf(r) \in Streams)
    BY Forms DEF Goes, Frame, Types, Streams
<1>2. Static' = Static /\ StreamOf(r)' = StreamOf(r)
    BY <1>1, UseStays
<1>3. ASSUME NEW s \in Streams, r \in takers[s], Has(r, s, n) PROVE Has(r, s, h)'
  <2>1. h[s] = n[s] /\ state'[r] = state[r] /\ Given(r)' = Given(r) /\ (r = "user" /\ byob.lost => byob'.lost)
      BY <1>3 DEF Rests
  <2>2. state[r] = "whole" => source'.ended /\ n[s] = source'.made
      BY <1>3 DEF Has, Goes
  <2> QED BY <1>3, <2>1, <2>2 DEF Has
<1>4. ASSUME r \in Loops, r \in takers'["raw"]
      PROVE  Has(r, "raw", h)' /\ Len(asks'["raw"]) = IF state'[r] = "reading" THEN 1 ELSE 0
  <2>1. r \in takers["raw"] /\ asks'["raw"] = asks["raw"] /\ state'[r] = state[r]
      BY <1>1, <1>4 DEF Rests
  <2>2. Has(r, "raw", n) /\ Len(asks["raw"]) = IF state[r] = "reading" THEN 1 ELSE 0
      BY <1>4, <2>1 DEF Fine
  <2> QED BY <1>1, <1>3, <2>1, <2>2
<1>5. ASSUME r \in Users, r \in takers'[StreamOf(r)] PROVE Has(r, StreamOf(r), h)'
  <2>1. r \in takers[StreamOf(r)]
      BY <1>1, <1>5 DEF Rests
  <2>2. Has(r, StreamOf(r), n)
      BY <1>5, <2>1 DEF Fine
  <2> QED BY <1>1, <1>2, <1>3, <1>5, <2>1, <2>2
<1>6. ASSUME \A s \in Streams : r \notin takers'[s] PROVE Elsewhere(r)'
  <2>1. Elsewhere(r) /\ state'[r] = state[r] /\ Given(r)' = Given(r)
      BY <1>6 DEF Rests, Fine
  <2>2. Static => Everything' = Everything
      BY DEF Goes, Everything, Frame, SourceOK
  <2> QED BY <1>2, <2>1, <2>2 DEF Elsewhere
<1> QED BY <1>2, <1>4, <1>5, <1>6 DEF Fine

LEMMA AllRest ==
    ASSUME Frame, Goes, NEW n, \A r \in Readers : Fine(r, n), UNCHANGED <<state, got, byob>>,
           \A s \in Streams, r \in Readers : r \in takers'[s] <=> r \in takers[s],
           Loops \cap takers["raw"] # {} => asks'["raw"] = asks["raw"]
    PROVE  \A r \in Readers : Fine(r, n)'
<1> SUFFICES ASSUME NEW r \in Readers PROVE Fine(r, n)'
    OBVIOUS
<1>1. Given(r)' = Given(r)
    BY DEF Given
<1>2. Rests(r, n, n)
    BY <1>1 DEF Rests
<1> QED BY <1>2, RestsFine

LEMMA SoftFlows ==
    ASSUME Frame, Frame', NEW n \in [Streams -> 0..NumChunks], Feeding(n), \A s \in Streams : Softly(s, n),
           streams["body"].started => streams'["body"].started, \A r \in Readers : Fine(r, n)'
    PROVE  \E h \in [Streams -> 0..NumChunks] : Flows(h)'
<1>1. \A s \in Streams : Feeds(s, n)'
    BY SoftlyFeeds DEF Feeding
<1>2. ~streams'["body"].started => n["body"] = 0
    BY DEF Feeding
<1>3. Feeding(n)'
    BY <1>1, <1>2 DEF Feeding
<1> QED BY <1>3 DEF Flows

LEMMA ToldStays ==
    ASSUME Frame, use' = use, NEW s \in Streams, Told(s)',
           NativeRaw(s) /\ call'.state = "head" /\ Listened' => call.state = "head" /\ Listened,
           source.stopped => source'.stopped,
           tee.cancelled \subseteq tee'.cancelled, tee.cancelled = Halves => tee'.cancelled = Halves,
           state["user"] = "cancelled" => state'["user"] = "cancelled"
    PROVE  Told(s)
<1>1. NativeRaw(s)' = NativeRaw(s) /\ Body' = Body
    BY UseStays
<1> QED BY <1>1 DEF Told, Unwanted

LEMMA ListenedStays ==
    ASSUME UNCHANGED <<state, takers>>, CanEnqueue(streams'["body"]) => CanEnqueue(streams["body"]), Listened'
    PROVE  Listened
BY DEF Listened

LEMMA FedStays ==
    ASSUME UNCHANGED <<use, opened>>, "wrap" \in takers'["raw"] <=> "wrap" \in takers["raw"], NEW s
    PROVE  Fed(s)' <=> Fed(s)
BY UseStays DEF Fed

(* The steps in which no reader has a part.                                 *)
Plain(n) ==
    /\ UNCHANGED <<use, opened, takers, state, got, byob>>
    /\ source'.made = source.made /\ (source.ended => source'.ended) /\ (source.stopped => source'.stopped)
    /\ tee'.cancelled = tee.cancelled
    /\ \A s \in Streams : Later(streams'[s], streams[s]) /\ Quiet(streams'[s], streams[s])
    /\ Loops \cap takers["raw"] # {} => asks'["raw"] = asks["raw"]
    /\ \A s \in Streams : Told(s)' =>
           \/ /\ (NativeRaw(s) /\ call'.state = "head" => call.state = "head")
              /\ Stays(streams'[s], streams[s]) \/ Reads(streams'[s], streams[s]) \/ Fails(streams'[s], streams[s])
           \/ Whole(streams'[s], n[s], source'.made, source'.ended)

LEMMA PlainFlows ==
    ASSUME Frame, Frame', NEW n \in [Streams -> 0..NumChunks], Flows(n), Plain(n)
    PROVE  \E h \in [Streams -> 0..NumChunks] : Flows(h)'
<1>1. /\ UNCHANGED <<use, opened, takers, state, got, byob>> /\ tee'.cancelled = tee.cancelled
      /\ source'.made = source.made /\ (source.ended => source'.ended) /\ (source.stopped => source'.stopped)
      /\ \A s \in Streams : Later(streams'[s], streams[s]) /\ Quiet(streams'[s], streams[s])
      /\ Loops \cap takers["raw"] # {} => asks'["raw"] = asks["raw"]
    BY DEF Plain
<1>2. "body" \in Streams
    BY DEF Streams
<1>3. \A s \in Streams : Fed(s)' <=> Fed(s)
    BY <1>1, FedStays
<1>4. Listened' => Listened
  <2>1. CanEnqueue(streams'["body"]) => CanEnqueue(streams["body"])
      BY <1>1, <1>2 DEF Later
  <2> QED BY <1>1, <2>1, ListenedStays
<1>5. ASSUME NEW s \in Streams, Told(s)', NativeRaw(s) /\ call'.state = "head" => call.state = "head" PROVE Told(s)
    BY <1>1, <1>4, <1>5, ToldStays
<1>6. \A s \in Streams : Softly(s, n)
    BY <1>1, <1>3, <1>5 DEF Softly, Plain
<1>7. streams["body"].started => streams'["body"].started
    BY <1>1, <1>2 DEF Later
<1>8. \A r \in Readers : Fine(r, n)'
  <2>1. Goes
      BY <1>1 DEF Goes
  <2>2. \A r \in Readers : Fine(r, n)
      BY DEF Flows
  <2> QED BY <1>1, <2>1, <2>2, AllRest
<1>9. Feeding(n)
    BY DEF Flows
<1> QED BY <1>6, <1>7, <1>8, <1>9, SoftFlows

LEMMA RawIsPlain ==
    ASSUME Frame, NEW n \in [Streams -> 0..NumChunks], NEW t, RawOnly(t),
           Later(t, streams["raw"]), Quiet(t, streams["raw"]),
           source'.made = source.made, source.ended => source'.ended, call'.state = "head" => call.state = "head",
           Told("raw")' =>
               \/ Stays(t, streams["raw"]) \/ Reads(t, streams["raw"]) \/ Fails(t, streams["raw"])
               \/ Whole(t, n["raw"], source'.made, source'.ended)
    PROVE  Plain(n)
<1>1. /\ UNCHANGED <<use, opened, takers, asks, state, got, tee, byob>>
      /\ streams' = [streams EXCEPT !["raw"] = t] /\ source'.stopped = source.stopped
    BY DEF RawOnly
<1>2. streams'["raw"] = t /\ \A s \in Streams : s # "raw" => streams'[s] = streams[s]
    BY <1>1 DEF Frame, Types, Streams
<1>3. \A s \in Streams : s # "raw" =>
          Later(streams'[s], streams[s]) /\ Stays(streams'[s], streams[s]) /\ Quiet(streams'[s], streams[s])
    BY <1>2, LaterSame DEF Quiet
<1> QED BY <1>1, <1>2, <1>3 DEF Plain

LEMMA SourceFailsFlows ==
    ASSUME Frame, Frame', NEW n \in [Streams -> 0..NumChunks], Flows(n), SourceFails
    PROVE  \E h \in [Streams -> 0..NumChunks] : Flows(h)'
<1>1. PICK t : /\ Port("raw", t, takers["raw"], asks["raw"], source.stopped)
               /\ Later(t, streams["raw"]) /\ Fails(t, streams["raw"])
               /\ RawOnly(t) /\ call' = call /\ source' = source
    BY SourceFailsIs
<1>2. Quiet(t, streams["raw"])
    BY <1>1 DEF Quiet
<1>3. Plain(n)
    BY <1>1, <1>2, RawIsPlain
<1> QED BY <1>3, PlainFlows

LEMMA SourceEndsFlows ==
    ASSUME Frame, Frame', NEW n \in [Streams -> 0..NumChunks], Flows(n), SourceEnds
    PROVE  \E h \in [Streams -> 0..NumChunks] : Flows(h)'
<1>1. PICK t : /\ Port("raw", t, takers["raw"], asks["raw"], source.stopped)
               /\ Later(t, streams["raw"]) /\ Closes(t, streams["raw"])
               /\ source'.made = source.made /\ source'.ended
               /\ RawOnly(t) /\ call' = call
    BY SourceEndsIs
<1>2. Quiet(t, streams["raw"])
    BY <1>1 DEF Quiet
<1>3. ~Static /\ "raw" \in Streams
    BY SourceIsOpen DEF SourceEnds, Streams
<1>4. Holds(streams["raw"], n["raw"]) = source.made
    BY <1>1, <1>3 DEF Flows, Feeding, Feeds, Fed, Above, Closes
<1>5. Sane(streams["raw"]) /\ Sane(t) /\ source.made \in Nat /\ n["raw"] \in Nat
    BY <1>1, <1>3, StreamSane, PortSane
<1>6. Whole(t, n["raw"], source.made, TRUE)
    BY <1>1, <1>4, <1>5, CloseIsWhole DEF Closes
<1>7. source'.ended = TRUE
    BY <1>1, <1>3 DEF Frame, Types
<1>8. Plain(n)
    BY <1>1, <1>2, <1>6, EndedGrows, RawIsPlain
<1> QED BY <1>8, PlainFlows

LEMMA TransferFailsFlows ==
    ASSUME Frame, Frame', NEW n \in [Streams -> 0..NumChunks], Flows(n), TransferFails
    PROVE  \E h \in [Streams -> 0..NumChunks] : Flows(h)'
<1>1. PICK t : /\ Port("raw", t, takers["raw"], asks["raw"], source.stopped) /\ Later(t, streams["raw"])
               /\ t.state = "closed" /\ t.got = streams["raw"].got /\ t.queue = streams["raw"].queue
               /\ RawOnly(t) /\ source' = source /\ Native /\ call' = [call EXCEPT !.state = "refused"]
               /\ call'.state = "refused"
    BY TransferFailsIs
<1>2. Quiet(t, streams["raw"])
    BY <1>1 DEF Quiet, CanEnqueue
<1>3. ~Told("raw")'
    BY <1>1, UseStays DEF RawOnly, Told, NativeRaw
<1>4. Plain(n)
    BY <1>1, <1>2, <1>3, RawIsPlain
<1> QED BY <1>4, PlainFlows

LEMMA AbortsFlows ==
    ASSUME Frame, Frame', NEW n \in [Streams -> 0..NumChunks], Flows(n), Aborts
    PROVE  \E h \in [Streams -> 0..NumChunks] : Flows(h)'
<1>1. PICK t : /\ Port("raw", t, takers["raw"], asks["raw"], source.stopped) /\ Later(t, streams["raw"])
               /\ t = streams["raw"] \/ Fails(t, streams["raw"])
               /\ call.state = "none" => t = streams["raw"]
               /\ takers["raw"] = {} => t.state = "errored" \/ t = streams["raw"]
               /\ RawOnly(t) /\ source' = source /\ Native
               /\ call' = [call EXCEPT !.aborted = TRUE, !.state = IF @ = "asked" THEN "refused" ELSE @]
    BY AbortsIs
<1>2. Quiet(t, streams["raw"]) /\ (Stays(t, streams["raw"]) \/ Fails(t, streams["raw"]))
    BY <1>1, LaterSame DEF Quiet
<1>3. call'.state = "head" => call.state = "head"
    BY <1>1 DEF Frame, Types
<1>4. Plain(n)
    BY <1>1, <1>2, <1>3, RawIsPlain
<1> QED BY <1>4, PlainFlows

LEMMA CallFlows ==
    ASSUME Frame, Frame', NEW n \in [Streams -> 0..NumChunks], Flows(n), HeadArrives \/ FetchCalls \/ HeadHeard
    PROVE  \E h \in [Streams -> 0..NumChunks] : Flows(h)'
<1>1. /\ UNCHANGED <<use, streams, opened, takers, asks, state, got, tee, byob, source>>
      /\ call.state # "head"
    BY DEF HeadArrives, FetchCalls, HeadHeard, bodyVars
<1>2. Native /\ \A s \in Streams : takers[s] = {}
    BY <1>1 DEF Frame, CallOK
<1>3. call'.state = "head" => call.state = "answered"
    BY <1>1 DEF HeadArrives, FetchCalls, HeadHeard, Frame, Types
<1>4. "raw" \in Streams /\ Sane(streams["raw"]) /\ streams["raw"].state \in {"readable", "closed", "errored"}
  <2>1. "raw" \in Streams
      BY DEF Streams
  <2> QED BY <2>1, StreamSane, RawPort, <1>2, NetFields
<1>5. ASSUME Told("raw")' PROVE Whole(streams["raw"], n["raw"], source.made, source.ended)
  <2>1. call'.state = "head"
      BY <1>1, <1>2, <1>5, UseStays DEF Told, NativeRaw
  <2>2. streams["raw"].state # "closed"
      BY <1>3, <2>1 DEF Frame, CallOK
  <2>3. CASE CanEnqueue(streams["raw"])
      BY <1>4, <2>3, OpenIsWhole
  <2>4. CASE ~CanEnqueue(streams["raw"])
    <3>1. streams["raw"].state = "errored"
        BY <1>2, <1>4, <2>2, <2>4, RawPort, NetFields
    <3>2. streams["raw"].got = <<>>
        BY <1>2, <1>4, NotOpen
    <3>3. \A i \in DOMAIN streams["raw"].got : FALSE
        BY <3>2
    <3> QED BY <3>1, <3>3 DEF Whole
  <2> QED BY <2>3, <2>4
<1>6. \A s \in Streams : Later(streams'[s], streams[s]) /\ Stays(streams'[s], streams[s])
                         /\ Quiet(streams'[s], streams[s])
    BY <1>1, LaterSame DEF Quiet
<1>7. \A s \in Streams : NativeRaw(s) => s = "raw"
    BY DEF NativeRaw
<1>8. Plain(n)
    BY <1>1, <1>5, <1>6, <1>7 DEF Plain
<1> QED BY <1>8, PlainFlows

LEMMA PullsFlows ==
    ASSUME Frame, Frame', NEW n \in [Streams -> 0..NumChunks], Flows(n), Works, Alone,
           \A q \in Streams : Kept(streams'[q], streams[q]),
           Loops \cap takers["raw"] # {} => asks'["raw"] = asks["raw"]
    PROVE  \E h \in [Streams -> 0..NumChunks] : Flows(h)'
<1>1. \A q \in Streams : /\ Later(streams'[q], streams[q]) /\ Quiet(streams'[q], streams[q])
                         /\ Stays(streams'[q], streams[q]) \/ Reads(streams'[q], streams[q])
    BY DEF Kept, Quiet
<1>2. Plain(n)
    BY <1>1 DEF Plain, Works
<1> QED BY <1>2, PlainFlows

LEMMA PullAsks ==
    ASSUME Frame, Alone, NEW s \in Streams, PullIsCalled(s), Loops \cap takers["raw"] # {}
    PROVE  asks'["raw"] = asks["raw"]
<1>1. streams[s].pull = "called" /\ "raw" \in Streams
    BY DEF PullIsCalled, Streams
<1>2. s = "body" => "wrap" \in takers["raw"]
    BY <1>1, PullIsBusy
<1>3. s \in Halves => Body \in Streams /\ takers[Body] = {"tee"}
    BY <1>1, PullIsBusy
<1>4. AtMostOne(takers["raw"]) /\ "wrap" \notin Loops /\ "tee" \notin Loops
    BY <1>1, OneTaker DEF Loops
<1>5. s # "body"
    BY <1>2, <1>4 DEF AtMostOne
<1>6. s \in Halves => Body # "raw"
    BY <1>3, <1>4
<1>7. asks' = asks \/ (s \in Halves /\ asks' = AskedBy("tee", Body, streams[Body], asks[Body]))
    BY <1>5 DEF PullIsCalled, Halves
<1>8. CASE s \in Halves /\ asks' = AskedBy("tee", Body, streams[Body], asks[Body])
    BY <1>1, <1>3, <1>6, <1>8 DEF AskedBy, Frame, Types
<1> QED BY <1>7, <1>8

LEMMA PullIsCalledFlows ==
    ASSUME Frame, Frame', NEW n \in [Streams -> 0..NumChunks], Flows(n), Alone, NEW s \in Streams, PullIsCalled(s)
    PROVE  \E h \in [Streams -> 0..NumChunks] : Flows(h)'
BY PullIsCalledIs, PullAsks, PullsFlows

LEMMA PullSettlesFlows ==
    ASSUME Frame, Frame', NEW n \in [Streams -> 0..NumChunks], Flows(n), Alone, NEW s \in Streams, PullSettles(s)
    PROVE  \E h \in [Streams -> 0..NumChunks] : Flows(h)'
<1>1. asks' = asks
    BY DEF PullSettles
<1> QED BY <1>1, PullSettlesIs, PullsFlows

LEMMA EmptyHolds ==
    ASSUME NEW s, s.queue = <<>>, s.got = <<>>
    PROVE  Holds(s, 0) = 0
<1>1. Len(s.queue) = 0 /\ Len(s.got) = 0
    OBVIOUS
<1> QED BY <1>1 DEF Holds

LEMMA OpensBodyFlows ==
    ASSUME Frame, Frame', NEW n \in [Streams -> 0..NumChunks], Flows(n), OpensBody
    PROVE  \E h \in [Streams -> 0..NumChunks] : Flows(h)'
<1>1. UNCHANGED <<use, takers, asks, state, got, tee, byob, source, call>>
    BY DEF OpensBody
<1>2. PICK t : t = NewReadable(Native, FALSE)
    OBVIOUS
<1>3. /\ streams' = [streams EXCEPT !["body"] = t] /\ opened' = opened \cup {"body"}
      /\ takers["body"] = {} /\ Fresh(streams["body"]) /\ ~streams["body"].started
    BY <1>2, OpensBodyIs
<1>4. /\ t.state = "readable" /\ ~t.closing /\ t.queue = <<>> /\ t.got = <<>> /\ t \in ReadableType(C)
    BY <1>2, NewIsOwn, OwnFields DEF Native
<1>5. "body" \in Streams /\ "body" \notin Halves /\ streams \in [Streams -> ReadableType(C)]
    BY DEF Streams, Halves, Frame, Types
<1>6. streams["body"].got = <<>>
    BY <1>3, <1>5, NotOpen
<1>7. t.closing = FALSE /\ streams["body"].closing = FALSE
    BY <1>3, <1>4, <1>5 DEF Fresh, ReadableType
<1>8. Stays(t, streams["body"])
    BY <1>3, <1>4, <1>6, <1>7 DEF Stays, Fresh
<1>9. \A s \in Streams : Stays(streams'[s], streams[s]) /\ Quiet(streams'[s], streams[s])
    BY <1>3, <1>5, <1>8, LaterSame DEF Quiet
<1>10. \A s \in Streams : Fed(s)' <=> Fed(s)
  <2>1. \A s \in Streams : s # "raw" /\ s # "body" => (s \in opened' <=> s \in opened)
      BY <1>3
  <2> QED BY <1>1, <2>1, UseStays DEF Fed
<1>11. Listened' => Listened
    BY <1>1, <1>9, <1>5, ListenedStays DEF Stays, CanEnqueue
<1>12. \A s \in Streams : Told(s)' => Told(s)
    BY <1>1, <1>11, ToldStays
<1>13. \A s \in Streams : Softly(s, n)
    BY <1>1, <1>9, <1>10, <1>12 DEF Softly
<1>14. Goes
    BY <1>1 DEF Goes
<1>15. \A r \in Readers : Fine(r, n)'
    BY <1>1, <1>14, AllRest DEF Flows
<1> QED BY <1>3, <1>13, <1>15, SoftFlows DEF Flows

LEMMA TeesFlows ==
    ASSUME Frame, Frame', NEW n \in [Streams -> 0..NumChunks], Flows(n), Tees
    PROVE  \E h \in [Streams -> 0..NumChunks] : Flows(h)'
<1>1. /\ UNCHANGED <<use, streams, asks, state, got, tee, byob, source, call>> /\ takers[Body] = {}
      /\ takers' = [takers EXCEPT ![Body] = {"tee"}] /\ opened' = opened \cup {"one", "two"}
    BY DEF Tees
<1>2. Body \in Streams /\ (Native => Body # "raw") /\ Body \in {"raw", "body"} /\ "raw" \in Streams
    BY Forms DEF Frame, Types, Streams
<1>3. takers'[Body] = {"tee"} /\ \A s \in Streams : s # Body => takers'[s] = takers[s]
    BY <1>1, <1>2 DEF Frame, Types
<1>4. \A s \in Streams : Stays(streams'[s], streams[s]) /\ Quiet(streams'[s], streams[s])
    BY <1>1, LaterSame DEF Quiet
<1>5. ASSUME NEW s \in Halves PROVE Holds(streams[s], n[s]) = Above(s, n)
  <2>1. s \in Streams /\ s # "raw" /\ s # "body" /\ s \notin opened
      BY <1>1 DEF Halves, Streams, Frame, OpenOK
  <2>2. Fresh(streams[s]) /\ takers[s] = {}
      BY <2>1 DEF Frame, OpenOK
  <2>3. streams[s].got = <<>> /\ streams[s].queue = <<>>
      BY <2>1, <2>2, NotOpen DEF Fresh
  <2>4. n[s] = 0 /\ n[Body] = 0
      BY <1>1, <1>2, <2>1, <2>2 DEF Flows, Feeding, Feeds
  <2>5. Above(s, n) = n[Body]
      BY <2>1 DEF Above
  <2> QED BY <2>3, <2>4, <2>5, EmptyHolds
<1>6. \A s \in Streams : Fed(s)' => Fed(s) \/ Holds(streams'[s], n[s]) = Above(s, n)
  <2>1. \A s \in Streams : s \in Halves \/ s = "raw" \/ s = "body"
      BY DEF Streams, Halves
  <2>2. "wrap" \in takers'["raw"] => "wrap" \in takers["raw"]
      BY <1>2, <1>3
  <2> QED BY <1>1, <1>5, <2>1, <2>2, UseStays DEF Fed
<1>7. Native => (Listened' => Listened)
    BY <1>1, <1>2, <1>3 DEF Listened
<1>8. \A s \in Streams : Told(s)' => Told(s)
    BY <1>1, <1>7, ToldStays DEF NativeRaw
<1>9. \A s \in Streams : Softly(s, n)
    BY <1>1, <1>3, <1>4, <1>6, <1>8 DEF Softly
<1>10. Goes
    BY <1>1 DEF Goes
<1>11. \A s \in Streams, r \in Readers : r \in takers'[s] <=> r \in takers[s]
    BY <1>1, <1>3 DEF Readers, Loops, Users
<1>12. \A r \in Readers : Fine(r, n)'
    BY <1>1, <1>10, <1>11, AllRest DEF Flows
<1> QED BY <1>1, <1>9, <1>12, SoftFlows DEF Flows

LEMMA StartsFlows ==
    ASSUME Frame, Frame', NEW n \in [Streams -> 0..NumChunks], Flows(n), Alone', NEW s \in Streams, StreamStarts(s),
           ~(s = "body" /\ Static /\ CanEnqueue(streams[s]))
    PROVE  \E h \in [Streams -> 0..NumChunks] : Flows(h)'
<1>1. /\ UNCHANGED <<use, opened, asks, state, got, tee, byob, source, call>>
      /\ takers' = IF s = "body" /\ Native THEN [takers EXCEPT !["raw"] = @ \cup {"wrap"}] ELSE takers
    BY DEF StreamStarts
<1>2. PICK t : /\ ~streams[s].started /\ streams' = [streams EXCEPT ![s] = t] /\ t.started /\ Stays(t, streams[s])
               /\ ~NativeRaw(s) /\ s \in opened
    BY StreamStartsIs
<1>3. /\ "raw" \in Streams /\ "body" \in Streams /\ streams'[s] = t
      /\ \A q \in Streams : q # s => streams'[q] = streams[q]
    BY <1>2 DEF Streams, Frame, Types
<1>4. \A q \in Streams : Stays(streams'[q], streams[q]) /\ Quiet(streams'[q], streams[q])
    BY <1>2, <1>3, LaterSame DEF Quiet
<1>5. CanEnqueue(streams'["body"]) <=> CanEnqueue(streams["body"])
    BY <1>3, <1>4 DEF Stays, CanEnqueue
<1>6. \A q \in Streams : /\ takers[q] \subseteq takers'[q] /\ takers'[q] \subseteq takers[q] \cup {"wrap"}
                         /\ q # "raw" => takers'[q] = takers[q]
    BY <1>1, <1>3 DEF Frame, Types
<1>7. ASSUME s = "body", Native
      PROVE  takers'["raw"] = {"wrap"} /\ takers["raw"] = {} /\ n["raw"] = 0 /\ n["body"] = 0
  <2>1. "wrap" \notin takers["raw"]
      BY <1>2, <1>7 DEF Frame, OpenOK
  <2>2. takers'["raw"] = takers["raw"] \cup {"wrap"}
      BY <1>1, <1>3, <1>7 DEF Frame, Types
  <2>3. AtMostOne(takers'["raw"])
      BY <1>1, <1>7, AloneNext, UseStays
  <2>4. takers["raw"] = {}
      BY <2>1, <2>2, <2>3 DEF AtMostOne
  <2> QED BY <1>2, <1>3, <1>7, <2>2, <2>4 DEF Flows, Feeding, Feeds
<1>8. ASSUME s = "body", Native, CanEnqueue(streams'["body"])
      PROVE  Holds(streams'["body"], n["body"]) = Above("body", n)
  <2>1. Blank(streams["body"]) /\ Sane(streams["body"]) /\ streams["body"].state = "readable"
      BY <1>2, <1>3, <1>5, <1>8, StreamSane DEF Frame, OpenOK, CanEnqueue
  <2>2. Chunks(streams["body"].got) /\ streams["body"].got \in Seq(C \cup {End, Failed})
      BY <2>1 DEF Sane
  <2>3. \A i \in DOMAIN streams["body"].got : FALSE
      BY <2>1, <2>2 DEF Chunks, Blank
  <2>4. PICK g \in Seq(C \cup {End, Failed}) : g = streams["body"].got
      BY <2>2
  <2>9. ~(1 \in DOMAIN g) /\ Len(g) \in Nat
      BY <2>3, <2>4
  <2>10. Len(g) = 0
      BY <2>9
  <2>5. g = <<>>
      BY <2>10
  <2>6. streams'["body"].got = <<>> /\ streams'["body"].queue = <<>>
      BY <1>3, <1>4, <2>1, <2>4, <2>5 DEF Stays, Blank
  <2>7. n["body"] = 0 /\ n["raw"] = 0
      BY <1>7, <1>8
  <2>8. Above("body", n) = n["raw"]
      BY DEF Above
  <2> QED BY <2>6, <2>7, <2>8, EmptyHolds
<1>9. \A q \in Streams : Fed(q)' /\ CanEnqueue(streams'[q]) => Fed(q) \/ Holds(streams'[q], n[q]) = Above(q, n)
  <2>1. CASE s = "body" /\ Native
      BY <1>1, <1>8, <2>1, UseStays DEF Fed
  <2>2. CASE ~(s = "body" /\ Native)
      BY <1>1, <2>2, UseStays DEF Fed
  <2> QED BY <2>1, <2>2
<1>10. Listened' => Listened
    BY <1>1, <1>5, <1>7 DEF Listened
<1>11. \A q \in Streams : Told(q)' => Told(q)
    BY <1>1, <1>10, ToldStays
<1>12. \A q \in Streams : Softly(q, n)
    BY <1>1, <1>4, <1>6, <1>9, <1>11 DEF Softly
<1>13. Goes
    BY <1>1 DEF Goes
<1>14. \A q \in Streams, r \in Readers : r \in takers'[q] <=> r \in takers[q]
    BY <1>6 DEF Readers, Loops, Users
<1>15. \A r \in Readers : Fine(r, n)'
    BY <1>1, <1>13, <1>14, AllRest DEF Flows
<1>16. streams["body"].started => streams'["body"].started
    BY <1>2, <1>3
<1> QED BY <1>12, <1>15, <1>16, SoftFlows DEF Flows

LEMMA OthersRest ==
    ASSUME Frame, Goes, NEW n, NEW h, \A q \in Readers : Fine(q, n), NEW r,
           \A q \in Readers : q # r => state'[q] = state[q] /\ got'[q] = got[q],
           r = "user" \/ byob' = byob,
           \A s \in Streams, q \in Readers : q # r => (q \in takers'[s] <=> q \in takers[s]),
           \A s \in Streams, q \in Readers : q # r /\ q \in takers[s] => h[s] = n[s],
           asks'["raw"] = asks["raw"] \/ \A q \in Loops \cap takers["raw"] : q = r
    PROVE  \A q \in Readers : q # r => Fine(q, h)'
<1> SUFFICES ASSUME NEW q \in Readers, q # r PROVE Fine(q, h)'
    OBVIOUS
<1>1. Given(q)' = Given(q)
    BY DEF Given
<1>2. Rests(q, n, h)
    BY <1>1 DEF Rests
<1> QED BY <1>2, RestsFine

(* What one reader does that takes no chunk off a stream.                   *)
OnlyReader(r, x) ==
    /\ UNCHANGED <<use, opened, tee, source, call>>
    /\ \A s \in Streams : s # x => streams'[s] = streams[s] /\ takers'[s] = takers[s]
    /\ Later(streams'[x], streams[x])
    /\ Stays(streams'[x], streams[x]) \/ Reads(streams'[x], streams[x])
    /\ takers[x] \subseteq takers'[x] /\ takers'[x] \subseteq takers[x] \cup {r}
    /\ \A q \in Readers : q # r => state'[q] = state[q] /\ got'[q] = got[q]
    /\ r = "user" \/ byob' = byob
    /\ (state[r] = "cancelled" => state'[r] = "cancelled")
    /\ (Native => (Listened' => Listened))
    /\ asks'["raw"] = asks["raw"] \/ \A q \in Loops \cap takers["raw"] : q = r

LEMMA OnlyReaderFlows ==
    ASSUME Frame, Frame', NEW n \in [Streams -> 0..NumChunks], Flows(n), NEW r \in Readers, NEW x \in Streams,
           OnlyReader(r, x), Fine(r, n)'
    PROVE  \E h \in [Streams -> 0..NumChunks] : Flows(h)'
<1>1. /\ UNCHANGED <<use, opened, tee, source, call>>
      /\ \A s \in Streams : s # x => streams'[s] = streams[s] /\ takers'[s] = takers[s]
      /\ takers[x] \subseteq takers'[x] /\ takers'[x] \subseteq takers[x] \cup {r}
      /\ \A q \in Readers : q # r => state'[q] = state[q] /\ got'[q] = got[q]
      /\ r = "user" \/ byob' = byob
      /\ (state[r] = "cancelled" => state'[r] = "cancelled")
      /\ asks'["raw"] = asks["raw"] \/ \A q \in Loops \cap takers["raw"] : q = r
    BY DEF OnlyReader
<1>2. "raw" \in Streams /\ "body" \in Streams /\ "user" \in Readers
    BY DEF Streams, Readers, Users
<1>3. \A s \in Streams : /\ Stays(streams'[s], streams[s]) \/ Reads(streams'[s], streams[s])
                         /\ Later(streams'[s], streams[s])
    BY <1>1, LaterSame DEF OnlyReader
<1>4. \A s \in Streams : Quiet(streams'[s], streams[s])
    BY <1>3 DEF Quiet
<1>5. \A s \in Streams : takers[s] \subseteq takers'[s] /\ takers'[s] \subseteq takers[s] \cup {r}
    BY <1>1
<1>6. \A s \in Streams : Fed(s)' <=> Fed(s)
  <2>1. "wrap" # r
      BY DEF Readers, Loops, Users
  <2>2. "wrap" \in takers'["raw"] <=> "wrap" \in takers["raw"]
      BY <1>2, <1>5, <2>1
  <2> QED BY <1>1, <2>2, FedStays
<1>7. state["user"] = "cancelled" => state'["user"] = "cancelled"
    BY <1>1, <1>2
<1>8. Native => (Listened' => Listened)
    BY DEF OnlyReader
<1>9. \A s \in Streams : Told(s)' => Told(s)
    BY <1>1, <1>7, <1>8, ToldStays DEF NativeRaw
<1>10. \A s \in Streams : Softly(s, n)
    BY <1>1, <1>3, <1>4, <1>5, <1>6, <1>9 DEF Softly
<1>11. Goes
    BY <1>1 DEF Goes
<1>12. \A s \in Streams, q \in Readers : q # r => (q \in takers'[s] <=> q \in takers[s])
    BY <1>5
<1>13. \A q \in Readers : q # r => Fine(q, n)'
  <2>1. \A q \in Readers : Fine(q, n)
      BY DEF Flows
  <2> QED BY <1>1, <1>11, <1>12, <2>1, OthersRest
<1>14. \A q \in Readers : Fine(q, n)'
    BY <1>13
<1>15. streams["body"].started => streams'["body"].started
    BY <1>2, <1>3 DEF Later
<1> QED BY <1>10, <1>14, <1>15, SoftFlows DEF Flows

LEMMA NeverTakes ==
    ASSUME Frame
    PROVE  /\ \A s \in Streams : "copy" \notin takers[s]
           /\ \A r \in Loops, s \in Streams : s # "raw" => r \notin takers[s]
           /\ \A u \in Users, s \in Streams : s # StreamOf(u) => u \notin takers[s]
           /\ \A s \in Streams, r \in Readers : state[r] = "idle" => r \notin takers[s]
<1>1. \A s \in Streams : takers[s] \subseteq MayTake(s)
    BY DEF Frame, PortsOK, Port
<1>2. \A s \in Streams : "copy" \notin MayTake(s)
    BY DEF MayTake, Loops, Streams
<1>3. \A r \in Loops, s \in Streams : s # "raw" => r \notin MayTake(s)
    BY DEF MayTake, Loops, Streams
<1>4. \A s \in Streams : "user" \in takers[s] => s = Body
  <2>1. "user" \notin takers["raw"] \/ Body = "raw"
    <3>1. CASE Native
        BY <1>1, <3>1 DEF MayTake, Loops, Streams
    <3>2. CASE Static
      <4>1. "raw" \notin opened /\ "raw" \in Streams
          BY <3>2 DEF Frame, OpenOK, Streams
      <4> QED BY <4>1 DEF Frame, OpenOK
    <3> QED BY <3>1, <3>2, Forms DEF Frame, Types
  <2>2. "user" \notin takers["body"] \/ Body = "body"
    <3>1. CASE "body" \in opened
        BY <3>1 DEF Frame, OpenOK
    <3>2. CASE "body" \notin opened
        BY <3>2 DEF Frame, OpenOK, Streams
    <3> QED BY <3>1, <3>2
  <2> QED BY <1>1, <2>1, <2>2 DEF MayTake, Streams
<1>5. \A u \in Halves, s \in Streams : s # u => u \notin MayTake(s)
    BY DEF MayTake, Loops, Streams, Halves
<1>6. \A u \in Users, s \in Streams : s # StreamOf(u) => u \notin takers[s]
    BY <1>1, <1>4, <1>5 DEF Users, Halves, StreamOf
<1> QED BY <1>1, <1>2, <1>3, <1>6 DEF Frame, ReadersOK

LEMMA IdleHasNone ==
    ASSUME Frame, NEW r \in Readers, state[r] = "idle", NEW n, Flows(n)
    PROVE  Given(r) = <<>> /\ \A s \in Streams : r \notin takers[s]
<1>1. \A s \in Streams : r \notin takers[s]
    BY NeverTakes
<1> QED BY <1>1 DEF Flows, Fine, Elsewhere

LEMMA ClonesFlows ==
    ASSUME Frame, Frame', NEW n \in [Streams -> 0..NumChunks], Flows(n), Clones
    PROVE  \E h \in [Streams -> 0..NumChunks] : Flows(h)'
<1>1. UNCHANGED <<use, streams, opened, takers, asks, tee, byob, source, call>> /\ state["copy"] = "idle"
    BY DEF Clones
<1>2. /\ state \in [Readers -> {"idle", "reading", "whole", "failed", "cancelled"}]
      /\ got \in [Readers -> Seq(Byte)] /\ "copy" \in Readers /\ "copy" \notin Loops /\ "copy" \notin Users
      /\ "raw" \in Streams
    BY DEF Frame, Types, Readers, Loops, Users, Streams
<1>3. PICK v \in {"whole", "failed"} : state' = [state EXCEPT !["copy"] = v]
    BY DEF Clones
<1>4. state'["copy"] = v /\ \A q \in Readers : q # "copy" => state'[q] = state[q]
    BY <1>2, <1>3
<1>5. got' = [got EXCEPT !["copy"] = IF Static /\ state'["copy"] = "whole" THEN Everything ELSE <<>>]
    BY DEF Clones
<1>6. /\ got'["copy"] = IF Static /\ v = "whole" THEN Everything ELSE <<>>
      /\ \A q \in Readers : q # "copy" => got'[q] = got[q]
    BY <1>2, <1>4, <1>5
<1>7. Stays(streams'["raw"], streams["raw"]) /\ Later(streams'["raw"], streams["raw"])
    BY <1>1, LaterSame
<1>8. Listened' => Listened
  <2>1. \A r \in Loops : r \in Readers /\ r # "copy"
      BY <1>2 DEF Readers
  <2> QED BY <1>1, <1>4, <2>1 DEF Listened
<1>9. OnlyReader("copy", "raw")
    BY <1>1, <1>4, <1>6, <1>7, <1>8 DEF OnlyReader
<1>10. Elsewhere("copy")'
  <2>1. Given("copy")' = got'["copy"]
      BY DEF Given
  <2>2. Everything' = Everything /\ Static' = Static
      BY <1>1, UseStays DEF Everything
  <2> QED BY <1>4, <1>6, <2>1, <2>2 DEF Elsewhere
<1>11. Fine("copy", n)'
    BY <1>2, <1>10 DEF Fine
<1> QED BY <1>2, <1>9, <1>11, OnlyReaderFlows

LEMMA ListenedRaw ==
    ASSUME \A q \in Loops : state'[q] = state[q], takers'["raw"] = takers["raw"],
           CanEnqueue(streams'["body"]) => CanEnqueue(streams["body"]), Listened'
    PROVE  Listened
BY DEF Listened

LEMMA LoopStartsFlows ==
    ASSUME Frame, Frame', NEW n \in [Streams -> 0..NumChunks], Flows(n), Alone', NEW r \in Loops, LoopStarts(r)
    PROVE  \E h \in [Streams -> 0..NumChunks] : Flows(h)'
<1>1. UNCHANGED <<use, opened, tee, byob, source, call>> /\ state[r] = "idle" /\ call.state = "head"
    BY DEF LoopStarts
<1>2. /\ state \in [Readers -> {"idle", "reading", "whole", "failed", "cancelled"}]
      /\ got \in [Readers -> Seq(Byte)] /\ takers \in [Streams -> SUBSET Takers]
      /\ r \in Readers /\ r # "user" /\ r \notin Users /\ "raw" \in Streams
    BY LoopTakes DEF Frame, Types, Users
<1>3. Given(r) = <<>> /\ Given(r) = got[r] /\ \A s \in Streams : r \notin takers[s]
    BY <1>1, <1>2, IdleHasNone DEF Given
<1>4. Everything' = Everything /\ Static' = Static /\ Given(r)' = got'[r]
    BY <1>1, <1>2, UseStays DEF Everything, Given
<1>5. Later(streams["raw"], streams["raw"]) /\ Stays(streams["raw"], streams["raw"])
    BY LaterSame
<1>6. CASE Static /\ state' = [state EXCEPT ![r] = "whole"] /\ got' = [got EXCEPT ![r] = Everything]
           /\ UNCHANGED <<streams, takers, asks>>
  <2>1. /\ state'[r] = "whole" /\ got'[r] = Everything
        /\ \A q \in Readers : q # r => state'[q] = state[q] /\ got'[q] = got[q]
      BY <1>2, <1>6
  <2>2. ~Native
      BY <1>6, Forms DEF Frame, Types
  <2>3. OnlyReader(r, "raw")
      BY <1>1, <1>5, <1>6, <2>1, <2>2 DEF OnlyReader
  <2>4. Fine(r, n)'
      BY <1>2, <1>3, <1>4, <1>6, <2>1 DEF Fine, Elsewhere
  <2> QED BY <1>2, <2>3, <2>4, OnlyReaderFlows
<1>7. CASE ~Static /\ ~Native /\ takers["raw"] # {} /\ state' = [state EXCEPT ![r] = "failed"]
           /\ UNCHANGED <<streams, takers, asks, got>>
  <2>1. /\ state'[r] = "failed" /\ got'[r] = got[r]
        /\ \A q \in Readers : q # r => state'[q] = state[q] /\ got'[q] = got[q]
      BY <1>2, <1>7
  <2>2. OnlyReader(r, "raw")
      BY <1>1, <1>5, <1>7, <2>1 DEF OnlyReader
  <2>3. Fine(r, n)'
      BY <1>2, <1>3, <1>4, <1>7, <2>1 DEF Fine, Elsewhere
  <2> QED BY <1>2, <2>2, <2>3, OnlyReaderFlows
<1>8. CASE state'[r] = "reading"
  <2>1. PICK t, b :
               /\ Port("raw", t, takers["raw"] \cup {r}, b, source.stopped) /\ Reads(t, streams["raw"])
               /\ Later(t, streams["raw"]) /\ streams' = [streams EXCEPT !["raw"] = t]
               /\ takers' = [takers EXCEPT !["raw"] = takers["raw"] \cup {r}] /\ asks' = [asks EXCEPT !["raw"] = b]
               /\ Len(asks["raw"]) = 0 => Len(b) = 1
               /\ state' = [state EXCEPT ![r] = "reading"] /\ got' = got /\ ~Static /\ (~Native => takers["raw"] = {})
      BY <1>8, LoopStartsIs
  <2>2. /\ streams'["raw"] = t /\ takers'["raw"] = takers["raw"] \cup {r} /\ asks'["raw"] = b
        /\ \A s \in Streams : s # "raw" => streams'[s] = streams[s] /\ takers'[s] = takers[s]
        /\ \A q \in Readers : q # r => state'[q] = state[q] /\ got'[q] = got[q]
      BY <1>2, <2>1 DEF Frame, Types
  <2>3. takers["raw"] = {}
    <3>1. CASE Native
      <4>1. AtMostOne(takers'["raw"])
          BY <1>1, <3>1, AloneNext, UseStays
      <4> QED BY <1>2, <1>3, <2>2, <4>1 DEF AtMostOne
    <3>2. CASE ~Native
        BY <2>1, <3>2
    <3> QED BY <3>1, <3>2
  <2>4. Len(b) = 1
      BY <1>2, <2>1, <2>3, NotOpen
  <2>5. Listened
      BY <2>3 DEF Listened
  <2>6. OnlyReader(r, "raw")
      BY <1>1, <2>1, <2>2, <2>3, <2>5 DEF OnlyReader
  <2>7. n["raw"] = 0
      BY <1>2, <2>3 DEF Flows, Feeding, Feeds
  <2>8. Has(r, "raw", n)'
    <3>1. First(n["raw"]) = <<>>
        BY <2>7, FirstIs, BodyAssumption
    <3> QED BY <1>3, <1>4, <1>8, <2>1, <3>1 DEF Has
  <2>9. Fine(r, n)'
      BY <1>2, <1>8, <2>2, <2>4, <2>8 DEF Fine
  <2> QED BY <1>2, <2>6, <2>9, OnlyReaderFlows
<1> QED BY <1>2, <1>6, <1>7, <1>8 DEF LoopStarts

LEMMA UserReadsFlows ==
    ASSUME Frame, Frame', NEW n \in [Streams -> 0..NumChunks], Flows(n), NEW u \in Users, UserReads(u)
    PROVE  \E h \in [Streams -> 0..NumChunks] : Flows(h)'
<1>1. UNCHANGED <<use, opened, tee, source, call>>
    BY DEF UserReads
<1>2. /\ state \in [Readers -> {"idle", "reading", "whole", "failed", "cancelled"}]
      /\ got \in [Readers -> Seq(Byte)] /\ takers \in [Streams -> SUBSET Takers]
      /\ byob \in [left : Seq(Byte), lost : BOOLEAN]
      /\ u \in Readers /\ u \notin Loops /\ "raw" \in Streams /\ StreamOf(u) \in Streams /\ ~NativeRaw(StreamOf(u))
    BY UserTakes DEF Frame, Types, Streams
<1>3. PICK x : x = StreamOf(u)
    OBVIOUS
<1>4. StreamOf(u)' = StreamOf(u) /\ Native' = Native /\ Static' = Static
    BY <1>1, UseStays
<1>5. Later(streams[x], streams[x]) /\ Stays(streams[x], streams[x])
    BY LaterSame
<1>6. \A r \in Loops : r \in Readers /\ r # u
    BY <1>2 DEF Readers
<1>7. Fine(u, n)
    BY <1>2 DEF Flows
<1>8. CASE state[u] = "idle" /\ takers[x] # {} /\ state' = [state EXCEPT ![u] = "failed"]
           /\ UNCHANGED <<streams, takers, asks, got, byob>>
  <2>1. /\ state'[u] = "failed" /\ \A q \in Readers : q # u => state'[q] = state[q]
      BY <1>2, <1>8
  <2>2. Listened' => Listened
      BY <1>6, <1>8, <2>1 DEF Listened
  <2>3. OnlyReader(u, x)
      BY <1>1, <1>5, <1>8, <2>1, <2>2 DEF OnlyReader
  <2>4. Given(u) = <<>> /\ \A s \in Streams : u \notin takers[s]
      BY <1>2, <1>8, IdleHasNone
  <2>5. Given(u)' = Given(u)
      BY <1>8 DEF Given
  <2>6. Fine(u, n)'
      BY <1>2, <1>4, <1>8, <2>1, <2>4, <2>5 DEF Fine, Elsewhere
  <2> QED BY <1>2, <1>3, <2>3, <2>6, OnlyReaderFlows
<1>9. CASE state[u] = "reading" /\ Byob(u) /\ byob.left # <<>> /\ Fill(u, byob.left)
           /\ UNCHANGED <<streams, takers, asks, state>>
  <2>1. u = "user"
      BY <1>9 DEF Byob
  <2>2. /\ byob'.lost = byob.lost /\ \A q \in Readers : q # u => got'[q] = got[q]
        /\ got'[u] \o byob'.left = got[u] \o byob.left
      BY <1>2, <1>9, FillIs
  <2>3. Given(u)' = Given(u)
      BY <2>1, <2>2 DEF Given
  <2>4. Listened' => Listened
      BY <1>9 DEF Listened
  <2>5. OnlyReader(u, x)
      BY <1>1, <1>5, <1>9, <2>1, <2>2, <2>4 DEF OnlyReader
  <2>6. Goes /\ Rests(u, n, n)
      BY <1>1, <1>2, <1>9, <2>2, <2>3 DEF Goes, Rests
  <2>7. Fine(u, n)'
      BY <1>2, <1>7, <2>6, RestsFine
  <2> QED BY <1>2, <1>3, <2>5, <2>7, OnlyReaderFlows
<1>10. CASE UserAsks(u)
  <2>1. PICK t, k, b :
               /\ Moves(u, x, t, k, b) /\ Reads(t, streams[x])
               /\ k = takers[x] \cup {u} /\ (state[u] = "reading" => u \in takers[x])
      BY <1>3, <1>10, UserAsksIs
  <2>2. /\ streams'[x] = t /\ takers'[x] = k /\ asks'[x] = b
        /\ \A s \in Streams : s # x => streams'[s] = streams[s] /\ takers'[s] = takers[s] /\ asks'[s] = asks[s]
      BY <2>1, ReaderMoves
  <2>3. /\ Later(t, streams[x]) /\ \A q \in Readers : q # u => state'[q] = state[q]
      BY <2>1 DEF Moves, Turns
  <2>4. got' = got /\ byob' = byob /\ state'[u] = "reading" /\ ~Settled(u) /\ (state[u] = "idle" => takers[x] = {})
      BY <1>2, <1>3, <1>10 DEF UserAsks
  <2>5. Native => x # "raw"
      BY <1>2, <1>3 DEF NativeRaw
  <2>6. Native => (Listened' => Listened)
    <3>1. "body" \in Streams /\ (Native => takers'["raw"] = takers["raw"])
        BY <1>2, <2>2, <2>5 DEF Streams
    <3>2. CanEnqueue(streams'["body"]) => CanEnqueue(streams["body"])
        BY <2>2, <2>3, <3>1 DEF Later
    <3>3. \A q \in Loops : state'[q] = state[q]
        BY <1>6, <2>3
    <3> QED BY <3>1, <3>2, <3>3, ListenedRaw
  <2>7. asks'["raw"] = asks["raw"] \/ \A q \in Loops \cap takers["raw"] : q = u
    <3>1. CASE x # "raw"
        BY <1>2, <2>2, <3>1
    <3>2. CASE x = "raw"
      <4>1. AtMostOne(takers'["raw"])
          BY <1>2, <1>3, <2>1, <2>2, <3>2 DEF Moves, Port
      <4> QED BY <2>1, <2>2, <3>2, <4>1 DEF AtMostOne
    <3> QED BY <3>1, <3>2
  <2>8. OnlyReader(u, x)
      BY <1>1, <2>1, <2>2, <2>3, <2>4, <2>6, <2>7 DEF OnlyReader, Settled
  <2>9. Given(u)' = Given(u)
      BY <2>4 DEF Given
  <2>10. CASE state[u] = "idle"
    <3>1. Given(u) = <<>> /\ n[x] = 0
        BY <1>2, <1>3, <2>4, <2>10, IdleHasNone DEF Flows, Feeding, Feeds
    <3>2. First(n[x]) = <<>>
        BY <3>1, FirstIs, BodyAssumption
    <3>3. Has(u, x, n)'
        BY <2>4, <2>9, <3>1, <3>2 DEF Has
    <3>4. Fine(u, n)'
        BY <1>2, <1>3, <1>4, <2>1, <2>2, <3>3 DEF Fine
    <3> QED BY <1>2, <1>3, <2>8, <3>4, OnlyReaderFlows
  <2>11. CASE state[u] = "reading"
    <3>1. u \in takers[x] /\ Has(u, x, n)
        BY <1>3, <1>7, <2>1, <2>11 DEF Fine
    <3>2. Has(u, x, n)'
        BY <2>4, <2>9, <3>1 DEF Has
    <3>4. Fine(u, n)'
        BY <1>2, <1>3, <1>4, <2>1, <2>2, <3>2 DEF Fine
    <3> QED BY <1>2, <1>3, <2>8, <3>4, OnlyReaderFlows
  <2> QED BY <1>2, <2>4, <2>10, <2>11 DEF Settled
<1> QED BY <1>3, <1>8, <1>9, <1>10 DEF UserReads, UserAsks

LEMMA UserCancelsFlows ==
    ASSUME Frame, Frame', NEW n \in [Streams -> 0..NumChunks], Flows(n), Alone, NEW u \in Users, UserCancels(u)
    PROVE  \E h \in [Streams -> 0..NumChunks] : Flows(h)'
<1>1. /\ UNCHANGED <<use, opened, takers, got, byob, call>>
      /\ state' = [state EXCEPT ![u] = "cancelled"] /\ tee' = [tee EXCEPT !.cancelled = CancelledBy(u)]
      /\ source' = [source EXCEPT !.stopped = @ \/ "raw" \in Reached(u) \cup Below(u),
                                         !.missed = @ \/ (Wrapped(u) /\ ~streams["body"].started)]
      /\ Native => "raw" \notin Reached(u)
      /\ \A s \in Streams \ (Reached(u) \cup Below(u)) : streams'[s] = streams[s]
      /\ \A s \in Reached(u) \cup Below(u) :
             /\ Later(streams'[s], streams[s])
             /\ Cancels(streams'[s], streams[s]) \/ streams'[s] = streams[s]
      /\ (Below(u) = {} => asks' = asks)
    BY UserCancelsIs
<1>2. /\ u \in Readers /\ u \notin Loops /\ StreamOf(u) \in Streams /\ Body \in Streams /\ ~NativeRaw(Body)
      /\ Body \in {"raw", "body"} /\ "raw" \in Streams /\ "body" \in Streams
      /\ \A r \in Loops : r \in Readers /\ r # u
  <2>1. u \in Readers /\ u \notin Loops /\ StreamOf(u) \in Streams
      BY UserTakes
  <2>2. Body \in Streams /\ ~NativeRaw(Body) /\ Body \in {"raw", "body"}
      BY Forms DEF Frame, Types
  <2>3. "raw" \in Streams /\ "body" \in Streams /\ \A r \in Loops : r \in Readers
      BY DEF Streams, Readers
  <2> QED BY <2>1, <2>2, <2>3
<1>3. /\ state'[u] = "cancelled" /\ \A q \in Readers : q # u => state'[q] = state[q]
      /\ tee'.cancelled = CancelledBy(u) /\ tee.cancelled \subseteq CancelledBy(u) /\ CancelledBy(u) \subseteq Halves
      /\ source'.made = source.made /\ source'.ended = source.ended
      /\ source'.stopped = (source.stopped \/ "raw" \in Reached(u) \cup Below(u))
    BY <1>1, <1>2 DEF Frame, Types, CancelledBy, Users, Halves
<1>4. \A s \in Streams : /\ Later(streams'[s], streams[s]) /\ Quiet(streams'[s], streams[s])
                         /\ Cancels(streams'[s], streams[s]) \/ streams'[s] = streams[s]
    BY <1>1, LaterSame DEF Quiet
<1>5. ASSUME NEW s \in Reached(u) PROVE ~Told(s)'
  <2>1. CASE s \in Halves
    <3>1. s = u
        BY <1>2, <2>1 DEF Reached, StreamOf, Halves
    <3>2. s \in tee'.cancelled /\ ~NativeRaw(s)'
        BY <1>3, <2>1, <3>1 DEF CancelledBy, Halves, NativeRaw
    <3> QED BY <2>1, <3>2 DEF Told
  <2>2. CASE s \notin Halves
    <3>1. s = Body /\ (u = "user" \/ CancelledBy(u) = Halves)
        BY <2>2 DEF Reached, StreamOf, Users, Halves
    <3>2. Unwanted'
        BY <1>3, <3>1 DEF Unwanted
    <3>3. s = Body' /\ ~NativeRaw(s)'
        BY <1>1, <1>2, <3>1, UseStays
    <3> QED BY <2>2, <3>2, <3>3 DEF Told
  <2> QED BY <2>1, <2>2
<1>6. ASSUME NEW s \in Below(u) PROVE ~Told(s)' /\ "wrap" \in takers["raw"]
  <2>1. s = "raw" /\ Native /\ source'.stopped
      BY <1>3, <1>6 DEF Below, Wrapped
  <2>2. NativeRaw(s)'
      BY <1>1, <2>1, UseStays DEF NativeRaw
  <2>3. "wrap" \in takers["raw"]
    <3>1. Body = "body" /\ Body \in Reached(u)
        BY <1>2, <1>6 DEF Below, Wrapped, Reached, StreamOf, Users
    <3>2. "body" \in opened
        BY <3>1, UserCancelsIs
    <3> QED BY <1>6, <2>1, <3>2 DEF Below, Frame, OpenOK
  <2> QED BY <2>1, <2>2, <2>3 DEF Told
<1>7. Listened' => Listened
    BY <1>1, <1>2, <1>3, <1>4, ListenedRaw DEF Later
<1>8. \A s \in Streams : Told(s)' => Told(s) /\ Stays(streams'[s], streams[s])
  <2>1. ASSUME NEW s \in Streams, Told(s)' PROVE Told(s) /\ Stays(streams'[s], streams[s])
    <3>1. streams'[s] = streams[s]
        BY <1>1, <1>5, <1>6, <2>1
    <3>8. tee'.cancelled = CancelledBy(u) /\ tee.cancelled \subseteq CancelledBy(u) /\ CancelledBy(u) \subseteq Halves
        BY <1>3
    <3>9. PICK a, b : a = tee.cancelled /\ b = CancelledBy(u)
        OBVIOUS
    <3>10. a \subseteq b /\ b \subseteq Halves
        BY <3>8, <3>9
    <3>11. a = Halves => b = Halves
        BY <3>10
    <3>2. tee.cancelled = Halves => tee'.cancelled = Halves
        BY <3>8, <3>9, <3>11
    <3>3. state["user"] = "cancelled" => state'["user"] = "cancelled"
        BY <1>3 DEF Readers, Users
    <3>4. NativeRaw(s) /\ call'.state = "head" /\ Listened' => call.state = "head" /\ Listened
        BY <1>1, <1>7
    <3>5. source.stopped => source'.stopped
        BY <1>3
    <3>6. tee.cancelled \subseteq tee'.cancelled /\ use' = use
        BY <1>1, <1>3
    <3>7. Told(s)
        BY <2>1, <3>2, <3>3, <3>4, <3>5, <3>6, ToldStays
    <3> QED BY <3>1, <3>7, LaterSame
  <2> QED BY <2>1
<1>9. \A s \in Streams : Fed(s)' <=> Fed(s)
    BY <1>1, FedStays
<1>10. \A s \in Streams : Softly(s, n)
    BY <1>1, <1>3, <1>4, <1>8, <1>9 DEF Softly
<1>11. Goes
    BY <1>1, <1>3 DEF Goes
<1>12. asks'["raw"] = asks["raw"] \/ \A q \in Loops \cap takers["raw"] : q = u
  <2>1. CASE Below(u) = {}
      BY <1>1, <2>1
  <2>2. CASE Below(u) # {}
    <3>1. "wrap" \in takers["raw"] /\ AtMostOne(takers["raw"]) /\ "wrap" \notin Loops
        BY <1>2, <1>6, <2>2, OneTaker DEF Loops
    <3> QED BY <3>1 DEF AtMostOne
  <2> QED BY <2>1, <2>2
<1>13. \A q \in Readers : q # u => Fine(q, n)'
  <2>1. \A q \in Readers : Fine(q, n)
      BY DEF Flows
  <2> QED BY <1>1, <1>3, <1>11, <1>12, <2>1, OthersRest
<1>14. Fine(u, n)'
  <2>1. Fine(u, n) /\ state[u] = "reading" /\ Given(u)' = Given(u) /\ StreamOf(u)' = StreamOf(u)
      BY <1>1, <1>2, UseStays DEF Flows, UserCancels, Given
  <2>2. u \in takers[StreamOf(u)]
      BY <2>1 DEF Frame, ReadersOK
  <2>3. Has(u, StreamOf(u), n)
      BY <2>1, <2>2 DEF Fine
  <2>4. Has(u, StreamOf(u), n)'
      BY <1>1, <1>3, <2>1, <2>3 DEF Has
  <2> QED BY <1>1, <1>2, <2>1, <2>2, <2>4 DEF Fine
<1>15. streams["body"].started => streams'["body"].started
    BY <1>2, <1>4 DEF Later
<1> QED BY <1>10, <1>13, <1>14, <1>15, SoftFlows DEF Flows

(* singleChunkStream: the one chunk and the end, when it starts.            *)
LEMMA OneChunkFlows ==
    ASSUME Frame, Frame', NEW n \in [Streams -> 0..NumChunks], Flows(n), StreamStarts("body"),
           Static, CanEnqueue(streams["body"])
    PROVE  \E h \in [Streams -> 0..NumChunks] : Flows(h)'
<1>1. "body" \in Streams /\ "raw" \in Streams
    BY DEF Streams
<1>2. PICK t : /\ ~streams["body"].started /\ streams' = [streams EXCEPT !["body"] = t] /\ t.started
               /\ Own("body", t, takers["body"], asks["body"])
               /\ \E v : /\ Own("body", v, takers["body"], asks["body"]) /\ CanEnqueue(v)
                         /\ Takes(v, streams["body"], 1) /\ Closes(t, v)
  <2>1. \A q : Stays(q, streams["body"]) /\ ~("body" = "body" /\ Static /\ CanEnqueue(streams["body"])) => FALSE
      OBVIOUS
  <2> QED BY <1>1, <2>1, StreamStartsIs
<1>3. PICK v : /\ Own("body", v, takers["body"], asks["body"]) /\ CanEnqueue(v)
               /\ Takes(v, streams["body"], 1) /\ Closes(t, v)
    BY <1>2
<1>4. /\ UNCHANGED <<use, opened, takers, asks, state, got, tee, byob, source, call>>
  <2>1. ~Native
      BY Forms DEF Frame, Types
  <2> QED BY <2>1 DEF StreamStarts
<1>5. streams'["body"] = t /\ \A s \in Streams : s # "body" => streams'[s] = streams[s]
    BY <1>1, <1>2 DEF Frame, Types
<1>6. source.made = 1 /\ source.ended = TRUE /\ 1 \in C /\ 1 \in Nat /\ 0 \in Nat
    BY ChunksAre, BodyAssumption DEF Frame, SourceOK, Types, C
<1>7. n["body"] = 0 /\ Line(streams["body"], 0, 1) /\ Sane(streams["body"])
    BY <1>1, <1>2, <1>6, StreamSane DEF Flows, Feeding, Feeds
<1>8. Holds(streams["body"], 0) = 0
  <2>1. Blank(streams["body"])
      BY <1>2 DEF Frame, OpenOK
  <2>2. Chunks(streams["body"].got) /\ streams["body"].got \in Seq(C \cup {End, Failed})
      BY <1>7 DEF Sane, CanEnqueue
  <2>3. \A i \in DOMAIN streams["body"].got : FALSE
      BY <2>1, <2>2 DEF Chunks, Blank
  <2>4. PICK g \in Seq(C \cup {End, Failed}) : g = streams["body"].got
      BY <2>2
  <2>5. ~(1 \in DOMAIN g) /\ Len(g) \in Nat
      BY <2>3, <2>4
  <2>6. Len(g) = 0
      BY <2>5
  <2>7. g = <<>>
      BY <2>6
  <2> QED BY <2>1, <2>4, <2>7, EmptyHolds DEF Blank
<1>9. Sane(v) /\ Sane(t)
    BY <1>2, <1>3, ScriptSane DEF Own
<1>10. Line(v, 0, 1) /\ Holds(v, 0) = 1
  <2>1. PICK z \in Nat, c \in C : z = 0 /\ c = 1
      BY <1>6
  <2>2. c \in Nat /\ c = Holds(streams["body"], z) + 1 /\ c <= c
      BY <1>6, <1>8, <2>1
  <2>3. Line(streams["body"], z, c) /\ Sane(streams["body"]) /\ Takes(v, streams["body"], c)
      BY <1>3, <1>7, <2>1
  <2>4. Line(v, z, c) /\ Holds(v, z) = c
      BY <1>4, <2>2, <2>3, LineTakes, CanEnqueue(streams["body"])
  <2> QED BY <2>1, <2>4
<1>11. Line(t, 0, 1) /\ ~CanEnqueue(t)
    BY <1>3, <1>6, <1>9, <1>10, QuietLine DEF Quiet, Closes
<1>12. Whole(t, 0, 1, TRUE)
    BY <1>3, <1>6, <1>9, <1>10, CloseIsWhole DEF Closes
<1>13. Feeds("body", n)'
    BY <1>4, <1>5, <1>6, <1>7, <1>11, <1>12 DEF Feeds
<1>14. ASSUME NEW s \in Streams, s # "body" PROVE Feeds(s, n)'
  <2>1. Stays(streams'[s], streams[s]) /\ Quiet(streams'[s], streams[s])
      BY <1>5, <1>14, LaterSame DEF Quiet
  <2>2. Fed(s)' <=> Fed(s)
      BY <1>4, FedStays
  <2>3. ~NativeRaw(s)
      BY Forms DEF Frame, Types, NativeRaw
  <2>4. Told(s)' => Told(s)
      BY <1>4, <2>3, ToldStays
  <2>5. Softly(s, n)
      BY <1>4, <2>1, <2>2, <2>4 DEF Softly
  <2> QED BY <2>5, SoftlyFeeds DEF Flows, Feeding
<1>15. Feeding(n)'
    BY <1>2, <1>5, <1>13, <1>14 DEF Feeding
<1>16. Goes
    BY <1>4 DEF Goes
<1>17. \A r \in Readers : Fine(r, n)'
    BY <1>4, <1>16, AllRest DEF Flows
<1> QED BY <1>15, <1>17 DEF Flows

LEMMA StreamStartsFlows ==
    ASSUME Frame, Frame', NEW n \in [Streams -> 0..NumChunks], Flows(n), Alone', NEW s \in Streams, StreamStarts(s)
    PROVE  \E h \in [Streams -> 0..NumChunks] : Flows(h)'
BY StartsFlows, OneChunkFlows

LEMMA SourceEnqueuesFlows ==
    ASSUME Frame, Frame', NEW n \in [Streams -> 0..NumChunks], Flows(n), SourceEnqueues
    PROVE  \E h \in [Streams -> 0..NumChunks] : Flows(h)'
<1>1. PICK t : t = Enqueued(Acts(streams["raw"]), source.made + 1)
    OBVIOUS
<1>2. /\ Later(t, streams["raw"]) /\ Takes(t, streams["raw"], source.made + 1)
      /\ source.made + 1 \in C /\ source'.made = source.made + 1 /\ source'.ended = source.ended
      /\ RawOnly(t) /\ call' = call
    BY <1>1, SourceEnqueuesIs
<1>3. SourceActs
    BY DEF SourceEnqueues
<1>4. CanEnqueue(streams["raw"]) /\ ~Static /\ source.ended = FALSE /\ "raw" \in Streams /\ "body" \in Streams
    BY <1>3, SourceIsOpen DEF Streams, Frame, Types
<1>5. /\ UNCHANGED <<use, opened, takers, asks, state, got, tee, byob>> /\ source'.stopped = source.stopped
      /\ streams' = [streams EXCEPT !["raw"] = t]
    BY <1>2 DEF RawOnly
<1>6. streams'["raw"] = t /\ \A s \in Streams : s # "raw" => streams'[s] = streams[s]
    BY <1>4, <1>5 DEF Frame, Types
<1>7. PICK m \in Nat : m = source.made
    BY <1>4, StreamSane
<1>8. PICK k \in Nat : k = m + 1 /\ m <= k
    OBVIOUS
<1>9. \A s \in Streams : /\ Line(streams[s], n[s], m) /\ Sane(streams[s]) /\ n[s] \in Nat
                         /\ takers[s] = {} => n[s] = 0
                         /\ Fed(s) /\ CanEnqueue(streams[s]) => Holds(streams[s], n[s]) = Above(s, n)
                         /\ Told(s) => Whole(streams[s], n[s], m, FALSE)
  <2> SUFFICES ASSUME NEW s \in Streams
               PROVE  /\ Line(streams[s], n[s], m) /\ Sane(streams[s]) /\ n[s] \in Nat
                      /\ takers[s] = {} => n[s] = 0
                      /\ Fed(s) /\ CanEnqueue(streams[s]) => Holds(streams[s], n[s]) = Above(s, n)
                      /\ Told(s) => Whole(streams[s], n[s], m, FALSE)
      OBVIOUS
  <2>1. Feeds(s, n)
      BY DEF Flows, Feeding
  <2>2. Told(s) => Whole(streams[s], n[s], m, FALSE)
      BY <1>4, <1>7, <2>1 DEF Feeds
  <2>3. Sane(streams[s]) /\ n[s] \in Nat
      BY StreamSane
  <2> QED BY <1>7, <2>1, <2>2, <2>3 DEF Feeds
<1>10. Holds(streams["raw"], n["raw"]) = m
    BY <1>4, <1>7, <1>9 DEF Fed, Above
<1>11. k \in C /\ k = Holds(streams["raw"], n["raw"]) + 1
    BY <1>2, <1>7, <1>8, <1>10
<1>12. Takes(t, streams["raw"], k) /\ CanEnqueue(t)
    BY <1>2, <1>7, <1>8 DEF Takes
<1>13. Line(t, n["raw"], k) /\ Holds(t, n["raw"]) = k
  <2>1. PICK x \in Nat, c \in C : x = n["raw"] /\ c = k
      BY <1>4, <1>9, <1>11
  <2>2. c = Holds(streams["raw"], x) + 1 /\ c <= k /\ m <= k
      BY <1>8, <1>11, <2>1
  <2>3. Line(streams["raw"], x, m) /\ Sane(streams["raw"]) /\ Takes(t, streams["raw"], c)
      BY <1>4, <1>9, <1>12, <2>1
  <2>4. Line(t, x, k) /\ Holds(t, x) = c
      BY <1>4, <2>2, <2>3, LineTakes
  <2> QED BY <2>1, <2>4
<1>14. Sane(t)
    BY <1>4, <1>6, SaneNext
<1>15. source'.made = k /\ source'.ended = FALSE
    BY <1>2, <1>4, <1>7, <1>8
<1>16. Feeds("raw", n)'
  <2>1. Whole(t, n["raw"], k, FALSE)
      BY <1>12, <1>14, OpenIsWhole
  <2>2. Above("raw", n)' = k
      BY <1>15 DEF Above
  <2>3. takers'["raw"] = {} => n["raw"] = 0
      BY <1>4, <1>5, <1>9
  <2> QED BY <1>6, <1>13, <1>15, <2>1, <2>2, <2>3 DEF Feeds
<1>17. ASSUME NEW s \in Streams, s # "raw" PROVE Feeds(s, n)'
  <2>1. Line(streams[s], n[s], k)
      BY <1>8, <1>9, MoreMade
  <2>2. Fed(s)' <=> Fed(s)
      BY <1>5, FedStays
  <2>3. ~NativeRaw(s)
      BY <1>17 DEF NativeRaw
  <2>4. Told(s)' => Told(s)
      BY <1>5, <2>3, ToldStays
  <2>5. Told(s)' => Whole(streams[s], n[s], k, FALSE)
      BY <1>9, <2>4, NotYetWhole
  <2>6. Above(s, n)' = Above(s, n)
      BY <1>5, <1>17, UseStays DEF Above
  <2>7. takers'[s] = {} => n[s] = 0
      BY <1>5, <1>9
  <2>8. streams'[s] = streams[s]
      BY <1>6, <1>17
  <2>9. Fed(s)' /\ CanEnqueue(streams[s]) => Holds(streams[s], n[s]) = Above(s, n)'
      BY <1>9, <2>2, <2>6
  <2> QED BY <1>15, <2>1, <2>5, <2>7, <2>8, <2>9 DEF Feeds
<1>18. Feeding(n)'
    BY <1>4, <1>6, <1>16, <1>17 DEF Flows, Feeding
<1>19. Goes
    BY <1>2, <1>4, <1>5 DEF Goes
<1>20. \A r \in Readers : Fine(r, n)'
    BY <1>5, <1>19, AllRest DEF Flows
<1> QED BY <1>18, <1>20 DEF Flows

-----------------------------------------------------------------------------
(* The flow goes on: an answer is heard.                                    *)

Heeds(x, n, t, k, a) ==
    /\ k \in 0..NumChunks /\ (a \in C => a = k /\ k = n[x] + 1 /\ k <= source.made) /\ (a \notin C => k = n[x])
    /\ Line(t, k, source.made)
    /\ CanEnqueue(t) => a \in C /\ CanEnqueue(streams[x]) /\ Holds(t, k) = Holds(streams[x], n[x])
    /\ Told(x) /\ (a = Failed => streams[x].state = "errored") => Whole(t, k, source.made, source.ended)
    /\ Told(x) /\ a = End => source.ended /\ n[x] = source.made

LEMMA HeardIs ==
    ASSUME Frame, NEW n \in [Streams -> 0..NumChunks], Flows(n), NEW x \in Streams, NEW t,
           HeardOff(t, streams[x]), NEW a \in C \cup {End, Failed}, a = Head(streams[x].got)
    PROVE  \E k : Heeds(x, n, t, k, a)
<1>1. PICK m \in 0..NumChunks : m = source.made
    BY DEF Frame, Types
<1>2. PICK j \in 0..NumChunks : j = n[x]
    OBVIOUS
<1>3. PICK s : s = streams[x]
    OBVIOUS
<1>4. m \in Nat /\ j \in Nat /\ Sane(s)
    BY <1>1, <1>2, <1>3, StreamSane, BodyAssumption
<1>5. Feeds(x, n)
    BY DEF Flows, Feeding
<1>6. Line(s, j, m) /\ HeardOff(t, s) /\ (Told(x) => Whole(s, j, m, source.ended)) /\ a = Head(s.got)
    BY <1>1, <1>2, <1>3, <1>5 DEF Feeds
<1>7. End \notin C /\ Failed \notin C /\ End # Failed
    BY ChunksAre
<1>8. (CanEnqueue(t) <=> CanEnqueue(s))
    BY <1>6 DEF HeardOff, CanEnqueue
<1>9. CASE a \in C
  <2>1. a = j + 1 /\ j + 1 <= m /\ Line(t, j + 1, m) /\ Holds(t, j + 1) = Holds(s, j)
      BY <1>4, <1>6, <1>9, HearsLine
  <2>2. Told(x) => Whole(t, j + 1, m, source.ended)
      BY <1>4, <1>6, <1>9, HearsWhole
  <2>3. j + 1 \in 0..NumChunks
      BY <1>1, <1>2, <2>1, BodyAssumption
  <2>4. Heeds(x, n, t, j + 1, a)
      BY <1>1, <1>2, <1>3, <1>7, <1>8, <1>9, <2>1, <2>2, <2>3 DEF Heeds
  <2> QED BY <2>4
<1>10. CASE a \notin C
  <2>1. Line(t, j, m) /\ ~CanEnqueue(s)
      BY <1>4, <1>6, <1>10, HearsLine
  <2>2. /\ Told(x) /\ a = End => source.ended /\ j = m /\ Whole(t, j, m, source.ended)
        /\ Told(x) /\ a = Failed /\ s.state = "errored" => Whole(t, j, m, source.ended)
      BY <1>4, <1>6, HearsWhole
  <2>3. Heeds(x, n, t, j, a)
      BY <1>1, <1>2, <1>3, <1>7, <1>8, <1>10, <2>1, <2>2 DEF Heeds
  <2> QED BY <2>3
<1> QED BY <1>9, <1>10

LEMMA HeardSane ==
    ASSUME NEW s, NEW t, Sane(s), HeardOff(t, s)
    PROVE  Sane(t)
<1>1. PICK g \in Seq(C \cup {End, Failed}) : g = s.got
    BY DEF Sane
<1>2. g # <<>> /\ t.got = Tail(g) /\ t.queue = s.queue /\ t.state = s.state
    BY <1>1 DEF HeardOff
<1>3. PICK d \in Seq(C \cup {End, Failed}) : d = Tail(g)
    BY <1>2
<1>4. \A i \in DOMAIN d : i + 1 \in DOMAIN g /\ d[i] = g[i + 1] /\ i \in Nat
    BY <1>2, <1>3
<1>5. \A i, j \in DOMAIN d : i < j /\ d[j] \in C => d[i] \in C
  <2> SUFFICES ASSUME NEW i \in DOMAIN d, NEW j \in DOMAIN d, i < j, d[j] \in C PROVE d[i] \in C
      OBVIOUS
  <2>1. i + 1 \in DOMAIN g /\ j + 1 \in DOMAIN g /\ i + 1 < j + 1 /\ g[j + 1] \in C
      BY <1>4
  <2>2. g[i + 1] \in C
      BY <1>1, <2>1 DEF Sane
  <2> QED BY <1>4, <2>2
<1>6. \A i \in DOMAIN d : d[i] = End => s.state = "closed"
    BY <1>1, <1>4 DEF Sane
<1>7. Chunks(g) => Chunks(d)
    BY <1>4 DEF Chunks
<1> QED BY <1>1, <1>2, <1>3, <1>5, <1>6, <1>7 DEF Sane

(* What hearing does to the stream that answers.                            *)
Hearing(x, n, t, k, a) ==
    /\ UNCHANGED <<use, opened, takers, source>> /\ takers[x] # {}
    /\ a = Head(streams[x].got) /\ HeardOff(t, streams[x]) /\ Heeds(x, n, t, k, a)
    /\ streams'[x] = t \/ Reads(streams'[x], t)
    /\ Told(x)' => Told(x) /\ (a = Failed => streams[x].state = "errored")

Hearkened(x, n, k, h) ==
    /\ h \in [Streams -> 0..NumChunks] /\ h[x] = k /\ \A s \in Streams : s # x => h[s] = n[s]
    /\ Feeds(x, h)'
    /\ x = "body" /\ ~streams["body"].started => h["body"] = 0
    /\ \A s \in Streams : Fed(s)' <=> Fed(s)
    /\ \A s \in Streams : Above(s, h)' = Above(s, h)

LEMMA HearingFeeds ==
    ASSUME Frame, Frame', NEW n \in [Streams -> 0..NumChunks], Flows(n), NEW x \in Streams, NEW t, NEW k, NEW a,
           Hearing(x, n, t, k, a)
    PROVE  \E h : h = [n EXCEPT ![x] = k] /\ Hearkened(x, n, k, h)
<1> PICK h : h = [n EXCEPT ![x] = k]
    OBVIOUS
<1>1. /\ UNCHANGED <<use, opened, takers, source>> /\ takers[x] # {}
      /\ a = Head(streams[x].got) /\ HeardOff(t, streams[x])
      /\ streams'[x] = t \/ Reads(streams'[x], t)
      /\ Told(x)' => Told(x) /\ (a = Failed => streams[x].state = "errored")
    BY DEF Hearing
<1>2. /\ k \in 0..NumChunks /\ (a \in C => a = k /\ k = n[x] + 1 /\ k <= source.made) /\ (a \notin C => k = n[x])
      /\ Line(t, k, source.made)
      /\ CanEnqueue(t) => a \in C /\ CanEnqueue(streams[x]) /\ Holds(t, k) = Holds(streams[x], n[x])
      /\ Told(x) /\ (a = Failed => streams[x].state = "errored") => Whole(t, k, source.made, source.ended)
    BY DEF Hearing, Heeds
<1>3. h \in [Streams -> 0..NumChunks] /\ h[x] = k /\ \A s \in Streams : s # x => h[s] = n[s]
    BY <1>2
<1>4. \A s \in Streams : Fed(s)' <=> Fed(s)
    BY <1>1, FedStays
<1>5. \A s \in Streams : Above(s, h)' = Above(s, h)
    BY <1>1, UseStays DEF Above
<1>6. Above(x, h) = Above(x, n)
  <2>1. Body \in Streams /\ Body \notin Halves /\ "raw" \in Streams
      BY Forms DEF Frame, Types, Streams, Halves
  <2>2. x = "raw" \/ x = "body" \/ x \in Halves
      BY DEF Streams, Halves
  <2> QED BY <1>3, <2>1, <2>2 DEF Above
<1>7. Sane(t) /\ Sane(streams[x]) /\ source.made \in Nat /\ k \in Nat
  <2>1. Sane(streams[x]) /\ source.made \in Nat
      BY StreamSane
  <2>2. Sane(t)
      BY <1>1, <2>1, HeardSane
  <2> QED BY <1>2, <2>1, <2>2, BodyAssumption
<1>8. /\ Line(streams'[x], k, source.made)
      /\ CanEnqueue(streams'[x]) => CanEnqueue(t) /\ Holds(streams'[x], k) = Holds(t, k)
      /\ Whole(t, k, source.made, source.ended) => Whole(streams'[x], k, source.made, source.ended)
  <2>1. CASE streams'[x] = t
      BY <1>2, <2>1
  <2>2. CASE Reads(streams'[x], t)
      BY <1>2, <1>7, <2>2, ReadIsLine, ReadIsWhole
  <2> QED BY <1>1, <2>1, <2>2
<1>9. Feeds(x, n)
    BY DEF Flows, Feeding
<1>10. Fed(x) /\ CanEnqueue(streams'[x]) => Holds(streams'[x], k) = Above(x, n)
    BY <1>2, <1>8, <1>9 DEF Feeds
<1>11. Told(x)' => Whole(streams'[x], k, source.made, source.ended)
    BY <1>1, <1>2, <1>8
<1>12. Feeds(x, h)'
    BY <1>1, <1>3, <1>4, <1>5, <1>6, <1>8, <1>10, <1>11 DEF Feeds
<1>13. x = "body" /\ ~streams["body"].started => h["body"] = 0
  <2> SUFFICES ASSUME x = "body", ~streams["body"].started PROVE h["body"] = 0
      OBVIOUS
  <2>1. Blank(streams["body"]) /\ n["body"] = 0
      BY DEF Frame, OpenOK, Flows, Feeding
  <2>2. PICK g \in Seq(C \cup {End, Failed}) : g = streams["body"].got
      BY <1>7 DEF Sane
  <2>3. g # <<>> /\ a = Head(g)
      BY <1>1, <2>2 DEF HeardOff
  <2>4. 1 \in DOMAIN g /\ Head(g) = g[1]
      BY <2>3
  <2>5. a \notin C
      BY <2>1, <2>2, <2>3, <2>4 DEF Blank
  <2> QED BY <1>2, <1>3, <2>1, <2>5
<1> QED BY <1>3, <1>4, <1>5, <1>12, <1>13 DEF Hearkened

(* A reader hears, and perhaps reads again.                                 *)
Hears(r, x, n, t, k, a) ==
    /\ r \in Readers /\ r \in takers[x] /\ Hearing(x, n, t, k, a) /\ UNCHANGED <<tee, call>>
    /\ \A s \in Streams : s # x => streams'[s] = streams[s]
    /\ Later(streams'[x], streams[x])
    /\ \A q \in Readers : q # r => state'[q] = state[q] /\ got'[q] = got[q]
    /\ r = "user" \/ byob' = byob
    /\ state[r] = "cancelled" => state'[r] = "cancelled"
    /\ x # "raw" => r \notin Loops /\ asks'["raw"] = asks["raw"]

LEMMA ReaderHears ==
    ASSUME Frame, Frame', Alone, NEW n \in [Streams -> 0..NumChunks], Flows(n),
           NEW r, NEW x \in Streams, NEW t, NEW k, NEW a, Hears(r, x, n, t, k, a), Fine(r, [n EXCEPT ![x] = k])'
    PROVE  \E h \in [Streams -> 0..NumChunks] : Flows(h)'
<1>1. PICK h : h = [n EXCEPT ![x] = k] /\ Hearkened(x, n, k, h)
  <2>1. Hearing(x, n, t, k, a)
      BY DEF Hears
  <2> QED BY <2>1, HearingFeeds
<1>2. /\ r \in Readers /\ r \in takers[x] /\ Hearing(x, n, t, k, a)
      /\ UNCHANGED <<use, opened, takers, source, tee, call>>
      /\ \A s \in Streams : s # x => streams'[s] = streams[s]
      /\ \A q \in Readers : q # r => state'[q] = state[q] /\ got'[q] = got[q]
      /\ r = "user" \/ byob' = byob
      /\ state[r] = "cancelled" => state'[r] = "cancelled"
      /\ x # "raw" => r \notin Loops /\ asks'["raw"] = asks["raw"]
      /\ Later(streams'[x], streams[x])
    BY DEF Hears, Hearing
<1>3. /\ h \in [Streams -> 0..NumChunks] /\ h[x] = k /\ \A s \in Streams : s # x => h[s] = n[s]
      /\ Feeds(x, h)'
      /\ x = "body" /\ ~streams["body"].started => h["body"] = 0
      /\ \A s \in Streams : Fed(s)' <=> Fed(s)
      /\ \A s \in Streams : Above(s, h)' = Above(s, h)
    BY <1>1 DEF Hearkened
<1>4. /\ AtMostOne(takers[x]) /\ Body \in Streams /\ "raw" \in Streams /\ "body" \in Streams
      /\ "user" \in Readers /\ \A q \in Loops : q \in Readers
  <2>1. Body \in Streams /\ "raw" \in Streams /\ "body" \in Streams
      BY Forms DEF Frame, Types, Streams
  <2> QED BY <2>1, OneTaker DEF Readers, Users
<1>5. r # "wrap" /\ r # "tee"
    BY <1>2 DEF Readers, Loops, Users
<1>6. \A s \in Streams : Fed(s) => Above(s, h) = Above(s, n)
  <2>1. "wrap" \in takers["raw"] => x # "raw"
      BY <1>2, <1>4, <1>5 DEF AtMostOne
  <2>2. \A s \in Halves : s \in opened => x # Body
      BY <1>2, <1>5 DEF Frame, OpenOK
  <2>3. \A s \in Streams : s = "raw" \/ s = "body" \/ s \in Halves
      BY DEF Streams, Halves
  <2>4. \A s \in Halves : s # "raw" /\ s # "body"
      BY DEF Halves
  <2> QED BY <1>3, <1>4, <2>1, <2>2, <2>3, <2>4 DEF Fed, Above
<1>7. ASSUME NEW s \in Streams, s # x PROVE Feeds(s, h)'
  <2>1. streams'[s] = streams[s] /\ h[s] = n[s] /\ Feeds(s, n)
      BY <1>2, <1>3, <1>7 DEF Flows, Feeding
  <2>2. NativeRaw(s) /\ call'.state = "head" /\ Listened' => call.state = "head" /\ Listened
    <3> SUFFICES ASSUME NativeRaw(s), call'.state = "head", Listened' PROVE Listened
        BY <1>2
    <3>1. x # "raw" /\ \A q \in Loops : state'[q] = state[q]
        BY <1>2, <1>4, <1>7 DEF NativeRaw
    <3>2. CanEnqueue(streams'["body"]) => CanEnqueue(streams["body"])
        BY <1>2, <1>4 DEF Later
    <3> QED BY <1>2, <3>1, <3>2, ListenedRaw
  <2>3. state["user"] = "cancelled" => state'["user"] = "cancelled"
      BY <1>2, <1>4
  <2>4. Told(s)' => Told(s)
      BY <1>2, <2>2, <2>3, ToldStays
  <2> QED BY <1>2, <1>3, <1>6, <2>1, <2>4 DEF Feeds
<1>8. ~streams'["body"].started => h["body"] = 0
  <2>1. streams'["body"].started = streams["body"].started
      BY <1>2, <1>4 DEF Later
  <2> QED BY <1>3, <1>4, <2>1 DEF Flows, Feeding
<1>9. Feeding(h)'
    BY <1>3, <1>7, <1>8 DEF Feeding
<1>10. Goes
    BY <1>2 DEF Goes
<1>11. \A q \in Readers : q # r => Fine(q, h)'
  <2>1. \A q \in Readers : Fine(q, n)
      BY DEF Flows
  <2>2. \A s \in Streams, q \in Readers : q # r /\ q \in takers[s] => h[s] = n[s]
      BY <1>2, <1>3, <1>4 DEF AtMostOne
  <2>3. asks'["raw"] = asks["raw"] \/ \A q \in Loops \cap takers["raw"] : q = r
      BY <1>2, <1>4 DEF AtMostOne
  <2>4. \A s \in Streams, q \in Readers : q # r => (q \in takers'[s] <=> q \in takers[s])
      BY <1>2
  <2> QED BY <1>2, <1>10, <2>1, <2>2, <2>3, <2>4, OthersRest
<1>12. Fine(r, h)'
    BY <1>1
<1> QED BY <1>3, <1>9, <1>11, <1>12 DEF Flows

(* An error is the answer of a stream that failed, but for the native one.  *)
LEMMA FailedIsErrored ==
    ASSUME Frame, NEW x \in Streams, ~NativeRaw(x), streams[x].got # <<>>, Head(streams[x].got) = Failed
    PROVE  streams[x].state = "errored"
<1>1. StreamOK(streams[x], C)
    BY OwnPort DEF Own
<1>2. PICK g \in Seq(C \cup {End, Failed}) : g = streams[x].got
    BY StreamSane DEF Sane
<1>3. 1 \in DOMAIN g /\ g[1] = Failed
    BY <1>2
<1> QED BY <1>1, <1>2, <1>3 DEF StreamOK

(* A body that someone else has taken is wanted.                            *)
LEMMA TakenIsWanted ==
    ASSUME Frame, NEW r, r \in takers[Body], r # "user", r # "tee"
    PROVE  ~Unwanted
<1>1. Body \in Streams /\ ~NativeRaw(Body) /\ StreamOf("user") = Body /\ StreamOf("one") = "one"
    BY Forms DEF Frame, Types, StreamOf
<1>2. AtMostOne(takers[Body])
    BY <1>1 DEF Frame, PortsOK, Port
<1>3. state["user"] # "cancelled"
  <2>1. state["user"] = "cancelled" => "user" \in takers[StreamOf("user")]
      BY DEF Frame, ReadersOK, Users
  <2> QED BY <1>1, <1>2, <2>1 DEF AtMostOne
<1>4. tee.cancelled # Halves
  <2>1. "one" \in tee.cancelled => state["one"] = "cancelled"
      BY DEF Frame, TeeOK, Halves
  <2>2. state["one"] = "cancelled" => "one" \in takers["one"]
      BY <1>1 DEF Frame, ReadersOK, Users
  <2>3. "one" \in takers["one"] => "one" \in opened
      BY DEF Frame, OpenOK, Streams
  <2>4. "one" \in opened => takers[Body] = {"tee"}
      BY DEF Frame, OpenOK, Halves
  <2> QED BY <2>1, <2>2, <2>3, <2>4 DEF Halves
<1> QED BY <1>3, <1>4 DEF Unwanted

(* A loop that reads is told.                                               *)
LEMMA LoopIsTold ==
    ASSUME Frame, Alone, NEW r \in Loops, r \in takers["raw"], state[r] = "reading"
    PROVE  Told("raw")
<1>1. AtMostOne(takers["raw"]) /\ "raw" \in Streams /\ r # "wrap" /\ r # "user" /\ r # "tee" /\ "raw" \notin Halves
    BY OneTaker DEF Streams, Loops, Halves
<1>2. CASE Native
  <2>1. call.state = "head"
      BY <1>1 DEF Frame, CallOK
  <2>2. ~source.stopped
      BY <1>1, <1>2 DEF Frame, StopOK, AtMostOne
  <2>3. Listened
      BY DEF Listened
  <2> QED BY <1>2, <2>1, <2>2, <2>3 DEF Told, NativeRaw
<1>3. CASE ~Native
  <2>1. "raw" = Body => ~Unwanted
      BY <1>1, TakenIsWanted
  <2> QED BY <1>1, <1>3, <2>1 DEF Told, NativeRaw
<1> QED BY <1>2, <1>3

LEMMA LoopHearsFlows ==
    ASSUME Frame, Frame', Alone, NEW n \in [Streams -> 0..NumChunks], Flows(n), NEW r \in Loops, LoopHears(r)
    PROVE  \E h \in [Streams -> 0..NumChunks] : Flows(h)'
<1>1. PICK u, b :
               /\ Port("raw", u, takers["raw"], b, source.stopped) /\ Later(u, streams["raw"])
               /\ streams' = [streams EXCEPT !["raw"] = u] /\ asks' = [asks EXCEPT !["raw"] = b]
               /\ \/ /\ Answer("raw") \in {End, Failed} /\ u = Taken("raw") /\ b = Tail(asks["raw"])
                     /\ state' = [state EXCEPT ![r] = Outcome(Answer("raw"))] /\ got' = got
                  \/ /\ Answer("raw") \in C /\ Reads(u, Taken("raw")) /\ state' = state
                     /\ got' = [got EXCEPT ![r] = @ \o Bytes(Answer("raw"))]
                     /\ Len(asks["raw"]) = 1 => Len(b) = 1
    BY LoopHearsIs
<1>2. "raw" \in Streams /\ r \in Readers /\ r # "copy" /\ Heard(r, "raw") /\ r \notin Users /\ r # "user"
    BY LoopTakes DEF LoopHears, Users
<1>3. /\ HeardOff(Taken("raw"), streams["raw"]) /\ r \in takers["raw"]
      /\ Answer("raw") = Head(streams["raw"].got) /\ Answer("raw") \in C \cup {End, Failed}
      /\ Len(Tail(asks["raw"])) = Len(asks["raw"]) - 1 /\ Len(asks["raw"]) \in Nat \ {0}
    BY <1>2, HearIs
<1>4. UNCHANGED <<use, opened, takers, tee, byob, source, call>>
    BY DEF LoopHears
<1>5. PICK x : x = "raw"
    OBVIOUS
<1>6. PICK t : t = Taken(x)
    OBVIOUS
<1>7. PICK a \in C \cup {End, Failed} : a = Answer(x)
    BY <1>3, <1>5
<1>8. PICK k : Heeds(x, n, t, k, a)
  <2>1. HeardOff(t, streams[x]) /\ a = Head(streams[x].got) /\ x \in Streams
      BY <1>2, <1>3, <1>5, <1>6, <1>7
  <2> QED BY <2>1, HeardIs
<1>9. PICK h : h = [n EXCEPT ![x] = k]
    OBVIOUS
<1>10. /\ streams'[x] = u /\ \A s \in Streams : s # x => streams'[s] = streams[s]
       /\ asks'["raw"] = b
       /\ \A q \in Readers : q # r => state'[q] = state[q] /\ got'[q] = got[q]
    BY <1>1, <1>2, <1>5 DEF Frame, Types
<1>11. /\ AtMostOne(takers["raw"]) /\ Has(r, "raw", n) /\ state[r] \notin {"idle", "cancelled"}
       /\ Len(asks["raw"]) = 1 /\ state[r] = "reading"
       /\ state[r] \in {"idle", "reading", "whole", "failed", "cancelled"}
  <2>1. Fine(r, n)
      BY <1>2 DEF Flows
  <2>2. Has(r, "raw", n) /\ Len(asks["raw"]) = IF state[r] = "reading" THEN 1 ELSE 0
      BY <1>3, <2>1 DEF Fine
  <2>3. AtMostOne(takers["raw"])
      BY <1>2, OneTaker
  <2>4. state[r] = "reading" /\ Len(asks["raw"]) = 1
      BY <1>3, <2>2
  <2> QED BY <2>2, <2>3, <2>4
<1>12. Told(x)
    BY <1>3, <1>5, <1>11, LoopIsTold
<1>13. a \in {End, Failed} => a \notin C /\ (a = End => Outcome(a) = "whole") /\ (a = Failed => Outcome(a) = "failed")
    BY ChunksAre DEF Outcome
<1>14. /\ streams'[x] = t \/ Reads(streams'[x], t)
       /\ Told(x)' => Told(x) /\ (a = Failed => streams[x].state = "errored")
       /\ Has(r, "raw", h)' /\ Len(asks'["raw"]) = IF state'[r] = "reading" THEN 1 ELSE 0
  <2>1. CASE a \in {End, Failed}
    <3>1. /\ u = t /\ b = Tail(asks["raw"]) /\ state'[r] = Outcome(a) /\ got' = got
        BY <1>1, <1>2, <1>5, <1>6, <1>7, <1>13, <2>1 DEF Frame, Types
    <3>2. Told(x)' => Told(x) /\ (a = Failed => streams[x].state = "errored")
      <4> SUFFICES ASSUME Told(x)' PROVE Told(x) /\ (a = Failed => streams[x].state = "errored")
          OBVIOUS
      <4>1. ~Native
        <5> SUFFICES ASSUME Native PROVE FALSE
            OBVIOUS
        <5>1. Listened'
            BY <1>4, <1>5, UseStays DEF Told, NativeRaw
        <5>2. takers["raw"] # {} /\ "wrap" \notin takers["raw"] /\ \A q \in Loops \cap takers["raw"] : q = r
            BY <1>3, <1>11, <1>2 DEF AtMostOne, Loops
        <5> QED BY <1>4, <1>13, <2>1, <3>1, <5>1, <5>2 DEF Listened
      <4>2. ~NativeRaw(x) /\ streams[x].got # <<>>
          BY <4>1, <1>3, <1>5 DEF NativeRaw, HeardOff
      <4> QED BY <1>2, <1>3, <1>5, <1>7, <1>12, <4>2, FailedIsErrored
    <3>3. k = n[x] /\ (a = End => source.ended /\ n[x] = source.made)
        BY <1>8, <1>12, <1>13, <2>1 DEF Heeds
    <3>4. h["raw"] = n["raw"]
        BY <1>2, <1>5, <1>9, <3>3
    <3>5. Given(r)' = Given(r)
        BY <1>2, <3>1 DEF Given
    <3>6. Has(r, "raw", h)'
        BY <1>2, <1>4, <1>5, <1>11, <1>13, <2>1, <3>1, <3>3, <3>4, <3>5 DEF Has
    <3>7. Len(asks'["raw"]) = 0 /\ state'[r] # "reading"
        BY <1>3, <1>10, <1>11, <1>13, <2>1, <3>1
    <3> QED BY <1>10, <3>1, <3>2, <3>6, <3>7
  <2>2. CASE a \in C
    <3>1. /\ Reads(u, t) /\ state' = state /\ got' = [got EXCEPT ![r] = @ \o Bytes(a)] /\ Len(b) = 1
        BY <1>1, <1>5, <1>6, <1>7, <1>11, <1>13, <2>2
    <3>2. Told(x)' => Told(x) /\ (a = Failed => streams[x].state = "errored")
        BY <1>12, <1>13, <2>2
    <3>3. a = k /\ k = n[x] + 1 /\ k <= source.made
        BY <1>8, <2>2 DEF Heeds
    <3>4. PICK j \in 0..NumChunks : j = n["raw"]
        BY <1>2
    <3>5. PICK g : g = got[r]
        OBVIOUS
    <3>6. h["raw"] = j + 1 /\ k = j + 1 /\ j < NumChunks
      <4>1. k \in 0..NumChunks
          BY <1>8 DEF Heeds
      <4> QED BY <1>2, <1>5, <1>9, <3>3, <3>4, <4>1, BodyAssumption
    <3>7. g = First(j)
        BY <1>2, <1>11, <3>4, <3>5 DEF Has, Given
    <3>8. g \o Bytes(j + 1) = First(j + 1)
        BY <3>6, <3>7, MoreBytes
    <3>9. got'[r] = g \o Bytes(j + 1)
        BY <1>2, <3>1, <3>3, <3>5, <3>6 DEF Frame, Types
    <3>10. Given(r)' = First(h["raw"])'
        BY <1>2, <3>6, <3>8, <3>9 DEF Given, First, Bytes
    <3>11. Has(r, "raw", h)'
        BY <1>2, <1>11, <3>1, <3>10 DEF Has
    <3>12. Len(asks'["raw"]) = 1 /\ state'[r] = "reading"
        BY <1>10, <1>11, <3>1
    <3> QED BY <1>10, <3>1, <3>2, <3>11, <3>12
  <2> QED BY <1>7, <1>10, <2>1, <2>2
<1>15. Hearing(x, n, t, k, a)
    BY <1>3, <1>4, <1>5, <1>6, <1>7, <1>8, <1>14 DEF Hearing
<1>16. Hears(r, x, n, t, k, a)
    BY <1>1, <1>2, <1>3, <1>4, <1>5, <1>10, <1>11, <1>15 DEF Hears
<1>17. Fine(r, h)'
    BY <1>2, <1>3, <1>4, <1>14 DEF Fine
<1> QED BY <1>2, <1>5, <1>9, <1>16, <1>17, ReaderHears

(* A user that has not cancelled is told.                                   *)
LEMMA UserIsTold ==
    ASSUME Frame, NEW u \in Users, u \in takers[StreamOf(u)], state[u] # "cancelled"
    PROVE  Told(StreamOf(u))
<1>1. Body \in Streams /\ ~NativeRaw(Body) /\ Body \notin Halves /\ ~NativeRaw(StreamOf(u)) /\ "raw" \notin Halves
    BY Forms DEF Frame, Types, Halves
<1>2. CASE u = "user"
  <2>1. StreamOf(u) = Body /\ u \in takers[Body]
      BY <1>2 DEF StreamOf
  <2>2. AtMostOne(takers[Body])
      BY <1>1 DEF Frame, PortsOK, Port
  <2>3. takers[Body] # {"tee"}
      BY <1>2, <2>1
  <2>4. "one" \notin opened
      BY <2>3 DEF Frame, OpenOK, Halves
  <2>5. takers["one"] = {}
      BY <2>4 DEF Frame, OpenOK, Streams
  <2>6. StreamOf("one") = "one" /\ "one" \in Users /\ "one" \in Halves
      BY DEF StreamOf, Users, Halves
  <2>7. state["one"] # "cancelled"
      BY <2>5, <2>6 DEF Frame, ReadersOK
  <2>8. tee.cancelled # Halves
      BY <2>6, <2>7 DEF Frame, TeeOK
  <2> QED BY <1>1, <1>2, <2>1, <2>8 DEF Told, Unwanted
<1>3. CASE u # "user"
  <2>1. u \in Halves /\ StreamOf(u) = u
      BY <1>3 DEF Users, Halves, StreamOf
  <2>2. u \notin tee.cancelled
      BY <2>1 DEF Frame, TeeOK
  <2> QED BY <1>1, <2>1, <2>2 DEF Told
<1> QED BY <1>2, <1>3

(* What fills a view, and what is kept of it, is given.                     *)
LEMMA UserFills ==
    ASSUME Frame, NEW u \in Users, NEW b \in Seq(Byte), Fill(u, b), Byob(u) => byob.left = <<>>
    PROVE  Given(u)' = got[u] \o b /\ Given(u) = got[u]
<1>1. /\ Byob(u) => got'[u] \o byob'.left = got[u] \o b
      /\ ~Byob(u) => byob' = byob /\ got'[u] = got[u] \o b
    BY FillIs
<1>2. u = "user" => byob.left = <<>>
    BY DEF Byob, Frame, ReadersOK
<1>3. PICK g \in Seq(Byte) : g = got[u]
    BY UserTakes DEF Frame, Types
<1>4. g \o <<>> = g
    BY <1>3
<1>5. Given(u) = got[u]
    BY <1>2, <1>3, <1>4 DEF Given
<1>6. CASE Byob(u)
    BY <1>1, <1>5, <1>6 DEF Byob, Given
<1>7. CASE ~Byob(u)
  <2>1. PICK d : d = g \o b
      OBVIOUS
  <2>2. d \in Seq(Byte)
      BY <1>3, <2>1
  <2>3. d \o <<>> = d
      BY <2>2
  <2>4. got'[u] = d
      BY <1>1, <1>3, <1>7, <2>1
  <2>5. u = "user" => byob'.left = <<>>
      BY <1>1, <1>2, <1>7
  <2>6. Given(u)' = d
      BY <2>3, <2>4, <2>5 DEF Given
  <2> QED BY <1>3, <1>5, <2>1, <2>6
<1> QED BY <1>6, <1>7

LEMMA UserHeardIs ==
    ASSUME Frame, NEW u \in Users, UserHears(u) \/ UserOverwrites(u), NEW x \in Streams, x = StreamOf(u),
           NEW a \in C \cup {End, Failed}, a = Answer(x)
    PROVE  /\ \A q \in Readers : q # u => got'[q] = got[q]
           /\ u = "user" \/ byob' = byob
           /\ \/ /\ a \in {End, Failed} /\ got' = got /\ byob' = byob
                 /\ state'[u] = IF Settled(u) THEN state[u] ELSE Outcome(a)
              \/ /\ a \in C /\ state' = state
                 /\ Given(u)' = got[u] \o Bytes(a) /\ Given(u) = got[u] /\ byob'.lost = byob.lost
              \/ a \in C /\ state' = state /\ u = "user" /\ byob'.lost
<1>1. u \in Readers /\ a \in {End, Failed} <=> a \notin C
    BY UserTakes, ChunksAre
<1>2. CASE UserHears(u) /\ a \in {End, Failed}
  <2>1. state' = [state EXCEPT ![u] = IF Settled(u) THEN @ ELSE Outcome(a)] /\ got' = got /\ byob' = byob
      BY <1>2 DEF UserHears
  <2>2. u \in Readers
      BY UserTakes
  <2> QED BY <1>2, <2>1, <2>2 DEF Frame, Types
<1>3. CASE UserHears(u) /\ a \in C
  <2>1. a \notin {End, Failed}
      BY <1>3, ChunksAre
  <2>2. (Byob(u) => byob.left = <<>>) /\ Fill(u, Bytes(a)) /\ state' = state
      BY <1>3, <2>1 DEF UserHears
  <2>3. PICK b \in Seq(Byte) : b = Bytes(a)
      BY <1>3, BytesAre
  <2>4. Fill(u, b)
      BY <2>2, <2>3
  <2>5. Given(u)' = got[u] \o b /\ Given(u) = got[u]
      BY <2>2, <2>4, UserFills
  <2>6. /\ byob'.lost = byob.lost /\ (\A q \in Readers : q # u => got'[q] = got[q]) /\ (u # "user" => byob' = byob)
      BY <2>4, FillIs
  <2> QED BY <1>3, <2>2, <2>3, <2>5, <2>6
<1>4. CASE UserOverwrites(u)
  <2>1. Byob(u) /\ state' = state /\ a \notin {End, Failed}
      BY <1>4 DEF UserOverwrites
  <2>2. u = "user"
      BY <2>1 DEF Byob
  <2>3. byob'.lost
      BY <1>4 DEF UserOverwrites
  <2>4. \A q \in Readers : q # u => got'[q] = got[q]
      BY <1>4 DEF UserOverwrites, Frame, Types
  <2> QED BY <2>1, <2>2, <2>3, <2>4
<1> QED BY <1>2, <1>3, <1>4

LEMMA UserHearsFlows ==
    ASSUME Frame, Frame', Alone, NEW n \in [Streams -> 0..NumChunks], Flows(n), NEW u \in Users,
           UserHears(u) \/ UserOverwrites(u)
    PROVE  \E h \in [Streams -> 0..NumChunks] : Flows(h)'
<1>1. PICK x \in Streams : x = StreamOf(u)
    BY UserTakes
<1>2. ~NativeRaw(x) /\ u \in Readers /\ u # "copy" /\ u \notin Loops
    BY <1>1, UserTakes
<1>3. PICK t : t = Taken(x)
    OBVIOUS
<1>4. /\ Moves(u, x, t, takers[x], Tail(asks[x])) /\ HeardOff(t, streams[x])
      /\ takers' = takers /\ u \in takers[x] /\ Answer(x) \in C \cup {End, Failed}
    BY <1>1, <1>3, UserHearsIs
<1>5. PICK a \in C \cup {End, Failed} : a = Answer(x)
    BY <1>4
<1>6. a = Head(streams[x].got)
    BY <1>5 DEF Answer
<1>7. PICK k : Heeds(x, n, t, k, a)
    BY <1>4, <1>6, HeardIs
<1>8. PICK h : h = [n EXCEPT ![x] = k]
    OBVIOUS
<1>9. /\ UNCHANGED <<use, opened, tee, source, call>> /\ Later(t, streams[x])
      /\ state'[u] = "cancelled" <=> state[u] = "cancelled"
      /\ \A q \in Readers : q # u => state'[q] = state[q]
      /\ asks' = [asks EXCEPT ![x] = Tail(asks[x])]
    BY <1>4 DEF Moves, Turns
<1>10. /\ streams'[x] = t /\ \A s \in Streams : s # x => streams'[s] = streams[s] /\ asks'[s] = asks[s]
  <2>1. PICK kk : kk = takers[x]
      OBVIOUS
  <2>2. PICK b : b = Tail(asks[x])
      OBVIOUS
  <2>3. Moves(u, x, t, kk, b)
      BY <1>4, <2>1, <2>2
  <2> QED BY <2>3, ReaderMoves
<1>11. /\ \A q \in Readers : q # u => got'[q] = got[q]
       /\ u = "user" \/ byob' = byob
       /\ \/ /\ a \in {End, Failed} /\ got' = got /\ byob' = byob
             /\ state'[u] = IF Settled(u) THEN state[u] ELSE Outcome(a)
          \/ a \in C /\ state' = state /\ Given(u)' = got[u] \o Bytes(a) /\ Given(u) = got[u] /\ byob'.lost = byob.lost
          \/ a \in C /\ state' = state /\ u = "user" /\ byob'.lost
    BY <1>1, <1>5, UserHeardIs
<1>12. Told(x)' => Told(x)
  <2>1. state["user"] = "cancelled" => state'["user"] = "cancelled"
      BY <1>9 DEF Readers, Users
  <2> QED BY <1>2, <1>9, <2>1, ToldStays
<1>13. a = Failed => streams[x].state = "errored"
    BY <1>2, <1>4, <1>6, FailedIsErrored DEF HeardOff
<1>14. Hearing(x, n, t, k, a)
    BY <1>4, <1>6, <1>7, <1>9, <1>10, <1>12, <1>13 DEF Hearing
<1>15. "raw" \in Streams
    BY DEF Streams
<1>16. Hears(u, x, n, t, k, a)
    BY <1>2, <1>4, <1>9, <1>10, <1>11, <1>14, <1>15 DEF Hears
<1>17. /\ Has(u, x, n) /\ state[u] \in {"reading", "whole", "failed", "cancelled"}
       /\ state[u] = "reading" => Told(x)
  <2>1. Fine(u, n)
      BY <1>2 DEF Flows
  <2>2. Has(u, x, n)
      BY <1>1, <1>4, <2>1 DEF Fine
  <2>3. state[u] \in {"idle", "reading", "whole", "failed", "cancelled"}
      BY <1>2 DEF Frame, Types
  <2>4. state[u] # "idle"
      BY <1>2, <1>4 DEF Frame, ReadersOK
  <2>5. state[u] = "reading" => Told(x)
      BY <1>1, <1>4, UserIsTold
  <2> QED BY <2>2, <2>3, <2>4, <2>5
<1>18. Has(u, x, h)'
  <2>1. CASE a \in {End, Failed}
    <3>1. a \notin C /\ (a = End => Outcome(a) = "whole") /\ (a = Failed => Outcome(a) = "failed")
        BY <2>1, ChunksAre DEF Outcome
    <3>2. k = n[x] /\ (Told(x) /\ a = End => source.ended /\ n[x] = source.made)
        BY <1>7, <3>1 DEF Heeds
    <3>3. h[x] = n[x] /\ got' = got /\ byob' = byob /\ state'[u] = IF Settled(u) THEN state[u] ELSE Outcome(a)
        BY <1>8, <1>11, <3>1, <3>2
    <3>4. Given(u)' = Given(u)
        BY <3>3 DEF Given
    <3>5. First(h[x])' = First(n[x])
        BY <3>3 DEF First, Bytes
    <3>6. state'[u] = "whole" => source.ended /\ n[x] = source.made
        BY <1>17, <2>1, <3>1, <3>2, <3>3 DEF Settled, Has
    <3> QED BY <1>9, <1>17, <3>3, <3>4, <3>5, <3>6 DEF Has
  <2>2. CASE a \in C
    <3>1. a = k /\ k = n[x] + 1 /\ k <= source.made /\ k \in 0..NumChunks
        BY <1>7, <2>2 DEF Heeds
    <3>2. a \notin {End, Failed}
        BY <2>2, ChunksAre
    <3>3. PICK j \in 0..NumChunks : j = n[x]
        OBVIOUS
    <3>4. PICK m \in 0..NumChunks : m = source.made
        BY DEF Frame, Types
    <3>5. h[x] = j + 1 /\ j < NumChunks /\ j + 1 <= m /\ j # m
        BY <1>8, <3>1, <3>3, <3>4, BodyAssumption
    <3>6. state[u] # "whole" /\ state' = state
        BY <1>11, <1>17, <3>2, <3>3, <3>4, <3>5 DEF Has
    <3>7. CASE Given(u)' = got[u] \o Bytes(a) /\ Given(u) = got[u] /\ byob'.lost = byob.lost
      <4>1. u = "user" /\ byob.lost => byob'.lost
          BY <3>7
      <4>2. CASE ~(u = "user" /\ byob.lost)
        <5>1. PICK g : g = got[u]
            OBVIOUS
        <5>2. g = First(j)
            BY <1>17, <3>3, <3>7, <4>2, <5>1 DEF Has
        <5>3. g \o Bytes(j + 1) = First(j + 1)
            BY <3>5, <5>2, MoreBytes
        <5>4. Given(u)' = First(j + 1)
            BY <3>1, <3>3, <3>7, <5>1, <5>3
        <5>5. First(h[x])' = First(j + 1)
            BY <3>5 DEF First, Bytes
        <5> QED BY <3>6, <5>4, <5>5 DEF Has
      <4> QED BY <3>6, <4>1, <4>2 DEF Has
    <3>8. CASE u = "user" /\ byob'.lost
        BY <3>6, <3>8 DEF Has
    <3> QED BY <1>11, <3>2, <3>7, <3>8
  <2> QED BY <2>1, <2>2
<1>19. Fine(u, h)'
  <2>1. StreamOf(u)' = x
      BY <1>1, <1>9, UseStays
  <2> QED BY <1>2, <1>4, <1>18, <2>1 DEF Fine
<1> QED BY <1>8, <1>16, <1>19, ReaderHears

(* What a stream makes of an answer from above, and what is left as it was. *)
Getting(s, n, h, a) ==
    /\ UNCHANGED <<use, takers, source>> /\ s \in Streams /\ h[s] = n[s] /\ a \in C \cup {End, Failed}
    /\ Later(streams'[s], streams[s]) /\ Gets(streams'[s], streams[s], a)
    /\ Fed(s) /\ (Told(s)' => Told(s))
    /\ a \in C => a = Above(s, n) + 1 /\ a <= source.made /\ Above(s, h)' = a
    /\ a = End /\ Told(s) /\ CanEnqueue(streams[s]) => source.ended /\ Above(s, n) = source.made

LEMMA GetsFeeds ==
    ASSUME Frame, Frame', NEW n \in [Streams -> 0..NumChunks], Flows(n), NEW s, NEW h, NEW a, Getting(s, n, h, a)
    PROVE  Feeds(s, h)'
<1>1. s \in Streams /\ h[s] = n[s] /\ UNCHANGED <<use, takers, source>> /\ (Told(s)' => Told(s))
    BY DEF Getting
<1>2. PICK j \in Nat : j = n[s]
    BY <1>1
<1>3. PICK m \in Nat : m = source.made
    BY <1>1, StreamSane
<1>4. PICK v : v = streams[s]
    OBVIOUS
<1>5. PICK t : t = streams'[s]
    OBVIOUS
<1>6. PICK e : e = source.ended
    OBVIOUS
<1>7. Sane(v) /\ Sane(t)
    BY <1>1, <1>4, <1>5, StreamSane, SaneNext
<1>8. /\ Line(v, j, m) /\ (CanEnqueue(v) => Holds(v, j) = Above(s, n)) /\ (Told(s) => Whole(v, j, m, e))
      /\ takers[s] = {} => j = 0
  <2>1. Feeds(s, n) /\ Fed(s)
      BY <1>1 DEF Flows, Feeding, Getting
  <2> QED BY <1>2, <1>3, <1>4, <1>6, <2>1 DEF Feeds
<1>9. /\ Later(t, v) /\ Gets(t, v, a)
      /\ a \in C => a = Above(s, n) + 1 /\ a <= m /\ Above(s, h)' = a
      /\ a = End /\ Told(s) /\ CanEnqueue(v) => e /\ Above(s, n) = m
    BY <1>3, <1>4, <1>5, <1>6 DEF Getting
<1>10. Line(t, j, m) /\ (CanEnqueue(t) => Holds(t, j) = Above(s, h)') /\ (Told(s) => Whole(t, j, m, e))
  <2>1. CASE a \in C /\ CanEnqueue(v) /\ Takes(t, v, a)
    <3>1. a = Holds(v, j) + 1 /\ a <= m /\ a \in C /\ Above(s, h)' = a
        BY <1>8, <1>9, <2>1
    <3>2. Line(t, j, m) /\ Holds(t, j) = a
        BY <1>7, <1>8, <2>1, <3>1, LineTakes
    <3>3. CanEnqueue(t)
        BY <2>1 DEF Takes
    <3> QED BY <1>7, <3>1, <3>2, <3>3, OpenIsWhole
  <2>2. CASE a = End /\ Closes(t, v)
    <3>1. Line(t, j, m) /\ ~CanEnqueue(t) /\ CanEnqueue(v)
        BY <1>7, <1>8, <2>2, QuietLine DEF Quiet, Closes
    <3>2. ASSUME Told(s) PROVE Whole(t, j, m, e)
      <4>1. e /\ Holds(v, j) = m
          BY <1>8, <1>9, <2>2, <3>1, <3>2
      <4>2. Whole(t, j, m, TRUE)
          BY <1>7, <2>2, <4>1, CloseIsWhole DEF Closes
      <4> QED BY <4>1, <4>2, EndedGrows
    <3> QED BY <3>1, <3>2
  <2>3. CASE Fails(t, v)
    <3>1. Line(t, j, m)
        BY <1>7, <1>8, <2>3, QuietLine DEF Quiet
    <3>2. ~CanEnqueue(t)
        BY <2>3 DEF Fails, CanEnqueue
    <3>3. Whole(t, j, m, e)
        BY <1>7, <2>3, FailIsWhole DEF Fails
    <3> QED BY <3>1, <3>2, <3>3
  <2>4. CASE ~CanEnqueue(v) /\ Stays(t, v)
    <3>1. t.got = v.got /\ t.queue = v.queue
        BY <2>4 DEF Stays
    <3>2. Line(t, j, m) /\ (Told(s) => Whole(t, j, m, e))
        BY <1>8, <2>4, <3>1, SameLine
    <3> QED BY <1>9, <2>4, <3>2 DEF Later
  <2> QED BY <1>9, <2>1, <2>2, <2>3, <2>4 DEF Gets
<1>11. Line(streams'[s], h[s], source'.made)
    BY <1>1, <1>2, <1>3, <1>5, <1>10
<1>12. CanEnqueue(streams'[s]) => Holds(streams'[s], h[s]) = Above(s, h)'
    BY <1>1, <1>2, <1>5, <1>10
<1>13. Told(s)' => Whole(streams'[s], h[s], source'.made, source'.ended)
    BY <1>1, <1>2, <1>3, <1>5, <1>6, <1>10
<1> QED BY <1>1, <1>2, <1>8, <1>11, <1>12, <1>13 DEF Feeds

LEMMA StillFeeds ==
    ASSUME NEW n, NEW h, NEW s, Feeds(s, n), streams'[s] = streams[s], h[s] = n[s], UNCHANGED <<takers, source>>,
           Fed(s)' => Fed(s) /\ Above(s, h)' = Above(s, n), Told(s)' => Told(s)
    PROVE  Feeds(s, h)'
BY DEF Feeds

(* The wrapper passes an answer of the native stream on.                    *)
LEMMA WrapHearsFlows ==
    ASSUME Frame, Frame', Alone, NEW n \in [Streams -> 0..NumChunks], Flows(n), WrapHears
    PROVE  \E h \in [Streams -> 0..NumChunks] : Flows(h)'
<1>1. /\ Works /\ Native /\ Body = "body" /\ "wrap" \in takers["raw"] /\ Answer("raw") \in C \cup {End, Failed}
      /\ HeardOff(streams'["raw"], streams["raw"]) /\ Gets(streams'["body"], streams["body"], Answer("raw"))
      /\ \A q \in Halves : streams'[q] = streams[q]
    BY WrapHearsIs
<1>2. /\ UNCHANGED <<use, opened, takers, state, got, byob, source, call>> /\ tee'.cancelled = tee.cancelled
      /\ \A q \in Streams : Later(streams'[q], streams[q])
    BY <1>1 DEF Works
<1>3. PICK x : x = "raw"
    OBVIOUS
<1>4. PICK a \in C \cup {End, Failed} : a = Answer(x)
    BY <1>1, <1>3
<1>5. PICK t : t = streams'[x]
    OBVIOUS
<1>6. /\ x \in Streams /\ "body" \in Streams /\ AtMostOne(takers[x])
      /\ HeardOff(t, streams[x]) /\ a = Head(streams[x].got)
    BY <1>1, <1>3, <1>4, <1>5, OneTaker DEF Streams, Answer
<1>7. PICK k : Heeds(x, n, t, k, a)
    BY <1>6, HeardIs
<1>8. takers["raw"] = {"wrap"}
    BY <1>1, <1>3, <1>6 DEF AtMostOne
<1>9. Loops \cap takers["raw"] = {} /\ \A q \in Readers : q \notin takers["raw"]
    BY <1>8 DEF Readers, Loops, Users
<1>10. CanEnqueue(streams["body"]) /\ ~Unwanted => Told(x)
  <2>1. call.state = "head"
      BY <1>1, <1>8, <1>6, <1>3 DEF Frame, CallOK
  <2>2. ~Unwanted => ~source.stopped
      BY DEF Frame, StopOK
  <2>3. CanEnqueue(streams["body"]) => Listened
      BY <1>1 DEF Listened
  <2> QED BY <1>1, <1>3, <2>1, <2>2, <2>3 DEF Told, NativeRaw
<1>11. Told(x)' => Told(x) /\ (a = Failed => streams[x].state = "errored")
  <2> SUFFICES ASSUME Told(x)' PROVE Told(x) /\ a # Failed
      OBVIOUS
  <2>1. Native' /\ call'.state = "head" /\ Listened' /\ ~source'.stopped
      BY <1>1, <1>2, <1>3, UseStays DEF Told, NativeRaw
  <2>2. CanEnqueue(streams'["body"])
      BY <1>2, <1>8, <1>9, <2>1 DEF Listened
  <2>3. CanEnqueue(streams["body"])
      BY <1>2, <1>6, <2>2 DEF Later
  <2>4. Listened
      BY <1>1, <2>3 DEF Listened
  <2>5. Told(x)
      BY <1>1, <1>2, <1>3, <2>1, <2>4 DEF Told, NativeRaw
  <2>6. a # Failed
      BY <1>1, <1>3, <1>4, <2>2, <2>3, ChunksAre DEF Gets, Fails, CanEnqueue
  <2> QED BY <2>5, <2>6
<1>12. Hearing(x, n, t, k, a)
    BY <1>1, <1>2, <1>3, <1>5, <1>6, <1>7, <1>11 DEF Hearing
<1>13. PICK h : h = [n EXCEPT ![x] = k] /\ Hearkened(x, n, k, h)
    BY <1>6, <1>12, HearingFeeds
<1>14. /\ h \in [Streams -> 0..NumChunks] /\ h[x] = k /\ \A s \in Streams : s # x => h[s] = n[s]
       /\ Feeds(x, h)'
       /\ \A s \in Streams : Fed(s)' <=> Fed(s)
       /\ \A s \in Streams : Above(s, h)' = Above(s, h)
    BY <1>13 DEF Hearkened
<1>15. \A s \in Streams : s # "raw" => (Told(s)' => Told(s))
  <2> SUFFICES ASSUME NEW s \in Streams, s # "raw", Told(s)' PROVE Told(s)
      OBVIOUS
  <2> QED BY <1>2, ToldStays DEF NativeRaw
<1>16. Feeds("body", h)'
  <2>1. PICK s : s = "body"
      OBVIOUS
  <2>2. s \in Streams /\ s # "raw" /\ h[s] = n[s]
      BY <1>3, <1>6, <1>14, <2>1
  <2>3. Above(s, n) = n[x] /\ Above(s, h) = k /\ Fed(s)
      BY <1>1, <1>3, <1>14, <2>1 DEF Above, Fed
  <2>4. a \in C => a = Above(s, n) + 1 /\ a <= source.made /\ Above(s, h)' = a
      BY <1>7, <1>14, <2>2, <2>3 DEF Heeds
  <2>5. a = End /\ Told(s) /\ CanEnqueue(streams[s]) => source.ended /\ Above(s, n) = source.made
    <3> SUFFICES ASSUME a = End, Told(s), CanEnqueue(streams[s]) PROVE source.ended /\ n[x] = source.made
        BY <2>3
    <3>1. ~Unwanted
        BY <1>1, <2>1 DEF Told, Halves, NativeRaw
    <3>2. Told(x)
        BY <1>10, <2>1, <3>1
    <3> QED BY <1>7, <3>2 DEF Heeds
  <2>6. Gets(streams'[s], streams[s], a) /\ Later(streams'[s], streams[s]) /\ (Told(s)' => Told(s))
      BY <1>1, <1>2, <1>3, <1>4, <1>15, <2>1, <2>2
  <2>7. Getting(s, n, h, a)
      BY <1>2, <2>2, <2>3, <2>4, <2>5, <2>6 DEF Getting
  <2>8. Feeds(s, h)'
      BY <2>7, GetsFeeds
  <2> QED BY <2>1, <2>8
<1>17. ASSUME NEW s \in Halves PROVE Feeds(s, h)'
  <2>1. s \in Streams /\ s # "raw" /\ s # "body"
      BY DEF Halves, Streams
  <2>2. Above(s, h)' = Above(s, n)
      BY <1>1, <1>3, <1>6, <1>14, <2>1 DEF Above
  <2>3. Feeds(s, n) /\ streams'[s] = streams[s] /\ h[s] = n[s] /\ (Told(s)' => Told(s)) /\ (Fed(s)' => Fed(s))
      BY <1>1, <1>3, <1>14, <1>15, <2>1 DEF Flows, Feeding
  <2> QED BY <1>2, <2>2, <2>3, StillFeeds
<1>18. Feeding(h)'
  <2>1. \A s \in Streams : s = "raw" \/ s = "body" \/ s \in Halves
      BY DEF Streams, Halves
  <2>2. ~streams'["body"].started => h["body"] = 0
      BY <1>2, <1>3, <1>6, <1>14 DEF Flows, Feeding, Later
  <2> QED BY <1>3, <1>14, <1>16, <1>17, <2>1, <2>2 DEF Feeding
<1>19. \A q \in Readers : Fine(q, h)'
  <2>1. Goes
      BY <1>2 DEF Goes
  <2>2. "wrap" \notin Readers
      BY DEF Readers, Loops, Users
  <2>3. \A s \in Streams, q \in Readers : q \in takers[s] => h[s] = n[s]
      BY <1>3, <1>9, <1>14
  <2>4. \A q \in Readers : Fine(q, n)
      BY DEF Flows
  <2>5. \A q \in Readers : q # "wrap" => Fine(q, h)'
      BY <1>2, <1>9, <2>1, <2>3, <2>4, OthersRest
  <2> QED BY <2>2, <2>5
<1> QED BY <1>14, <1>18, <1>19 DEF Flows

(* The pump of tee() passes an answer on.                                   *)
LEMMA TeeHearsFlows ==
    ASSUME Frame, Frame', Alone, NEW n \in [Streams -> 0..NumChunks], Flows(n), TeeHears
    PROVE  \E h \in [Streams -> 0..NumChunks] : Flows(h)'
<1>1. PICK x : x = Body
    OBVIOUS
<1>2. /\ Works /\ takers[x] = {"tee"} /\ Answer(x) \in C \cup {End, Failed}
      /\ HeardOff(streams'[x], streams[x])
      /\ \A s \in Halves : IF s \in Branches THEN Gets(streams'[s], streams[s], Answer(x))
                           ELSE Stays(streams'[s], streams[s])
      /\ \A s \in Streams : s # x /\ s \notin Halves => streams'[s] = streams[s]
      /\ asks' = [asks EXCEPT ![x] = Tail(asks[x])]
    BY <1>1, TeeHearsIs
<1>3. /\ UNCHANGED <<use, opened, takers, state, got, byob, source, call>> /\ tee'.cancelled = tee.cancelled
      /\ \A q \in Streams : Later(streams'[q], streams[q])
    BY <1>2 DEF Works
<1>4. PICK a \in C \cup {End, Failed} : a = Answer(x)
    BY <1>2
<1>5. PICK t : t = streams'[x]
    OBVIOUS
<1>6. /\ x \in {"raw", "body"} /\ x \in Streams /\ x \notin Halves /\ ~NativeRaw(x) /\ "raw" \in Streams
      /\ "body" \in Streams /\ (x = "raw" => ~Native)
    BY <1>1, Forms DEF Frame, Types, Streams, Halves
<1>7. HeardOff(t, streams[x]) /\ a = Head(streams[x].got)
    BY <1>2, <1>4, <1>5 DEF Answer
<1>8. PICK k : Heeds(x, n, t, k, a)
    BY <1>6, <1>7, HeardIs
<1>9. \A s \in Streams : Told(s)' => Told(s)
  <2> SUFFICES ASSUME NEW s \in Streams, Told(s)' PROVE Told(s)
      OBVIOUS
  <2>1. CanEnqueue(streams'["body"]) => CanEnqueue(streams["body"])
      BY <1>3, <1>6 DEF Later
  <2>2. Listened' => Listened
      BY <1>3, <2>1, ListenedStays
  <2> QED BY <1>3, <2>2, ToldStays
<1>10. a = Failed => streams[x].state = "errored"
    BY <1>6, <1>7, FailedIsErrored DEF HeardOff
<1>11. Hearing(x, n, t, k, a)
    BY <1>2, <1>3, <1>5, <1>6, <1>7, <1>8, <1>9, <1>10 DEF Hearing
<1>12. PICK h : h = [n EXCEPT ![x] = k] /\ Hearkened(x, n, k, h)
    BY <1>6, <1>11, HearingFeeds
<1>13. /\ h \in [Streams -> 0..NumChunks] /\ h[x] = k /\ \A s \in Streams : s # x => h[s] = n[s]
       /\ Feeds(x, h)'
       /\ x = "body" /\ ~streams["body"].started => h["body"] = 0
       /\ \A s \in Streams : Fed(s)' <=> Fed(s)
       /\ \A s \in Streams : Above(s, h)' = Above(s, h)
    BY <1>12 DEF Hearkened
<1>14. tee.cancelled # Halves => Told(x)
  <2>1. "user" \notin takers[x] /\ StreamOf("user") = x /\ "user" \in Users
      BY <1>1, <1>2 DEF StreamOf, Users
  <2>2. state["user"] # "cancelled"
      BY <2>1 DEF Frame, ReadersOK
  <2> QED BY <1>6, <2>2 DEF Told, Unwanted
<1>15. ASSUME NEW s \in Halves PROVE Feeds(s, h)'
  <2>1. s \in Streams /\ s # x /\ s # "raw" /\ s # "body" /\ h[s] = n[s] /\ Fed(s)
    <3>1. s \in Streams /\ s # x /\ s # "raw" /\ s # "body"
        BY <1>6 DEF Halves, Streams
    <3>2. s \in opened
        BY <1>1, <1>2 DEF Frame, OpenOK
    <3> QED BY <1>13, <3>1, <3>2 DEF Fed
  <2>2. Above(s, n) = n[x] /\ Above(s, h) = k
      BY <1>1, <1>13, <2>1 DEF Above
  <2>3. a \in C => a = Above(s, n) + 1 /\ a <= source.made /\ Above(s, h)' = a
      BY <1>8, <1>13, <2>1, <2>2 DEF Heeds
  <2>4. a = End /\ Told(s) /\ CanEnqueue(streams[s]) => source.ended /\ Above(s, n) = source.made
    <3> SUFFICES ASSUME a = End, Told(s) PROVE source.ended /\ n[x] = source.made
        BY <2>2
    <3>1. s \notin tee.cancelled
        BY <2>1 DEF Told, NativeRaw
    <3>2. Told(x)
        BY <1>14, <3>1
    <3> QED BY <1>8, <3>2 DEF Heeds
  <2>5. Gets(streams'[s], streams[s], a)
    <3>1. CASE s \in Branches
        BY <1>2, <1>4, <3>1
    <3>2. CASE s \notin Branches
      <4>1. s \in tee.cancelled
          BY <3>2 DEF Branches, Halves
      <4>2. s \in Users /\ StreamOf(s) = s /\ state[s] = "cancelled"
          BY <4>1 DEF Frame, TeeOK, Halves, Users, StreamOf
      <4>3. ~CanEnqueue(streams[s])
          BY <4>2 DEF Frame, ReadersOK, CanEnqueue
      <4> QED BY <1>2, <3>2, <4>3 DEF Gets
    <3> QED BY <3>1, <3>2
  <2>6. Getting(s, n, h, a)
      BY <1>3, <1>9, <2>1, <2>3, <2>4, <2>5 DEF Getting
  <2> QED BY <2>6, GetsFeeds
<1>16. ASSUME NEW s \in Streams, s # x, s \notin Halves PROVE Feeds(s, h)'
  <2>1. (s = "raw" /\ x = "body") \/ (s = "body" /\ x = "raw")
      BY <1>6, <1>16 DEF Streams, Halves
  <2>2. Fed(s)' => Fed(s) /\ Above(s, h)' = Above(s, n)
    <3>1. CASE s = "raw"
        BY <1>13, <1>16, <3>1 DEF Above
    <3>2. CASE s = "body" /\ x = "raw"
        BY <1>2, <1>13, <3>2, <1>6 DEF Fed
    <3> QED BY <2>1, <3>1, <3>2
  <2>3. Feeds(s, n) /\ streams'[s] = streams[s] /\ h[s] = n[s]
      BY <1>2, <1>13, <1>16 DEF Flows, Feeding
  <2> QED BY <1>3, <1>9, <2>2, <2>3, StillFeeds
<1>17. Feeding(h)'
  <2>1. ~streams'["body"].started => h["body"] = 0
    <3>1. x # "body" => h["body"] = n["body"]
        BY <1>6, <1>13
    <3>2. streams'["body"].started = streams["body"].started
        BY <1>3, <1>6 DEF Later
    <3> QED BY <1>13, <3>1, <3>2 DEF Flows, Feeding
  <2> QED BY <1>13, <1>15, <1>16, <2>1 DEF Feeding
<1>18. \A q \in Readers : Fine(q, h)'
  <2>1. Goes
      BY <1>3 DEF Goes
  <2>2. "tee" \notin Readers
      BY DEF Readers, Loops, Users
  <2>3. \A s \in Streams, q \in Readers : q \in takers[s] => h[s] = n[s]
      BY <1>2, <1>13, <2>2
  <2>4. \A q \in Readers : Fine(q, n)
      BY DEF Flows
  <2>5. asks'["raw"] = asks["raw"] \/ \A q \in Loops \cap takers["raw"] : q = "tee"
    <3>1. CASE x = "raw"
        BY <1>2, <3>1
    <3>2. CASE x # "raw"
        BY <1>2, <1>6, <3>2 DEF Frame, Types
    <3> QED BY <3>1, <3>2
  <2>6. \A q \in Readers : q # "tee" => Fine(q, h)'
      BY <1>3, <2>1, <2>3, <2>4, <2>5, OthersRest
  <2> QED BY <2>2, <2>6
<1> QED BY <1>13, <1>17, <1>18 DEF Flows

-----------------------------------------------------------------------------
(* The flow holds always.                                                   *)

LEMMA InitFlow == ASSUME Init PROVE FlowOK
<1>1. Frame /\ use \in Uses
    BY InitFrame DEF Init
<1>2. PICK n \in [Streams -> 0..NumChunks] : \A s \in Streams : n[s] = 0
  <2>1. 0 \in 0..NumChunks
      BY BodyAssumption
  <2>2. [s \in Streams |-> 0] \in [Streams -> 0..NumChunks]
      BY <2>1
  <2> QED BY <2>2
<1>3. /\ \A s \in Streams : takers[s] = {} /\ asks[s] = <<>>
      /\ opened = IF Static THEN {} ELSE {"raw"}
      /\ \A r \in Readers : state[r] = "idle" /\ got[r] = <<>>
      /\ byob.left = <<>> /\ source.made = IF Static THEN 1 ELSE 0
    BY DEF Init
<1>4. ASSUME NEW s \in Streams PROVE Feeds(s, n)
  <2>1. PICK b \in BOOLEAN : streams[s] = NewReadable(b, FALSE)
    <3>1. PICK b : b = (s # "raw" \/ ~Native)
        OBVIOUS
    <3> QED BY <3>1 DEF Init
  <2>2. PICK v : v = streams[s]
      OBVIOUS
  <2>3. v.got = <<>> /\ v.queue = <<>> /\ CanEnqueue(v)
      BY <2>1, <2>2 DEF NewReadable, CanEnqueue
  <2>4. Sane(v) /\ source.made \in Nat
      BY <1>1, <2>2, StreamSane
  <2>5. Line(v, 0, source.made)
      BY <2>3, <2>4 DEF Line
  <2>6. Whole(v, 0, source.made, source.ended)
      BY <2>3, <2>4, OpenIsWhole
  <2>7. Holds(v, 0) = 0
      BY <2>3, EmptyHolds
  <2>8. Fed(s) => Above(s, n) = 0
    <3>1. s = "raw" \/ s = "body" \/ s \in Halves
        BY DEF Streams, Halves
    <3>2. CASE s = "raw"
        BY <1>3, <3>2 DEF Fed, Above
    <3>3. CASE s = "body"
        BY <1>2, <1>3, <3>3, "raw" \in Streams DEF Fed, Above, Streams
    <3>4. CASE s \in Halves
        BY <1>3, <3>4 DEF Fed, Halves
    <3> QED BY <3>1, <3>2, <3>3, <3>4
  <2> QED BY <1>2, <2>2, <2>5, <2>6, <2>7, <2>8 DEF Feeds
<1>5. Feeding(n)
    BY <1>2, <1>4, "body" \in Streams DEF Feeding, Streams
<1>6. ASSUME NEW r \in Readers PROVE Fine(r, n)
  <2>1. Given(r) = <<>>
    <3>1. <<>> \o <<>> = <<>>
        OBVIOUS
    <3> QED BY <1>3, <3>1 DEF Given
  <2>2. Elsewhere(r)
      BY <1>3, <2>1 DEF Elsewhere
  <2>3. \A s \in Streams : r \notin takers[s]
      BY <1>3
  <2>4. "raw" \in Streams /\ (r \in Users => StreamOf(r) \in Streams)
      BY <1>1, Forms DEF Streams
  <2> QED BY <2>2, <2>3, <2>4 DEF Fine
<1>7. Flows(n)
    BY <1>5, <1>6 DEF Flows
<1> QED BY <1>7, FlowIs

LEMMA FlowNext ==
    ASSUME Alone' => \E n \in [Streams -> 0..NumChunks] : Flows(n)'
    PROVE  FlowOK'
<1>1. Loops \subseteq Readers /\ Users \subseteq Readers
    BY DEF Readers
<1>2. ASSUME NEW n PROVE (Reading(n)' /\ Others') <=> (\A r \in Readers : Fine(r, n)')
    BY <1>1 DEF Reading, Others, Fine
<1>3. ASSUME Alone', NEW n \in [Streams -> 0..NumChunks], Flows(n)' PROVE Flow' /\ Others'
  <2>1. Feeding(n)' /\ Reading(n)' /\ Others'
      BY <1>2, <1>3 DEF Flows
  <2> QED BY <2>1 DEF Flow
<1> QED BY <1>3 DEF FlowOK

(* Nobody gives a reader back.                                              *)
LEMMA TakersGrow ==
    ASSUME Frame, BodyNext
    PROVE  use' = use /\ takers["raw"] \subseteq takers'["raw"]
<1> USE DEF bodyVars
<1>1. "raw" \in Streams /\ takers \in [Streams -> SUBSET Takers] /\ Body \in Streams
      /\ \A u \in Users : StreamOf(u) \in Streams
    BY Forms DEF Frame, Types, Streams
<1>2. CASE Source
    BY <1>2 DEF Source, SourceEnqueues, SourceEnds, SourceFails
<1>3. CASE Job
  <2>1. ASSUME NEW s \in Streams, StreamStarts(s) PROVE use' = use /\ takers["raw"] \subseteq takers'["raw"]
      BY <1>1, <2>1 DEF StreamStarts
  <2>2. ASSUME NEW s \in Streams, PullIsCalled(s) \/ PullSettles(s) PROVE use' = use /\ takers' = takers
      BY <2>2 DEF PullIsCalled, PullSettles
  <2>3. ASSUME NEW r \in Loops, LoopHears(r) PROVE use' = use /\ takers' = takers
      BY <2>3 DEF LoopHears
  <2>4. ASSUME NEW u \in Users, UserHears(u) \/ UserOverwrites(u) PROVE use' = use /\ takers' = takers
      BY <2>4 DEF UserHears, UserOverwrites
  <2>5. CASE WrapHears \/ TeeHears
      BY <2>5 DEF WrapHears, TeeHears
  <2> QED BY <1>3, <2>1, <2>2, <2>3, <2>4, <2>5 DEF Job
<1>4. CASE Fetch
    BY <1>4 DEF Fetch, HeadArrives, TransferFails, Aborts
<1>5. CASE Script
  <2>1. ASSUME NEW r \in Loops, LoopStarts(r) PROVE use' = use /\ takers["raw"] \subseteq takers'["raw"]
      BY <1>1, <2>1 DEF LoopStarts
  <2>2. ASSUME NEW u \in Users, UserReads(u) PROVE use' = use /\ takers["raw"] \subseteq takers'["raw"]
    <3>1. PICK x \in Streams : x = StreamOf(u)
        BY <1>1
    <3>2. use' = use /\ (takers' = takers \/ takers' = [takers EXCEPT ![x] = takers[x] \cup {u}])
        BY <2>2, <3>1 DEF UserReads
    <3> QED BY <1>1, <3>2
  <2>3. ASSUME NEW u \in Users, UserCancels(u) PROVE use' = use /\ takers' = takers
      BY <2>3 DEF UserCancels
  <2>4. CASE Tees
    <3>1. PICK x \in Streams : x = Body
        BY <1>1
    <3>2. use' = use /\ takers[x] = {} /\ takers' = [takers EXCEPT ![x] = {"tee"}]
        BY <2>4, <3>1 DEF Tees
    <3> QED BY <1>1, <3>2
  <2>5. CASE OpensBody \/ Clones
      BY <2>5 DEF OpensBody, Clones
  <2> QED BY <1>5, <2>1, <2>2, <2>3, <2>4, <2>5 DEF Script
<1> QED BY <1>2, <1>3, <1>4, <1>5 DEF BodyNext

LEMMA AloneBefore ==
    ASSUME Frame, Frame', use' = use, takers["raw"] \subseteq takers'["raw"], Alone'
    PROVE  Alone
<1>1. Native' = Native
    BY UseStays
<1>2. Native => AtMostOne(takers'["raw"])
    BY <1>1, AloneNext
<1>3. PICK a : a = takers["raw"]
    OBVIOUS
<1>4. PICK b : b = takers'["raw"]
    OBVIOUS
<1>5. AtMostOne(b) => AtMostOne(a)
    BY <1>3, <1>4 DEF AtMostOne
<1> QED BY <1>2, <1>3, <1>4, <1>5, AloneIs

LEMMA FlowsOn ==
    ASSUME Frame, Frame', Alone, Alone', NEW n \in [Streams -> 0..NumChunks], Flows(n), BodyNext
    PROVE  \E h \in [Streams -> 0..NumChunks] : Flows(h)'
<1>1. CASE Source
    BY <1>1, SourceEnqueuesFlows, SourceEndsFlows, SourceFailsFlows DEF Source
<1>2. CASE Job
  <2>1. CASE \E s \in Streams : StreamStarts(s)
      BY <2>1, StreamStartsFlows
  <2>2. CASE \E s \in Streams : PullIsCalled(s)
      BY <2>2, PullIsCalledFlows
  <2>3. CASE \E s \in Streams : PullSettles(s)
      BY <2>3, PullSettlesFlows
  <2>4. CASE \E r \in Loops : LoopHears(r)
      BY <2>4, LoopHearsFlows
  <2>5. CASE \E u \in Users : UserHears(u) \/ UserOverwrites(u)
      BY <2>5, UserHearsFlows
  <2>6. CASE WrapHears
      BY <2>6, WrapHearsFlows
  <2>7. CASE TeeHears
      BY <2>7, TeeHearsFlows
  <2> QED BY <1>2, <2>1, <2>2, <2>3, <2>4, <2>5, <2>6, <2>7 DEF Job
<1>3. CASE Fetch
    BY <1>3, CallFlows, TransferFailsFlows, AbortsFlows DEF Fetch
<1>4. CASE Script
  <2>1. CASE \E r \in Loops : LoopStarts(r)
      BY <2>1, LoopStartsFlows
  <2>2. CASE \E u \in Users : UserReads(u)
      BY <2>2, UserReadsFlows
  <2>3. CASE \E u \in Users : UserCancels(u)
      BY <2>3, UserCancelsFlows
  <2>4. CASE OpensBody \/ Tees \/ Clones
      BY <2>4, OpensBodyFlows, TeesFlows, ClonesFlows
  <2> QED BY <1>4, <2>1, <2>2, <2>3, <2>4 DEF Script
<1> QED BY <1>1, <1>2, <1>3, <1>4 DEF BodyNext

LEMMA StepFlow == ASSUME IInv, [Next]_allVars PROVE IInv'
<1>1. Frame /\ Frame' /\ FlowOK
    BY StepFrame DEF IInv
<1>2. CASE UNCHANGED vars
  <2>1. UNCHANGED <<use, streams, opened, takers, asks, state, got, tee, byob, source, call>>
      BY <1>2 DEF vars, bodyVars
  <2>2. Alone' => Alone
      BY <1>1, <2>1, AloneBefore
  <2>3. ASSUME NEW n PROVE Flows(n)' <=> Flows(n)
      BY <2>1 DEF Flows, Feeding, Fine, Feeds, Has, Elsewhere, Line, Fed, Above, Told, Whole, Holds, Unwanted, Listened,
         Given, NativeRaw, Native, Static, Body, StreamOf, First, Bytes, Everything, Chunks, CanEnqueue
  <2>4. Alone' => \E n \in [Streams -> 0..NumChunks] : Flows(n)'
      BY <1>1, <2>2, <2>3, FlowIs
  <2> QED BY <1>1, <2>4, FlowNext DEF IInv
<1>3. CASE BodyNext
  <2>1. Alone' => Alone
      BY <1>1, <1>3, TakersGrow, AloneBefore
  <2>2. Alone' => \E n \in [Streams -> 0..NumChunks] : Flows(n)'
      BY <1>1, <1>3, <2>1, FlowIs, FlowsOn
  <2> QED BY <1>1, <2>2, FlowNext DEF IInv
<1>4. CASE FetchCalls \/ HeadHeard
  <2>1. UNCHANGED <<use, takers>>
      BY <1>4 DEF FetchCalls, HeadHeard, bodyVars
  <2>2. Alone' => Alone
      BY <1>1, <2>1, AloneBefore
  <2>3. Alone' => \E n \in [Streams -> 0..NumChunks] : Flows(n)'
      BY <1>1, <1>4, <2>2, FlowIs, CallFlows
  <2> QED BY <1>1, <2>3, FlowNext DEF IInv
<1> QED BY <1>2, <1>3, <1>4, StepIs

(* Of whoever reads, and of what it was given.                              *)
LEMMA FlowArrives == ASSUME IInv PROVE BodiesArrive
<1>1. Frame /\ TypeOK
    BY FrameTypeOK DEF IInv
<1>2. PICK m \in 0..NumChunks : m = source.made
    BY <1>1 DEF Frame, Types
<1>3. Everything = First(m)
    BY <1>2 DEF Everything, First
<1>4. ASSUME NEW r \in Readers, r = "copy" => Static, Alone, ~(r = "user" /\ byob.lost)
      PROVE  IsPrefix(Given(r), Everything) /\ (state[r] = "whole" => source.ended /\ Given(r) = Everything)
  <2>1. PICK n \in [Streams -> 0..NumChunks] : Flows(n)
      BY <1>4, FlowIs DEF IInv
  <2>2. Fine(r, n)
      BY <2>1 DEF Flows
  <2>3. CASE \E s \in Streams : r \in takers[s]
    <3>1. PICK s \in Streams : Has(r, s, n)
      <4>1. PICK s \in Streams : r \in takers[s]
          BY <2>3
      <4>2. r \in Loops \/ r \in Users
          BY <1>1, <4>1, NeverTakes DEF Readers
      <4>3. (r \in Loops => s = "raw") /\ (r \in Users => s = StreamOf(r))
          BY <1>1, <4>1, NeverTakes
      <4> QED BY <2>2, <4>1, <4>2, <4>3 DEF Fine
    <3>2. PICK k \in 0..NumChunks : k = n[s]
        OBVIOUS
    <3>3. k \in 0..m
      <4>1. Line(streams[s], n[s], source.made)
          BY <2>1 DEF Flows, Feeding, Feeds
      <4> QED BY <1>2, <3>2, <4>1, BodyAssumption DEF Line
    <3>4. Given(r) = First(k) /\ (state[r] = "whole" => source.ended /\ k = m)
        BY <1>2, <1>4, <3>1, <3>2 DEF Has
    <3>5. IsPrefix(First(k), First(m))
        BY <3>3, FirstIsPrefix
    <3> QED BY <1>3, <3>4, <3>5
  <2>4. CASE \A s \in Streams : r \notin takers[s]
    <3>1. Elsewhere(r)
        BY <2>2, <2>4 DEF Fine
    <3>2. 0 \in 0..m /\ m \in 0..m
        BY BodyAssumption
    <3>3. IsPrefix(First(0), First(m)) /\ IsPrefix(First(m), First(m)) /\ First(0) = <<>>
        BY <3>2, FirstIsPrefix, FirstIs
    <3>4. CASE state[r] = "whole"
      <4>1. Static /\ Given(r) = Everything
          BY <1>4, <3>1, <3>4 DEF Elsewhere
      <4>2. source.ended
          BY <1>1, <4>1 DEF Frame, SourceOK
      <4> QED BY <1>3, <3>3, <4>1, <4>2
    <3>5. CASE state[r] # "whole"
        BY <1>3, <3>1, <3>3, <3>5 DEF Elsewhere
    <3> QED BY <3>4, <3>5
  <2> QED BY <2>3, <2>4
<1> QED BY <1>1, <1>4 DEF BodiesArrive, WholeBodyOrError

(***************************************************************************)
(* For any script, any number of chunks of any lengths, any room in a      *)
(* view, any sizes and high-water mark: whoever reads the body of a        *)
(* Response -- by text(), by its stream, with a BYOB reader, or as either  *)
(* branch of tee() -- has the first bytes of what was sent, in order and   *)
(* once, and all of them once it is told the end; which is told of no      *)
(* source that has not ended.                                              *)
(***************************************************************************)
THEOREM BodiesArriveAlways == Spec => []BodiesArrive
<1>1. ExchangeInit => IInv
    BY InitFrame, InitFlow DEF ExchangeInit, IInv
<1>2. IInv /\ [Next]_allVars => IInv'
    BY StepFlow
<1>3. IInv => BodiesArrive
    BY FlowArrives
<1> QED BY <1>1, <1>2, <1>3, PTL DEF Spec

-----------------------------------------------------------------------------
(* The headers, the form and the body of the request.                      *)

(* A list says what the calls came to.                                     *)
Means(list, meant) ==
    /\ list \in Seq(Entry) /\ meant \in [HeaderName -> Seq(Nat)]
    /\ \A n \in HeaderName : ValuesOf(list, n) = meant[n]

HeadersOK ==
    /\ headers \in [list : Seq(Entry), meant : [HeaderName -> Seq(Nat)], got : Seq(Entry)]
    /\ Means(headers.list, headers.meant) /\ Sole(headers.list)
FormOK ==
    /\ form \in [list : Seq(Entry), meant : [HeaderName -> Seq(Nat)]]
    /\ Means(form.list, form.meant)
(* The Response has what the list said when the head went out, which the   *)
(* handler cannot change any more.                                         *)
GotOK == Native /\ call.state = "head" => \A n \in HeaderName : ValuesOf(headers.got, n) = headers.meant[n]
(* The body of the request on its way to the handler.                      *)
RequestOK ==
    /\ request \in [given : BodyKinds, wire : {"none", "text", "garbled"},
                    held : {"none", "nothing", "text", "garbled"}, read : {"none", "nothing", "text", "garbled"}]
    /\ call.state = "none" => request.held = "none"
    /\ call.state = "asked" => request.wire = Sent(request.given)
    /\ request.held # "none" /\ request.given = "text" => request.held = "text"
    /\ request.read # "none" => request.held # "none" /\ request.read = request.held
ArrivalOK == HeadersOK /\ FormOK /\ GotOK /\ RequestOK /\ edits \in Nat

LEMMA NamesAre == ToSet(HeaderNames) = HeaderName
<1>1. DOMAIN HeaderNames = {1, 2} /\ HeaderNames[1] = "a" /\ HeaderNames[2] = Cookie
    BY DEF HeaderNames
<1> QED BY <1>1 DEF ToSet, HeaderName

(* Of the body's own steps those of the transfer alone change the fetch.   *)
LEMMA BodyCall ==
    ASSUME Frame, BodyNext
    PROVE  /\ Native' = Native
           /\ call'.state = call.state \/ (call.state = "asked" /\ call'.state \in {"answered", "refused"})
<1> USE DEF bodyVars
<1>1. Native' = Native
  <2>1. use' = use
      BY TakersGrow
  <2> QED BY <2>1, UseStays
<1>2. ASSUME Source PROVE call' = call
    BY <1>2 DEF Source, SourceEnqueues, SourceEnds, SourceFails
<1>3. ASSUME Job PROVE call' = call
  <2>1. ASSUME NEW s \in Streams, StreamStarts(s) \/ PullIsCalled(s) \/ PullSettles(s) PROVE call' = call
      BY <2>1 DEF StreamStarts, PullIsCalled, PullSettles
  <2>2. ASSUME NEW r \in Loops, LoopHears(r) PROVE call' = call
      BY <2>2 DEF LoopHears
  <2>3. ASSUME NEW u \in Users, UserHears(u) \/ UserOverwrites(u) PROVE call' = call
      BY <2>3 DEF UserHears, UserOverwrites
  <2>4. ASSUME WrapHears \/ TeeHears PROVE call' = call
      BY <2>4 DEF WrapHears, TeeHears
  <2> QED BY <1>3, <2>1, <2>2, <2>3, <2>4 DEF Job
<1>4. ASSUME Script PROVE call' = call
  <2>1. ASSUME NEW r \in Loops, LoopStarts(r) PROVE call' = call
      BY <2>1 DEF LoopStarts
  <2>2. ASSUME NEW u \in Users, UserReads(u) PROVE call' = call
      BY <2>2 DEF UserReads
  <2>3. ASSUME NEW u \in Users, UserCancels(u) PROVE call' = call
      BY <2>3 DEF UserCancels
  <2>4. ASSUME OpensBody \/ Tees \/ Clones PROVE call' = call
      BY <2>4 DEF OpensBody, Tees, Clones
  <2> QED BY <1>4, <2>1, <2>2, <2>3, <2>4 DEF Script
<1>5. ASSUME Fetch PROVE call'.state = call.state \/ (call.state = "asked" /\ call'.state \in {"answered", "refused"})
  <2>1. call \in [state : {"none", "asked", "answered", "refused", "head"}, aborted : BOOLEAN, redirect : BOOLEAN]
      BY DEF Frame, Types
  <2>2. CASE HeadArrives
      BY <2>1, <2>2 DEF HeadArrives
  <2>3. CASE TransferFails
      BY <2>1, <2>3 DEF TransferFails
  <2>4. CASE Aborts
      BY <2>1, <2>4 DEF Aborts
  <2> QED BY <1>5, <2>2, <2>3, <2>4 DEF Fetch
<1> QED BY <1>1, <1>2, <1>3, <1>4, <1>5 DEF BodyNext

(* One name is given other values.                                         *)
LEMMA MeansNext ==
    ASSUME NEW list, NEW meant, Means(list, meant), NEW new \in Seq(Entry), NEW m \in HeaderName,
           NEW w \in Seq(Nat), Says(new, list, m, w), NEW now, now = [meant EXCEPT ![m] = w]
    PROVE  Means(new, now)
<1>1. now \in [HeaderName -> Seq(Nat)] /\ \A n \in HeaderName : now[n] = IF n = m THEN w ELSE meant[n]
    BY DEF Means
<1>2. \A n \in HeaderName : ValuesOf(new, n) = now[n]
    BY <1>1 DEF Means, Says
<1> QED BY <1>1, <1>2 DEF Means

(* A call of the handler or the script gives the name m other values.      *)
LEMMA EntriesGiven ==
    ASSUME NEW e \in Nat
    PROVE  <<e>> \in Seq(Nat) /\ <<>> \in Seq(Nat) /\ \A m \in HeaderName : EntryOf(m, <<e>>) \in Entry
<1>1. <<e>> \in Seq(Nat) /\ <<>> \in Seq(Nat) /\ Len(<<e>>) = 1
    OBVIOUS
<1> QED BY <1>1 DEF EntryOf, Entry

LEMMA EditedList ==
    ASSUME NEW list, NEW meant, Means(list, meant), NEW m \in HeaderName, NEW e \in Nat
    PROVE  /\ Sole(list) => LET new == AppendedHeader(list, m, <<e>>)
                            IN  Sole(new) /\ Means(new, [meant EXCEPT ![m] = meant[m] \o <<e>>])
           /\ Means(SetHeader(list, m, <<e>>), [meant EXCEPT ![m] = <<e>>])
           /\ Sole(list) => Sole(SetHeader(list, m, <<e>>))
           /\ Means(DeletedHeader(list, m), [meant EXCEPT ![m] = <<>>])
           /\ Sole(list) => Sole(DeletedHeader(list, m))
           /\ Means(AppendedEntry(list, m, <<e>>), [meant EXCEPT ![m] = meant[m] \o <<e>>])
<1>1. PICK v \in Seq(Nat), none \in Seq(Nat) : v = <<e>> /\ none = <<>>
    BY EntriesGiven
<1>2. EntryOf(m, v) \in Entry
    BY <1>1, EntriesGiven
<1>3. list \in Seq(Entry) /\ ValuesOf(list, m) = meant[m] /\ meant[m] \in Seq(Nat)
    BY DEF Means
<1>4. PICK w \in Seq(Nat) : w = meant[m] \o v
    BY <1>3, ConcatProperties
<1>5. ValuesOf(list, m) \o v = w
    BY <1>3, <1>4
<1>6. ASSUME Sole(list), NEW new, new = AppendedHeader(list, m, v) PROVE Sole(new) /\ Means(new, [meant EXCEPT ![m] = w])
  <2>1. new \in Seq(Entry) /\ Sole(new) /\ Says(new, list, m, ValuesOf(list, m) \o v)
      BY <1>2, <1>3, <1>6, AppendedSays
  <2>2. Says(new, list, m, w)
      BY <1>5, <2>1
  <2> QED BY <2>1, <2>2, MeansNext
<1>7. Means(SetHeader(list, m, v), [meant EXCEPT ![m] = v]) /\ (Sole(list) => Sole(SetHeader(list, m, v)))
  <2>1. PICK new : new = SetHeader(list, m, v)
      OBVIOUS
  <2>2. new \in Seq(Entry) /\ Says(new, list, m, v) /\ (Sole(list) => Sole(new))
      BY <1>2, <1>3, <2>1, SetSays
  <2> QED BY <2>1, <2>2, MeansNext
<1>8. Means(DeletedHeader(list, m), [meant EXCEPT ![m] = none]) /\ (Sole(list) => Sole(DeletedHeader(list, m)))
  <2>1. PICK new : new = DeletedHeader(list, m)
      OBVIOUS
  <2>2. new \in Seq(Entry) /\ Says(new, list, m, none) /\ (Sole(list) => Sole(new))
      BY <1>1, <1>3, <2>1, DeletedSays
  <2> QED BY <2>1, <2>2, MeansNext
<1>9. Means(AppendedEntry(list, m, v), [meant EXCEPT ![m] = w])
  <2>1. PICK new : new = Append(list, EntryOf(m, v))
      OBVIOUS
  <2>2. new \in Seq(Entry) /\ Says(new, list, m, ValuesOf(list, m) \o v)
      BY <1>2, <1>3, <2>1, EntrySays
  <2>3. Says(new, list, m, w)
      BY <1>5, <2>2
  <2>4. AppendedEntry(list, m, v) = new
      BY <2>1 DEF AppendedEntry, EntryOf
  <2> QED BY <2>2, <2>3, <2>4, MeansNext
<1>10. meant[m] \o <<e>> = w
    BY <1>1, <1>4
<1> QED BY <1>1, <1>6, <1>7, <1>8, <1>9, <1>10

LEMMA InitArrival == ASSUME ExchangeInit PROVE ArrivalOK
<1>1. <<>> \in Seq(Entry) /\ <<>> \in Seq(Nat)
    OBVIOUS
<1>2. Nothing \in [HeaderName -> Seq(Nat)] /\ \A n \in HeaderName : Nothing[n] = <<>>
    BY <1>1, NamesAre DEF Nothing
<1>3. ASSUME NEW n PROVE ValuesOf(<<>>, n) = <<>> /\ Chosen(<<>>, Those(n)) = <<>>
    BY <1>1, ListsAreChosen, ChosenNone
<1>4. Means(<<>>, Nothing) /\ Sole(<<>>)
  <2>1. Len(<<>>) <= 1
      OBVIOUS
  <2> QED BY <1>1, <1>2, <1>3, <2>1 DEF Means, Sole
<1>5. headers = [list |-> <<>>, meant |-> Nothing, got |-> <<>>] /\ form = [list |-> <<>>, meant |-> Nothing]
    BY DEF ExchangeInit
<1>6. HeadersOK /\ FormOK
    BY <1>1, <1>2, <1>4, <1>5 DEF HeadersOK, FormOK
<1>7. GotOK
    BY <1>2, <1>3, <1>5 DEF GotOK
<1>8. RequestOK
  <2>1. /\ request.given \in BodyKinds /\ request.wire = "none" /\ request.held = "none" /\ request.read = "none"
        /\ request \in [given : BodyKinds, wire : {"none"}, held : {"none"}, read : {"none"}]
      BY DEF ExchangeInit, BodyKinds
  <2>2. call.state \in {"none", "head"}
      BY DEF ExchangeInit, Init
  <2> QED BY <2>1, <2>2 DEF RequestOK
<1> QED BY <1>6, <1>7, <1>8 DEF ArrivalOK, ExchangeInit

(* The request, through every step.                                        *)
LEMMA RequestSame ==
    ASSUME RequestOK, UNCHANGED request,
           call'.state = call.state \/ (call.state = "asked" /\ call'.state \in {"answered", "refused"})
    PROVE  RequestOK'
BY DEF RequestOK, Sent

LEMMA GotSame ==
    ASSUME GotOK, UNCHANGED headers, Native' = Native, call'.state = "head" => call.state = "head"
    PROVE  GotOK'
BY DEF GotOK

LEMMA FetchesArrival == ASSUME Frame, ArrivalOK, Fetches PROVE ArrivalOK'
<1>1. /\ call.state = "none" /\ call' = [call EXCEPT !.state = IF call.aborted THEN "refused" ELSE "asked"]
      /\ use' = use /\ UNCHANGED <<headers, form, edits>>
      /\ request' = IF call'.state = "asked" THEN [request EXCEPT !.wire = Sent(request.given)] ELSE request
    BY DEF Fetches, FetchCalls
<1>2. call'.state \in {"asked", "refused"}
    BY <1>1 DEF Frame, Types
<1>3. HeadersOK' /\ FormOK' /\ edits' \in Nat
    BY <1>1 DEF ArrivalOK, HeadersOK, FormOK, Means, Sole
<1>4. GotOK'
    BY <1>2 DEF GotOK
<1>5. RequestOK'
  <2>1. RequestOK
      BY DEF ArrivalOK
  <2>2. CASE call'.state = "asked"
      BY <1>1, <2>1, <2>2 DEF RequestOK, Sent
  <2>3. CASE call'.state # "asked"
      BY <1>1, <1>2, <2>1, <2>3 DEF RequestOK
  <2> QED BY <2>2, <2>3
<1> QED BY <1>3, <1>4, <1>5 DEF ArrivalOK

LEMMA RequestArrival == ASSUME ArrivalOK, HandlerCalled \/ RequestReads PROVE ArrivalOK'
<1>1. UNCHANGED <<use, call, headers, form, edits>>
    BY DEF HandlerCalled, RequestReads, vars
<1>2. HeadersOK' /\ FormOK' /\ edits' \in Nat
    BY <1>1 DEF ArrivalOK, HeadersOK, FormOK, Means, Sole
<1>3. GotOK'
    BY <1>1, UseStays, GotSame DEF ArrivalOK
<1>4. RequestOK'
  <2>1. RequestOK
      BY DEF ArrivalOK
  <2>2. CASE HandlerCalled
      BY <1>1, <2>1, <2>2 DEF HandlerCalled, RequestOK, Sent
  <2>3. CASE RequestReads
      BY <1>1, <2>1, <2>3 DEF RequestReads, RequestOK
  <2> QED BY <2>2, <2>3
<1> QED BY <1>2, <1>3, <1>4 DEF ArrivalOK

LEMMA EditsHeadersArrival ==
    ASSUME ArrivalOK, NEW m \in HeaderName, EditsHeaders(m)
    PROVE  ArrivalOK'
<1>1. /\ UNCHANGED <<use, call, request, form>> /\ call.state = "asked" /\ edits' = edits + 1
    BY DEF EditsHeaders, Edits, vars
<1>2. PICK e \in Nat : e = edits'
    BY <1>1 DEF ArrivalOK
<1>3. PICK list, meant : list = headers.list /\ meant = headers.meant
    OBVIOUS
<1>4. headers \in [list : Seq(Entry), meant : [HeaderName -> Seq(Nat)], got : Seq(Entry)] /\ Means(list, meant) /\ Sole(list)
    BY <1>3 DEF ArrivalOK, HeadersOK
<1>5. \E new, now : /\ Means(new, now) /\ Sole(new)
                    /\ headers' = [headers EXCEPT !.list = new, !.meant = now]
  <2>1. \/ headers' = [headers EXCEPT !.list = AppendedHeader(@, m, <<e>>), !.meant[m] = @ \o <<e>>]
        \/ headers' = [headers EXCEPT !.list = SetHeader(@, m, <<e>>), !.meant[m] = <<e>>]
        \/ headers' = [headers EXCEPT !.list = DeletedHeader(@, m), !.meant[m] = <<>>]
      BY <1>2 DEF EditsHeaders
  <2>2. CASE headers' = [headers EXCEPT !.list = AppendedHeader(@, m, <<e>>), !.meant[m] = @ \o <<e>>]
    <3>1. headers' = [headers EXCEPT !.list = AppendedHeader(list, m, <<e>>),
                                     !.meant = [meant EXCEPT ![m] = meant[m] \o <<e>>]]
        BY <1>3, <1>4, <2>2
    <3> QED BY <1>4, <3>1, EditedList
  <2>3. CASE headers' = [headers EXCEPT !.list = SetHeader(@, m, <<e>>), !.meant[m] = <<e>>]
    <3>1. headers' = [headers EXCEPT !.list = SetHeader(list, m, <<e>>), !.meant = [meant EXCEPT ![m] = <<e>>]]
        BY <1>3, <1>4, <2>3
    <3> QED BY <1>4, <3>1, EditedList
  <2>4. CASE headers' = [headers EXCEPT !.list = DeletedHeader(@, m), !.meant[m] = <<>>]
    <3>1. headers' = [headers EXCEPT !.list = DeletedHeader(list, m), !.meant = [meant EXCEPT ![m] = <<>>]]
        BY <1>3, <1>4, <2>4
    <3> QED BY <1>4, <3>1, EditedList
  <2> QED BY <2>1, <2>2, <2>3, <2>4
<1>6. HeadersOK'
  <2>1. PICK new, now : Means(new, now) /\ Sole(new) /\ headers' = [headers EXCEPT !.list = new, !.meant = now]
      BY <1>5
  <2>2. new \in Seq(Entry) /\ now \in [HeaderName -> Seq(Nat)]
      BY <2>1 DEF Means
  <2>3. /\ headers' \in [list : Seq(Entry), meant : [HeaderName -> Seq(Nat)], got : Seq(Entry)]
        /\ headers'.list = new /\ headers'.meant = now
      BY <1>4, <2>1, <2>2
  <2>4. Means(headers'.list, headers'.meant) /\ Sole(headers'.list)
      BY <2>1, <2>3
  <2> QED BY <2>3, <2>4 DEF HeadersOK, Means, Sole
<1>7. FormOK' /\ RequestOK'
    BY <1>1, RequestSame DEF ArrivalOK, FormOK, Means
<1>8. GotOK'
    BY <1>1 DEF GotOK
<1> QED BY <1>2, <1>6, <1>7, <1>8 DEF ArrivalOK

LEMMA EditsFormArrival ==
    ASSUME ArrivalOK, NEW m \in HeaderName, EditsForm(m)
    PROVE  ArrivalOK'
<1>1. UNCHANGED <<use, call, request, headers>> /\ edits' = edits + 1
    BY DEF EditsForm, Edits, vars
<1>2. PICK e \in Nat : e = edits'
    BY <1>1 DEF ArrivalOK
<1>3. PICK list, meant : list = form.list /\ meant = form.meant
    OBVIOUS
<1>4. form \in [list : Seq(Entry), meant : [HeaderName -> Seq(Nat)]] /\ Means(list, meant)
    BY <1>3 DEF ArrivalOK, FormOK
<1>5. \E new, now : Means(new, now) /\ form' = [form EXCEPT !.list = new, !.meant = now]
  <2>1. \/ form' = [form EXCEPT !.list = AppendedEntry(@, m, <<e>>), !.meant[m] = @ \o <<e>>]
        \/ form' = [form EXCEPT !.list = SetEntry(@, m, <<e>>), !.meant[m] = <<e>>]
        \/ form' = [form EXCEPT !.list = DeletedEntry(@, m), !.meant[m] = <<>>]
      BY <1>2 DEF EditsForm
  <2>2. CASE form' = [form EXCEPT !.list = AppendedEntry(@, m, <<e>>), !.meant[m] = @ \o <<e>>]
    <3>1. form' = [form EXCEPT !.list = AppendedEntry(list, m, <<e>>), !.meant = [meant EXCEPT ![m] = meant[m] \o <<e>>]]
        BY <1>3, <1>4, <2>2
    <3> QED BY <1>4, <3>1, EditedList
  <2>3. CASE form' = [form EXCEPT !.list = SetEntry(@, m, <<e>>), !.meant[m] = <<e>>]
    <3>1. form' = [form EXCEPT !.list = SetHeader(list, m, <<e>>), !.meant = [meant EXCEPT ![m] = <<e>>]]
        BY <1>3, <1>4, <2>3 DEF SetEntry
    <3> QED BY <1>4, <3>1, EditedList
  <2>4. CASE form' = [form EXCEPT !.list = DeletedEntry(@, m), !.meant[m] = <<>>]
    <3>1. form' = [form EXCEPT !.list = DeletedHeader(list, m), !.meant = [meant EXCEPT ![m] = <<>>]]
        BY <1>3, <1>4, <2>4 DEF DeletedEntry
    <3> QED BY <1>4, <3>1, EditedList
  <2> QED BY <2>1, <2>2, <2>3, <2>4
<1>6. FormOK'
  <2>1. PICK new, now : Means(new, now) /\ form' = [form EXCEPT !.list = new, !.meant = now]
      BY <1>5
  <2>2. new \in Seq(Entry) /\ now \in [HeaderName -> Seq(Nat)]
      BY <2>1 DEF Means
  <2>3. /\ form' \in [list : Seq(Entry), meant : [HeaderName -> Seq(Nat)]]
        /\ form'.list = new /\ form'.meant = now
      BY <1>4, <2>1, <2>2
  <2>4. Means(form'.list, form'.meant)
      BY <2>1, <2>3
  <2> QED BY <2>3, <2>4 DEF FormOK, Means
<1>7. HeadersOK' /\ RequestOK'
    BY <1>1, RequestSame DEF ArrivalOK, HeadersOK, Means, Sole
<1>8. GotOK'
    BY <1>1, UseStays, GotSame DEF ArrivalOK
<1> QED BY <1>2, <1>6, <1>7, <1>8 DEF ArrivalOK

LEMMA RespondsArrival == ASSUME Frame, ArrivalOK, Responds PROVE ArrivalOK'
<1>1. /\ call.state = "answered" /\ call' = [call EXCEPT !.state = IF call.redirect THEN "refused" ELSE "head"]
      /\ UNCHANGED <<use, request, form, edits>>
      /\ headers' = [headers EXCEPT !.got = FromLines(Lines(headers.list))]
    BY DEF Responds, HeadHeard
<1>2. call'.state \in {"head", "refused"}
    BY <1>1 DEF Frame, Types
<1>3. PICK list : list = headers.list
    OBVIOUS
<1>4. /\ headers \in [list : Seq(Entry), meant : [HeaderName -> Seq(Nat)], got : Seq(Entry)]
      /\ Means(list, headers.meant) /\ Sole(list) /\ list \in Seq(Entry)
    BY <1>3 DEF ArrivalOK, HeadersOK, Means
<1>5. PICK lines \in Seq(Entry) : lines = Lines(list) /\ \A n \in HeaderName : ValuesOf(lines, n) = ValuesOf(list, n)
    BY <1>4, LinesSay
<1>6. PICK new : new = FromLines(lines)
    OBVIOUS
<1>7. ASSUME NEW n \in HeaderName PROVE new \in Seq(Entry) /\ ValuesOf(new, n) = ValuesOf(lines, n)
    BY <1>6, FromLinesSays
<1>8. new \in Seq(Entry)
  <2>1. Cookie \in HeaderName
      BY DEF HeaderName
  <2> QED BY <1>7, <2>1
<1>9. headers' = [headers EXCEPT !.got = new]
    BY <1>1, <1>3, <1>5, <1>6
<1>10. /\ headers' \in [list : Seq(Entry), meant : [HeaderName -> Seq(Nat)], got : Seq(Entry)]
       /\ headers'.list = list /\ headers'.meant = headers.meant /\ headers'.got = new
    BY <1>3, <1>4, <1>8, <1>9
<1>11. HeadersOK'
  <2>1. Means(headers'.list, headers'.meant) /\ Sole(headers'.list)
      BY <1>4, <1>10
  <2> QED BY <1>10, <2>1 DEF HeadersOK, Means, Sole
<1>12. \A n \in HeaderName : ValuesOf(new, n) = headers.meant[n]
    BY <1>4, <1>5, <1>7 DEF Means
<1>13. GotOK'
    BY <1>10, <1>12 DEF GotOK
<1>14. FormOK' /\ edits' \in Nat
    BY <1>1 DEF ArrivalOK, FormOK, Means
<1>15. RequestOK'
    BY <1>1, <1>2 DEF ArrivalOK, RequestOK
<1> QED BY <1>11, <1>13, <1>14, <1>15 DEF ArrivalOK

(* Steps that leave the headers, the form and the request alone.           *)
LEMMA ArrivalSame ==
    ASSUME ArrivalOK, UNCHANGED <<headers, form, request>>, edits' \in Nat, Native' = Native,
           call'.state = call.state \/ (call.state = "asked" /\ call'.state \in {"answered", "refused"})
    PROVE  ArrivalOK'
<1>1. HeadersOK' /\ FormOK'
    BY DEF ArrivalOK, HeadersOK, FormOK, Means, Sole
<1>2. RequestOK'
    BY RequestSame DEF ArrivalOK
<1>3. GotOK'
    BY GotSame DEF ArrivalOK
<1> QED BY <1>1, <1>2, <1>3 DEF ArrivalOK

LEMMA StepArrival == ASSUME Frame, ArrivalOK, [Next]_allVars PROVE ArrivalOK'
<1>0. edits \in Nat
    BY DEF ArrivalOK
<1>1. CASE UNCHANGED allVars
  <2>1. UNCHANGED <<use, call, headers, form, request, edits>>
      BY <1>1 DEF allVars, vars, exchangeVars
  <2> QED BY <1>0, <2>1, UseStays, ArrivalSame
<1>2. CASE BodyNext /\ UNCHANGED exchangeVars
  <2>1. UNCHANGED <<headers, form, request, edits>>
      BY <1>2 DEF exchangeVars
  <2> QED BY <1>0, <1>2, <2>1, BodyCall, ArrivalSame
<1>3. CASE Fetches
    BY <1>3, FetchesArrival
<1>4. CASE HandlerCalled \/ RequestReads
    BY <1>4, RequestArrival
<1>5. CASE Responds
    BY <1>5, RespondsArrival
<1>6. CASE GetsParams \/ (\E o \in DOMAIN objects : ChangesParams(o))
           \/ (\E query \in Queries : SetsSearch(query) \/ SetsHref(query)) \/ ClientEmits
  <2>1. UNCHANGED <<use, call, headers, form, request>> /\ edits' \in {edits, edits + 1}
      BY <1>6 DEF GetsParams, ChangesParams, SetsSearch, SetsHref, ClientEmits, Edits, vars
  <2> QED BY <1>0, <2>1, UseStays, ArrivalSame
<1>7. CASE \E name \in ToSet(HeaderNames) : EditsHeaders(name) \/ EditsForm(name)
    BY <1>7, NamesAre, EditsHeadersArrival, EditsFormArrival
<1>8. CASE ClientWrites
  <2>1. /\ UNCHANGED <<use, call, headers, form>> /\ edits' = edits + 1
        /\ call.state = "none" /\ request' = [request EXCEPT !.given = "text"]
      BY <1>8 DEF ClientWrites, Edits, vars
  <2>2. HeadersOK' /\ FormOK'
      BY <2>1 DEF ArrivalOK, HeadersOK, FormOK, Means, Sole
  <2>3. RequestOK'
      BY <2>1 DEF ArrivalOK, RequestOK, BodyKinds
  <2>4. GotOK'
      BY <2>1, UseStays, GotSame DEF ArrivalOK
  <2> QED BY <1>0, <2>1, <2>2, <2>3, <2>4 DEF ArrivalOK
<1> QED BY <1>1, <1>2, <1>3, <1>4, <1>5, <1>6, <1>7, <1>8 DEF Next

LEMMA ArrivalArrives == ASSUME ArrivalOK PROVE HeadersArrive
<1>1. \A n \in ToSet(HeaderNames) :
          /\ ValuesOf(headers.list, n) = headers.meant[n]
          /\ ValuesOf(form.list, n) = form.meant[n]
          /\ call.state = "head" /\ Native => ValuesOf(headers.got, n) = headers.meant[n]
    BY NamesAre DEF ArrivalOK, HeadersOK, FormOK, GotOK, Means
<1>2. ASSUME NEW i \in DOMAIN headers.got, headers.got[i].name = Cookie PROVE Len(headers.got[i].values) = 1
  <2>1. headers.got \in Seq(Entry)
      BY DEF ArrivalOK, HeadersOK
  <2>2. headers.got[i] \in Entry
      BY <2>1, LenProperties, ElementOfSeq
  <2> QED BY <1>2, <2>2 DEF Entry
<1>3. request.read # "none" /\ request.given = "text" => request.read = "text"
    BY DEF ArrivalOK, RequestOK
<1> QED BY <1>1, <1>2, <1>3 DEF HeadersArrive

(***************************************************************************)
(* For any number of calls of the handler and the script, in any order,    *)
(* while bodies are read and the transfer goes on: the lists of a Headers  *)
(* and of a FormData have what the calls came to, the client's Response    *)
(* what the handler's list said when the head went out, each Set-Cookie on *)
(* its own; and a handler that reads a body sent as text reads that text.  *)
(***************************************************************************)
THEOREM HeadersArriveAlways == Spec => []HeadersArrive
<1>1. ExchangeInit => Frame /\ ArrivalOK
    BY InitFrame, InitArrival DEF ExchangeInit
<1>2. Frame /\ ArrivalOK /\ [Next]_allVars => (Frame /\ ArrivalOK)'
    BY StepFrame, StepArrival
<1>3. ArrivalOK => HeadersArrive
    BY ArrivalArrives
<1> QED BY <1>1, <1>2, <1>3, PTL DEF Spec

-----------------------------------------------------------------------------
(* The URL and its params.                                                 *)
UrlOK ==
    /\ url \in [search : Seq(QueryChars), object : Nat, torn : BOOLEAN]
    /\ objects \in Seq(Seq(AnyPair)) /\ url.object \in 0..Len(objects)
    /\ ParamsAgree

LEMMA InitUrl == ASSUME ExchangeInit PROVE UrlOK
<1>1. url = [search |-> <<>>, object |-> 0, torn |-> FALSE] /\ objects = <<>>
    BY DEF ExchangeInit
<1>2. <<>> \in Seq(QueryChars) /\ <<>> \in Seq(Seq(AnyPair)) /\ Len(<<>>) = 0
    OBVIOUS
<1> QED BY <1>1, <1>2 DEF UrlOK, ParamsAgree

LEMMA GetsParamsUrl == ASSUME UrlOK, GetsParams PROVE UrlOK'
<1>1. /\ ~Malformed(url.search) /\ objects' = Append(objects, Parsed(url.search))
      /\ url' = [url EXCEPT !.object = Len(objects')]
    BY DEF GetsParams
<1>2. url \in [search : Seq(QueryChars), object : Nat, torn : BOOLEAN] /\ objects \in Seq(Seq(AnyPair))
    BY DEF UrlOK
<1>3. PICK q \in Seq(QueryChars) : q = url.search
    BY <1>2
<1>4. PICK pairs \in Seq(AnyPair) : pairs = Parsed(q)
    BY <1>1, <1>3, ParsedTyped
<1>5. PICK new \in Seq(Seq(AnyPair)) : /\ new = Append(objects, pairs) /\ Len(new) = Len(objects) + 1
                                      /\ new[Len(new)] = pairs
  <2>1. PICK S : S = Seq(AnyPair)
      OBVIOUS
  <2>2. objects \in Seq(S) /\ pairs \in S
      BY <1>2, <2>1
  <2>3. PICK new : new = Append(objects, pairs)
      OBVIOUS
  <2>4. new \in Seq(S) /\ Len(new) = Len(objects) + 1 /\ new[Len(objects) + 1] = pairs
      BY <2>2, <2>3
  <2> QED BY <2>1, <2>3, <2>4
<1>6. Len(new) \in Nat /\ objects' = new
    BY <1>1, <1>3, <1>4, <1>5, LenProperties
<1>7. url' = [url EXCEPT !.object = Len(new)]
    BY <1>1, <1>6
<1>8. /\ url' \in [search : Seq(QueryChars), object : Nat, torn : BOOLEAN]
      /\ url'.search = q /\ url'.object = Len(new)
    BY <1>2, <1>3, <1>6, <1>7
<1>9. ParamsAgree'
    BY <1>4, <1>5, <1>6, <1>8 DEF ParamsAgree
<1> QED BY <1>5, <1>6, <1>8, <1>9 DEF UrlOK

LEMMA ChangesParamsUrl ==
    ASSUME UrlOK, NEW o \in DOMAIN objects, ChangesParams(o)
    PROVE  UrlOK'
<1>1. url \in [search : Seq(QueryChars), object : Nat, torn : BOOLEAN] /\ objects \in Seq(Seq(AnyPair))
      /\ url.object \in 0..Len(objects)
    BY DEF UrlOK
<1>2. o \in 1..Len(objects) /\ Len(objects) \in Nat /\ objects[o] \in Seq(AnyPair)
    BY <1>1, LenProperties, ElementOfSeq
<1>3. PICK pairs \in Seq(AnyPair) : objects' = [objects EXCEPT ![o] = pairs]
  <2>1. PICK name \in ToSet(Names), value \in Values :
            objects' \in {[objects EXCEPT ![o] = pairs] :
               pairs \in {Append(objects[o], <<name, value>>), SetPair(objects[o], name, value),
                          DeletedPairs(objects[o], name), DeletedPair(objects[o], name, value),
                          SortedPairs(objects[o], Names)}}
      BY DEF ChangesParams
  <2>2. PICK pairs \in {Append(objects[o], <<name, value>>), SetPair(objects[o], name, value),
                        DeletedPairs(objects[o], name), DeletedPair(objects[o], name, value),
                        SortedPairs(objects[o], Names)} : objects' = [objects EXCEPT ![o] = pairs]
      BY <2>1
  <2>3. name \in Texts /\ value \in Texts
      BY ExchangeAssumption, LenProperties, ElementOfSeq DEF ToSet
  <2>4. PICK was \in Seq(AnyPair) : was = objects[o]
      BY <1>2
  <2>5. /\ Append(was, <<name, value>>) \in Seq(AnyPair) /\ SetPair(was, name, value) \in Seq(AnyPair)
        /\ DeletedPairs(was, name) \in Seq(AnyPair) /\ DeletedPair(was, name, value) \in Seq(AnyPair)
        /\ SortedPairs(was, Names) \in Seq(AnyPair)
      BY <2>3, PairsTyped, SortedTyped, ExchangeAssumption
  <2>6. pairs \in Seq(AnyPair)
      BY <2>2, <2>4, <2>5
  <2> QED BY <2>2, <2>6
<1>4. PICK new \in Seq(Seq(AnyPair)) : new = objects' /\ Len(new) = Len(objects)
                                      /\ \A i \in 1..Len(objects) : new[i] = IF i = o THEN pairs ELSE objects[i]
  <2>1. PICK S : S = Seq(AnyPair)
      OBVIOUS
  <2>2. objects \in Seq(S) /\ pairs \in S
      BY <1>1, <2>1
  <2>3. /\ [objects EXCEPT ![o] = pairs] \in Seq(S) /\ Len([objects EXCEPT ![o] = pairs]) = Len(objects)
        /\ \A i \in 1..Len(objects) : [objects EXCEPT ![o] = pairs][i] = IF i = o THEN pairs ELSE objects[i]
      BY <1>2, <2>2, ExceptSeq
  <2> QED BY <1>3, <2>1, <2>3
<1>5. url' = IF url.object = 0 THEN url
             ELSE IF Encodes(new[url.object]) THEN [url EXCEPT !.search = Serialized(new[url.object]), !.torn = FALSE]
             ELSE [url EXCEPT !.torn = url.torn \/ new[url.object] # objects[url.object]]
    BY <1>4 DEF ChangesParams, Shown
<1>6. CASE url.object = 0
    BY <1>1, <1>4, <1>5, <1>6 DEF UrlOK, ParamsAgree
<1>7. CASE url.object # 0
  <2>1. url.object \in 1..Len(objects)
      BY <1>1, <1>2, <1>7
  <2>2. PICK k \in 1..Len(objects) : k = url.object
      BY <2>1
  <2>3. PICK now \in Seq(AnyPair) : now = new[k]
      BY <1>4, <2>2, ElementOfSeq
  <2>4. CASE Encodes(now)
    <3>1. PICK q \in Seq(QueryChars) : q = Serialized(now) /\ Parsed(q) = now
        BY <2>4, RoundTrip
    <3>2. url' = [url EXCEPT !.search = q, !.torn = FALSE]
        BY <1>5, <1>7, <2>2, <2>3, <2>4, <3>1
    <3>3. /\ url' \in [search : Seq(QueryChars), object : Nat, torn : BOOLEAN]
          /\ url'.search = q /\ url'.object = k
        BY <1>1, <2>2, <3>2
    <3>4. ParamsAgree'
        BY <1>4, <2>3, <3>1, <3>3 DEF ParamsAgree
    <3> QED BY <1>1, <1>4, <2>2, <3>3, <3>4 DEF UrlOK
  <2>5. CASE ~Encodes(now)
    <3>1. PICK torn \in BOOLEAN : torn = (url.torn \/ now # objects[k])
        OBVIOUS
    <3>2. url' = [url EXCEPT !.torn = torn]
        BY <1>5, <1>7, <2>2, <2>3, <2>5, <3>1
    <3>3. /\ url' \in [search : Seq(QueryChars), object : Nat, torn : BOOLEAN]
          /\ url'.search = url.search /\ url'.object = k /\ url'.torn = torn
        BY <1>1, <2>2, <3>2
    <3>4. url.object # 0 /\ ~url.torn => Parsed(url.search) = objects[k]
        BY <2>2 DEF UrlOK, ParamsAgree
    <3>5. ASSUME ~torn PROVE Parsed(url.search) = now
        BY <1>7, <3>1, <3>4, <3>5
    <3>6. ParamsAgree'
        BY <1>4, <2>3, <3>3, <3>5 DEF ParamsAgree
    <3> QED BY <1>1, <1>4, <2>2, <3>3, <3>6 DEF UrlOK
  <2> QED BY <2>4, <2>5
<1> QED BY <1>6, <1>7

LEMMA SetsSearchUrl ==
    ASSUME UrlOK, NEW query \in Queries, SetsSearch(query) \/ SetsHref(query)
    PROVE  UrlOK'
<1>1. url \in [search : Seq(QueryChars), object : Nat, torn : BOOLEAN] /\ objects \in Seq(Seq(AnyPair))
      /\ url.object \in 0..Len(objects) /\ Len(objects) \in Nat
    BY LenProperties DEF UrlOK
<1>2. query \in Seq(QueryChars)
    BY ExchangeAssumption
<1>3. CASE SetsHref(query)
  <2>1. url' = [search |-> query, object |-> 0, torn |-> FALSE] /\ objects' = objects
      BY <1>3 DEF SetsHref
  <2> QED BY <1>1, <1>2, <2>1 DEF UrlOK, ParamsAgree
<1>4. CASE SetsSearch(query)
  <2>1. /\ url' = [url EXCEPT !.search = query, !.torn = url.object # 0 /\ Malformed(query)]
        /\ objects' = IF url.object = 0 \/ Malformed(query) THEN objects ELSE [objects EXCEPT ![url.object] = Parsed(query)]
      BY <1>4 DEF SetsSearch
  <2>2. PICK torn \in BOOLEAN : torn = (url.object # 0 /\ Malformed(query))
      OBVIOUS
  <2>3. /\ url' \in [search : Seq(QueryChars), object : Nat, torn : BOOLEAN]
        /\ url'.search = query /\ url'.object = url.object /\ url'.torn = torn
      BY <1>1, <1>2, <2>1, <2>2
  <2>4. CASE url.object = 0 \/ Malformed(query)
    <3>1. objects' = objects
        BY <2>1, <2>4
    <3>2. ParamsAgree'
        BY <2>2, <2>3, <2>4 DEF ParamsAgree
    <3> QED BY <1>1, <2>3, <3>1, <3>2 DEF UrlOK
  <2>5. CASE ~(url.object = 0 \/ Malformed(query))
    <3>1. PICK k \in 1..Len(objects) : k = url.object
        BY <1>1, <2>5
    <3>2. PICK pairs \in Seq(AnyPair) : pairs = Parsed(query)
        BY <1>2, <2>5, ParsedTyped
    <3>3. objects' = [objects EXCEPT ![k] = pairs]
        BY <2>1, <2>5, <3>1, <3>2
    <3>4. PICK new \in Seq(Seq(AnyPair)) : new = objects' /\ Len(new) = Len(objects) /\ new[k] = pairs
      <4>1. PICK S : S = Seq(AnyPair)
          OBVIOUS
      <4>2. objects \in Seq(S) /\ pairs \in S
          BY <1>1, <4>1
      <4>3. /\ [objects EXCEPT ![k] = pairs] \in Seq(S) /\ Len([objects EXCEPT ![k] = pairs]) = Len(objects)
            /\ \A i \in 1..Len(objects) : [objects EXCEPT ![k] = pairs][i] = IF i = k THEN pairs ELSE objects[i]
          BY <3>1, <4>2, ExceptSeq
      <4> QED BY <3>1, <3>3, <4>1, <4>3
    <3>5. ParamsAgree'
        BY <2>3, <3>1, <3>2, <3>4 DEF ParamsAgree
    <3> QED BY <1>1, <2>3, <3>4, <3>5 DEF UrlOK
  <2> QED BY <2>4, <2>5
<1> QED BY <1>3, <1>4

LEMMA StepUrl == ASSUME UrlOK, [Next]_allVars PROVE UrlOK'
<1>1. ASSUME UNCHANGED <<url, objects>> PROVE UrlOK'
    BY <1>1 DEF UrlOK, ParamsAgree
<1>2. CASE UNCHANGED allVars \/ (BodyNext /\ UNCHANGED exchangeVars) \/ Fetches \/ HandlerCalled \/ RequestReads
           \/ Responds \/ ClientWrites \/ ClientEmits
    BY <1>1, <1>2 DEF allVars, exchangeVars, Fetches, HandlerCalled, RequestReads, Responds, ClientWrites, ClientEmits
<1>3. CASE GetsParams
    BY <1>3, GetsParamsUrl
<1>4. CASE \E o \in DOMAIN objects : ChangesParams(o)
    BY <1>4, ChangesParamsUrl
<1>5. CASE \E query \in Queries : SetsSearch(query) \/ SetsHref(query)
    BY <1>5, SetsSearchUrl
<1>6. CASE \E name \in ToSet(HeaderNames) : EditsHeaders(name) \/ EditsForm(name)
    BY <1>1, <1>6 DEF EditsHeaders, EditsForm
<1> QED BY <1>2, <1>3, <1>4, <1>5, <1>6 DEF Next

(***************************************************************************)
(* For any names, values and queries: a URL and the params object it hands *)
(* out say the same, whichever was written last and through whichever      *)
(* object, until a query that does not decode, or a text that does not     *)
(* encode, has torn them; what is written for a list of pairs that encodes *)
(* is read back as that list.                                              *)
(***************************************************************************)
THEOREM ParamsAgreeAlways == Spec => []ParamsAgree
<1>1. ExchangeInit => UrlOK
    BY InitUrl
<1>2. UrlOK /\ [Next]_allVars => UrlOK'
    BY StepUrl
<1>3. UrlOK => ParamsAgree
    BY DEF UrlOK
<1> QED BY <1>1, <1>2, <1>3, PTL DEF Spec
=============================================================================
