------------------------------- MODULE Bodies -------------------------------
(***************************************************************************)
(* The body of a Response (src/bootstrap.js) and all that reads it: text() *)
(* and its like, the body stream, a BYOB reader, tee(), clone() and the    *)
(* adapter of Sxn.serve; with the fetch() that makes the Response.         *)
(*                                                                         *)
(*    source -> raw -> text(), text() again, reply                         *)
(*              raw -> body -> user           (body is raw for a script's  *)
(*              raw -> body -> one, two        own ReadableStream)         *)
(*                                                                         *)
(* A body is in memory ("static"), a ReadableStream of the script's        *)
(* ("stream"), or the stream of a fetch ("native", src/network.c), which   *)
(* any number of readers may take and which keeps one read() only.         *)
(***************************************************************************)
EXTENDS ReadableStream, FiniteSets

CONSTANTS
    NumChunks,   \* bound: chunks a source makes
    Length,      \* how many bytes each has
    Room,        \* bytes of the view a BYOB reader is given
    Uses         \* the scripts explored: form of the body, and what is done with it

ASSUME BodyAssumption ==
    /\ NumChunks \in Nat \ {0} /\ Room \in Nat \ {0}
    /\ 1..NumChunks \subseteq DOMAIN Length \cap DOMAIN SizeOf
    /\ \A c \in 1..NumChunks : Length[c] \in Nat \ {0}
ASSUME UsesAssumption == \A u \in Uses : u.form \in {"static", "stream", "native"} /\ u.most \in 0..NumChunks

Streams == {"raw", "body", "one", "two"}
Loops == {"text", "again", "reply"}
Users == {"user", "one", "two"}
Readers == Loops \cup Users \cup {"copy"}

VARIABLES
    use,      \* the script: [form, does, most: the bound of the chunks its source makes]
    streams, opened,
    takers,   \* who has called getReader() of each stream
    asks,     \* whose read() is answered or waits, in the order of the calls
    state,    \* of each reader: "idle", "reading", "whole", "failed", "cancelled"
    got,      \* the bytes each was given
    tee,      \* the pump: is it reading, for which branch, who has cancelled
    byob,     \* what did not fit into the view; "lost" once it was overwritten
    source,   \* chunks made, whether that was all; told to stop, or missed by a cancel()
    call      \* the fetch

bodyVars == <<streams, opened, takers, asks, state, got, tee, byob>>
vars == <<use, bodyVars, source, call>>

Native == use.form = "native"
Static == use.form = "static"
Does(what) == what \in use.does
Body == IF use.form = "stream" THEN "raw" ELSE "body"
StreamOf(u) == IF u = "user" THEN Body ELSE u
Bytes(c) == [i \in 1..Length[c] |-> <<c, i>>]
Everything == FlattenSeq([c \in 1..source.made |-> Bytes(c)])
Settled(r) == state[r] \in {"whole", "failed", "cancelled"}

(* Response(): a body in memory, a stream, or the stream of a fetch.       *)
Init ==
    /\ use \in Uses
    /\ streams = [s \in Streams |-> NewReadable(s # "raw" \/ ~Native, FALSE)]
    /\ opened = IF Static THEN {} ELSE {"raw"}
    /\ takers = [s \in Streams |-> {}]
    /\ asks = [s \in Streams |-> <<>>]
    /\ state = [r \in Readers |-> "idle"] /\ got = [r \in Readers |-> <<>>]
    /\ tee = [reading |-> FALSE, for |-> "one", cancelled |-> {}]
    /\ byob = [left |-> <<>>, lost |-> FALSE]
    /\ source = [made |-> IF Static THEN 1 ELSE 0, ended |-> Static, stopped |-> FALSE, missed |-> FALSE]
    /\ call = [state |-> IF Native THEN "none" ELSE "head", aborted |-> FALSE, redirect |-> FALSE]

-----------------------------------------------------------------------------
(* The stream of a fetch: one waiting read, an error told once.            *)
NativeRead(s) ==
    IF s.queue # <<>> THEN [s EXCEPT !.queue = Tail(@), !.got = Append(@, Head(s.queue))]
    ELSE IF s.state = "errored" THEN [s EXCEPT !.state = "closed", !.got = Append(@, Failed)]
    ELSE IF s.state = "closed" THEN [s EXCEPT !.got = Append(@, End)]
    ELSE [s EXCEPT !.reads = 1]
NativeFailed(s) ==
    IF s.reads > 0 THEN [Answered(s, Failed) EXCEPT !.state = "closed"] ELSE [s EXCEPT !.state = "errored"]
NativeCancelled(s) == IF s.state = "readable" THEN [s EXCEPT !.state = "closed", !.queue = <<>>] ELSE s

(* A read() by r: in the native stream it takes the place of one that      *)
(* waits, whose promise then never settles.                                *)
ReadOf(s, stream) == IF s = "raw" /\ Native THEN NativeRead(stream) ELSE ReadMade(stream)
AskedBy(r, s, stream, asked) ==
    [asks EXCEPT ![s] = Append(IF s = "raw" /\ Native THEN SubSeq(asked, 1, Len(stream.got)) ELSE asked, r)]

(* An answered read() gets to the reader that made it.                     *)
Heard(r, s) == asks[s] # <<>> /\ Head(asks[s]) = r /\ streams[s].got # <<>>
Answer(s) == Head(streams[s].got)
Taken(s) == [streams[s] EXCEPT !.got = Tail(@)]
AskedOff(s) == [asks EXCEPT ![s] = Tail(@)]
Outcome(answer) == IF answer = End THEN "whole" ELSE "failed"

-----------------------------------------------------------------------------
(* The source of the raw stream: a pull() of the script, or the transfer,  *)
(* whose callbacks the loop calls when no job is left to run.              *)
JobsDone ==
    /\ \A s \in Streams : streams[s].pull \notin {"called", "acted"} /\ streams[s].got = <<>>
    /\ \A s \in opened : streams[s].started \/ s = "raw"
    /\ call.state # "answered"
SourceActs ==
    /\ "raw" \in opened /\ ~source.stopped
    /\ IF Native THEN call.state \in {"head", "refused"} /\ JobsDone /\ streams["raw"].state = "readable"
                 ELSE streams["raw"].pull = "running" /\ CanEnqueue(streams["raw"])
Acts(s) == IF Native THEN s ELSE [s EXCEPT !.pull = "acted"]

SourceEnqueues ==
    /\ SourceActs /\ source.made < use.most
    /\ source' = [source EXCEPT !.made = @ + 1]
    /\ streams' = [streams EXCEPT !["raw"] = Enqueued(Acts(@), source'.made)]
    /\ UNCHANGED <<use, opened, takers, asks, state, got, tee, byob, call>>

SourceEnds ==
    /\ SourceActs
    /\ source' = [source EXCEPT !.ended = TRUE]
    /\ streams' = [streams EXCEPT !["raw"] = IF Native THEN ReadableClosed(@) ELSE CloseRequested(Acts(@))]
    /\ UNCHANGED <<use, opened, takers, asks, state, got, tee, byob, call>>

SourceFails ==
    /\ SourceActs /\ Does("fail")
    /\ streams' = [streams EXCEPT !["raw"] = IF Native THEN NativeFailed(@) ELSE ReadableErrored(Acts(@))]
    /\ UNCHANGED <<use, opened, takers, asks, state, got, tee, byob, source, call>>

-----------------------------------------------------------------------------
(* text(), json(), arrayBuffer(), blob(), and what Sxn.serve makes of a    *)
(* Response: in memory, or a loop of reads over the raw stream.            *)
LoopStarts(r) ==
    /\ call.state = "head" /\ Does(r) /\ state[r] = "idle"
    /\ (r = "again" => state["text"] # "idle")
    /\ \/ /\ Static
          /\ state' = [state EXCEPT ![r] = "whole"]
          /\ got' = [got EXCEPT ![r] = Everything]
          /\ UNCHANGED <<streams, takers, asks>>
       \/ /\ ~Static /\ ~Native /\ takers["raw"] # {}
          /\ state' = [state EXCEPT ![r] = "failed"]
          /\ UNCHANGED <<streams, takers, asks, got>>
       \/ /\ Native \/ (~Static /\ takers["raw"] = {})
          /\ state' = [state EXCEPT ![r] = "reading"]
          /\ takers' = [takers EXCEPT !["raw"] = @ \cup {r}]
          /\ streams' = [streams EXCEPT !["raw"] = ReadOf("raw", @)]
          /\ asks' = AskedBy(r, "raw", streams["raw"], asks["raw"])
          /\ UNCHANGED got
    /\ UNCHANGED <<use, opened, tee, byob, source, call>>

(* One turn of the loop: the answer, and the next read().                  *)
LoopHears(r) ==
    /\ r \in Loops /\ Heard(r, "raw")
    /\ LET answer == Answer("raw")
           taken == Taken("raw")
       IN  IF answer \in {End, Failed}
           THEN /\ state' = [state EXCEPT ![r] = Outcome(answer)]
                /\ streams' = [streams EXCEPT !["raw"] = taken]
                /\ asks' = AskedOff("raw")
                /\ UNCHANGED got
           ELSE /\ got' = [got EXCEPT ![r] = @ \o Bytes(answer)]
                /\ streams' = [streams EXCEPT !["raw"] = ReadOf("raw", taken)]
                /\ asks' = AskedBy(r, "raw", taken, Tail(asks["raw"]))
                /\ UNCHANGED state
    /\ UNCHANGED <<use, opened, takers, tee, byob, source, call>>

-----------------------------------------------------------------------------
(* The body getter: a stream of one chunk, or a wrapper of the native one. *)
OpensBody ==
    /\ call.state = "head" /\ Does("body") /\ Body = "body" /\ "body" \notin opened
    /\ opened' = opened \cup {"body"}
    /\ streams' = [streams EXCEPT !["body"] = NewReadable(Native, FALSE)]
    /\ UNCHANGED <<use, takers, asks, state, got, tee, byob, source, call>>

(* start(): singleChunkStream has it all then, wrapNativeStream takes the  *)
(* native stream, a branch of tee() keeps its controller.                  *)
StreamStarts(s) ==
    /\ s \in opened /\ ~streams[s].started /\ ~(s = "raw" /\ Native)
    /\ streams' = [streams EXCEPT ![s] =
                      Started(IF s = "body" /\ Static /\ CanEnqueue(@)
                              THEN CloseRequested(Enqueued(@, 1)) ELSE @)]
    /\ takers' = IF s = "body" /\ Native THEN [takers EXCEPT !["raw"] = @ \cup {"wrap"}] ELSE takers
    /\ UNCHANGED <<use, opened, asks, state, got, tee, byob, source, call>>

(* pull() is called: the script's source's, the wrapper's, or the pump of  *)
(* tee(), which is done at once if it is reading already.                  *)
PumpBusy == tee.reading
PullIsCalled(s) ==
    /\ streams[s].pull = "called"
    /\ LET below == IF s = "body" THEN "raw" ELSE Body
           reader == IF s = "body" THEN "wrap" ELSE "tee"
       IN  \/ /\ s = "raw"
              /\ streams' = [streams EXCEPT ![s] = PullCalled(@)]
              /\ UNCHANGED <<asks, tee>>
           \/ /\ s \in {"one", "two"} /\ PumpBusy
              /\ streams' = [streams EXCEPT ![s].pull = "acted"]
              /\ UNCHANGED <<asks, tee>>
           \/ /\ s = "body" \/ (s \in {"one", "two"} /\ ~PumpBusy)
              /\ streams' = [streams EXCEPT ![s] = PullCalled(@), ![below] = ReadOf(below, @)]
              /\ asks' = AskedBy(reader, below, streams[below], asks[below])
              /\ tee' = IF s = "body" THEN tee ELSE [tee EXCEPT !.reading = TRUE, !.for = s]
    /\ UNCHANGED <<use, opened, takers, state, got, byob, source, call>>

PullSettles(s) ==
    /\ streams[s].pull = "acted"
    /\ streams' = [streams EXCEPT ![s] = PullEnded(@)]
    /\ UNCHANGED <<use, opened, takers, asks, state, got, tee, byob, source, call>>

(* What a branch, or the body, makes of the answer from below; enqueue and *)
(* close throw for a stream that is not readable any more.                 *)
Passed(s, answer) ==
    IF answer = Failed THEN ReadableErrored(s)
    ELSE IF ~CanEnqueue(s) THEN s
    ELSE IF answer = End THEN CloseRequested(s)
    ELSE Enqueued(s, answer)

WrapHears ==
    /\ Heard("wrap", "raw")
    /\ streams' = [streams EXCEPT !["raw"] = Taken("raw"),
                                  !["body"] = [Passed(@, Answer("raw")) EXCEPT !.pull = "acted"]]
    /\ asks' = AskedOff("raw")
    /\ UNCHANGED <<use, opened, takers, state, got, tee, byob, source, call>>

-----------------------------------------------------------------------------
(* tee().                                                                  *)
Tees ==
    /\ call.state = "head" /\ Does("tee") /\ Body \in opened /\ takers[Body] = {}
    /\ takers' = [takers EXCEPT ![Body] = {"tee"}]
    /\ opened' = opened \cup {"one", "two"}
    /\ UNCHANGED <<use, streams, asks, state, got, tee, byob, source, call>>

(* The pump hears: both branches, but those cancelled, get the same.       *)
Branches_First == {tee.for} \ tee.cancelled
Branches == {"one", "two"} \ tee.cancelled
TeeHears ==
    /\ Heard("tee", Body)
    /\ tee' = [tee EXCEPT !.reading = FALSE]
    /\ asks' = AskedOff(Body)
    /\ streams' = [s \in Streams |->
           LET told == IF s = Body THEN Taken(s)
                       ELSE IF s \in Branches THEN Passed(streams[s], Answer(Body)) ELSE streams[s]
           IN  IF s = tee.for THEN [told EXCEPT !.pull = "acted"] ELSE told]
    /\ UNCHANGED <<use, opened, takers, state, got, byob, source, call>>

-----------------------------------------------------------------------------
(* The script reads the body, or a branch: with a default reader, or with  *)
(* a BYOB reader that fills a view and keeps the rest.                     *)
Waiting(u) == Cardinality({i \in DOMAIN asks[StreamOf(u)] : asks[StreamOf(u)][i] = u})
Byob(u) == u = "user" /\ Does("byob")
Keeps_Nothing(bytes) == <<>>
Keeps(bytes) == SubSeq(bytes, Room + 1, Len(bytes))
Fill(u, bytes) ==
    /\ got' = [got EXCEPT ![u] = @ \o SubSeq(bytes, 1, IF Byob(u) /\ Room < Len(bytes) THEN Room ELSE Len(bytes))]
    /\ byob' = IF Byob(u) THEN [byob EXCEPT !.left = Keeps(bytes)] ELSE byob

UserReads(u) ==
    /\ call.state = "head" /\ Does("read") /\ StreamOf(u) \in opened
    /\ Waiting(u) < (IF Does("ahead") THEN 2 ELSE 1)
    /\ \/ /\ state[u] = "idle" /\ takers[StreamOf(u)] # {}
          /\ state' = [state EXCEPT ![u] = "failed"]
          /\ UNCHANGED <<streams, takers, asks, got, byob>>
       \/ /\ state[u] = "reading" /\ Byob(u) /\ byob.left # <<>>
          /\ Fill(u, byob.left)
          /\ UNCHANGED <<streams, takers, asks, state>>
       \/ /\ state[u] = "idle" => takers[StreamOf(u)] = {}
          /\ ~Settled(u) /\ ~(Byob(u) /\ byob.left # <<>>)
          /\ state' = [state EXCEPT ![u] = "reading"]
          /\ takers' = [takers EXCEPT ![StreamOf(u)] = @ \cup {u}]
          /\ streams' = [streams EXCEPT ![StreamOf(u)] = ReadOf(StreamOf(u), @)]
          /\ asks' = AskedBy(u, StreamOf(u), streams[StreamOf(u)], asks[StreamOf(u)])
          /\ UNCHANGED <<got, byob>>
    /\ UNCHANGED <<use, opened, tee, source, call>>

UserHears(u) ==
    /\ Heard(u, StreamOf(u))
    /\ streams' = [streams EXCEPT ![StreamOf(u)] = Taken(StreamOf(u))]
    /\ asks' = AskedOff(StreamOf(u))
    /\ LET answer == Answer(StreamOf(u))
       IN  IF answer \in {End, Failed}
           THEN /\ state' = [state EXCEPT ![u] = IF Settled(u) THEN @ ELSE Outcome(answer)]
                /\ UNCHANGED <<got, byob>>
           ELSE /\ (Byob(u) => byob.left = <<>>)
                /\ Fill(u, Bytes(answer))
                /\ UNCHANGED state
    /\ UNCHANGED <<use, opened, takers, tee, source, call>>

(* A second read() that was made before the first one's rest was kept      *)
(* overwrites it: those bytes are lost.                                    *)
UserOverwrites(u) ==
    /\ Heard(u, StreamOf(u)) /\ Byob(u) /\ byob.left # <<>>
    /\ Answer(StreamOf(u)) \notin {End, Failed}
    /\ streams' = [streams EXCEPT ![StreamOf(u)] = Taken(StreamOf(u))]
    /\ asks' = AskedOff(StreamOf(u))
    /\ LET bytes == Bytes(Answer(StreamOf(u)))
       IN  /\ got' = [got EXCEPT ![u] = @ \o SubSeq(bytes, 1, IF Room < Len(bytes) THEN Room ELSE Len(bytes))]
           /\ byob' = [left |-> Keeps(bytes), lost |-> TRUE]
    /\ UNCHANGED <<use, opened, takers, state, tee, source, call>>

(* reader.cancel(): of the body, of a branch; what the last of two         *)
(* branches cancels is the body below, and a wrapper cancels the transfer. *)
(* The wrapper has no reader to cancel before its start() has run.         *)
WrapStarted == streams["body"].started
BothCancel_Either(cancelled) == cancelled # {}
BothCancel(cancelled) == cancelled = {"one", "two"}
UserCancels(u) ==
    /\ Does("cancel") /\ state[u] = "reading" /\ streams[StreamOf(u)].state = "readable"
    /\ state' = [state EXCEPT ![u] = "cancelled"]
    /\ LET cancelled == tee.cancelled \cup ({u} \ {"user"})
           reached == {StreamOf(u)} \cup IF u # "user" /\ BothCancel(cancelled) THEN {Body} ELSE {}
           wrapped == "body" \in reached /\ Native /\ streams["body"].state = "readable"
           below == IF wrapped /\ WrapStarted THEN {"raw"} ELSE {}
       IN  /\ tee' = [tee EXCEPT !.cancelled = cancelled]
           /\ streams' = [s \in Streams |->
                  IF s \in below THEN NativeCancelled(streams[s])
                  ELSE IF s \in reached THEN ReadableCancelled(streams[s]) ELSE streams[s]]
           /\ asks' = IF below = {} THEN asks ELSE [asks EXCEPT !["raw"] = SubSeq(@, 1, Len(streams["raw"].got))]
           /\ source' = [source EXCEPT !.stopped = @ \/ "raw" \in reached \cup below,
                                         !.missed = @ \/ (wrapped /\ ~WrapStarted)]
    /\ UNCHANGED <<use, opened, takers, got, byob, call>>

(* clone(): of a body in memory a copy, of a stream an empty body; of one  *)
(* that is used it throws.                                                 *)
Clones ==
    /\ call.state = "head" /\ Does("clone") /\ state["copy"] = "idle"
    /\ state' = [state EXCEPT !["copy"] = IF \E r \in {"text", "again"} : state[r] # "idle" THEN "failed" ELSE "whole"]
    /\ got' = [got EXCEPT !["copy"] = IF Static /\ state'["copy"] = "whole" THEN Everything ELSE <<>>]
    /\ UNCHANGED <<use, streams, opened, takers, asks, tee, byob, source, call>>

-----------------------------------------------------------------------------
(* fetch(): refused if its signal is aborted already.                      *)
FetchCalls ==
    /\ call.state = "none"
    /\ call' = [call EXCEPT !.state = IF call.aborted THEN "refused" ELSE "asked"]
    /\ UNCHANGED <<use, bodyVars, source>>

HeadArrives ==
    /\ call.state = "asked"
    /\ \E redirect \in BOOLEAN :
           /\ redirect => Does("redirect")
           /\ call' = [call EXCEPT !.state = "answered", !.redirect = redirect]
    /\ UNCHANGED <<use, bodyVars, source>>

TransferFails ==
    /\ call.state = "asked" /\ Does("fail")
    /\ call' = [call EXCEPT !.state = "refused"]
    /\ streams' = [streams EXCEPT !["raw"].state = "closed"]
    /\ UNCHANGED <<use, opened, takers, asks, state, got, tee, byob, source>>

(* The reaction of the promise: a Response, or redirect was "error".       *)
HeadHeard ==
    /\ call.state = "answered"
    /\ call' = [call EXCEPT !.state = IF call.redirect THEN "refused" ELSE "head"]
    /\ UNCHANGED <<use, bodyVars, source>>

(* abort() of the signal: the transfer is torn down, if it is not over.    *)
TornDown(s) == IF s.state = "readable" THEN [NativeFailed(s) EXCEPT !.queue = <<>>] ELSE s
Aborts ==
    /\ Native /\ Does("abort") /\ ~call.aborted
    /\ call' = [call EXCEPT !.aborted = TRUE, !.state = IF @ = "asked" THEN "refused" ELSE @]
    /\ streams' = IF call.state = "none" THEN streams ELSE [streams EXCEPT !["raw"] = TornDown(@)]
    /\ UNCHANGED <<use, opened, takers, asks, state, got, tee, byob, source>>

-----------------------------------------------------------------------------
Source == SourceEnqueues \/ SourceEnds \/ SourceFails
Job ==
    \/ \E s \in Streams : StreamStarts(s) \/ PullIsCalled(s) \/ PullSettles(s)
    \/ \E r \in Loops : LoopHears(r)
    \/ \E u \in Users : UserHears(u) \/ UserOverwrites(u)
    \/ WrapHears \/ TeeHears
Fetch == HeadArrives \/ TransferFails \/ Aborts
Script ==
    \/ \E r \in Loops : LoopStarts(r)
    \/ \E u \in Users : UserReads(u) \/ UserCancels(u)
    \/ OpensBody \/ Tees \/ Clones

(* All but FetchCalls and HeadHeard, which carry more than the body.       *)
BodyNext == Source \/ Job \/ Fetch \/ Script
GoesOn == Job \/ SourceEnds \/ \E u \in Users : state[u] = "reading" /\ UserReads(u)

-----------------------------------------------------------------------------
Alone == ~Native \/ Cardinality(takers["raw"]) <= 1
Given(r) == IF r = "user" THEN got[r] \o byob.left ELSE got[r]

(* The reads that wait or are answered are those their readers have made;  *)
(* a stream of the script's has one reader.                                *)
TypeOK ==
    /\ \A s \in Streams : Len(asks[s]) = Len(streams[s].got) + (IF s = "raw" /\ Native /\ source.stopped THEN 0 ELSE streams[s].reads)
    /\ \A s \in Streams : s # "raw" \/ ~Native => Cardinality(takers[s]) <= 1
    /\ \A s \in Streams \ {"raw"} : streams[s] \in ReadableType(1..NumChunks)
    /\ tee.reading <=> \E i \in DOMAIN asks[Body] : asks[Body][i] = "tee"

(* Whoever is told the end has every byte, in order and once, and the      *)
(* source did end; before that, and if it fails, it has the first ones --  *)
(* through text(), the body stream, a BYOB reader, or either branch of     *)
(* tee().  Not so for two readers of one native stream, for reads a BYOB   *)
(* reader was asked for ahead, and for the clone of a stream.              *)
WholeBodyOrError ==
    \A r \in Readers :
        (r = "copy" => Static) /\ Alone /\ ~(r = "user" /\ byob.lost) =>
            /\ IsPrefix(Given(r), Everything)
            /\ state[r] = "whole" => source.ended /\ Given(r) = Everything

(* Both, whichever of them reads first, twice, ahead or not at all.        *)
BodiesArrive == TypeOK /\ WholeBodyOrError

(* A source is told to stop when nobody wants its body any more: the one   *)
(* reader, or both branches, have cancelled -- then, and not before, but   *)
(* for a cancel() that comes before the wrapper's start().                 *)
StoppedIfUnwanted ==
    Alone =>
        /\ source.stopped => \A r \in Readers : state[r] # "reading"
        /\ \/ tee.cancelled = {"one", "two"}
           \/ state["user"] = "cancelled"
           => source.stopped \/ source.ended \/ Static \/ streams["raw"].state # "readable"
              \/ source.missed
=============================================================================
