----------------------------- MODULE NodeStreams -----------------------------
(***************************************************************************)
(* node:stream and the streams of node:http, node:zlib, node:fs and        *)
(* node:child_process that are built on it (src/node_compat.js).           *)
(*                                                                         *)
(*    src --pipe--> [mid] --pipe--> dst      or a consumer of src or mid   *)
(*                                                                         *)
(* An emit calls its listeners at once, so a chunk goes down the chain on  *)
(* one call stack: "stack" has the calls under way, the innermost last,    *)
(* and the script only runs when it is empty or inside a data listener.    *)
(* "jobs" are the microtasks in their order.  A chunk is a sequence of     *)
(* bytes, the numbers the source makes.                                    *)
(***************************************************************************)
EXTENDS Integers, Sequences, SequencesExt

CONSTANTS
    Chains     \* the chains explored: source, middle, sink, and bounds: "most" bytes made, a
               \* chunk so "wide", so many times pause(), end(), unpipe(), destroy() by the script

ASSUME ChainAssumption ==
    Chains \subseteq
        [source : {"push", "pull", "body"},
         middle : {"none", "map", "later", "collect"},
         sink : {"writable", "final", "response", "listener", "reader", "iterator", "lines"},
         most : Nat, wide : Nat, times : Nat]

VARIABLES
    chain,      \* which chain it is
    r,          \* the readable halves, of "src" and "mid"
    held,       \* chunks whose _write or _transform has not called back
    sink,       \* dst: "open", "ending" (in _final), "ended", "finished"
    listening,  \* the readables whose consumer has its listeners on
    watching,   \* the events of dst that finished() has a listener on
    jobs, stack,
    log         \* what was made, written, heard, told and meddled with

vars == <<chain, r, held, sink, listening, watching, jobs, stack, log>>

Null == <<>>        \* push(null), and the end a consumer hears
Failed == <<-1>>    \* the error a consumer hears
Halves == {"src", "mid"}
Outlet == IF chain.middle = "none" THEN "src" ELSE "mid"
Parts == {"src", Outlet}
Piping == chain.sink \in {"writable", "final", "response"}

Readable == [buf |-> <<>>, flowing |-> FALSE, ended |-> FALSE, endEmitted |-> FALSE, busy |-> FALSE]

Init ==
    /\ chain \in Chains
    /\ r = [x \in Halves |-> Readable]
    /\ held = [mid |-> <<>>, dst |-> <<>>]
    /\ sink = "open"
    /\ listening = {} /\ watching = {}
    /\ jobs = <<>> /\ stack = <<>>
    /\ log = [made |-> [x \in Halves |-> <<>>], wrote |-> [mid |-> <<>>, dst |-> <<>>],
              heard |-> <<>>, told |-> <<>>, settled |-> <<>>,
              meddled |-> {}, destroyed |-> {}, times |-> 0]

Job(do, x) == [do |-> do, at |-> x]
Call(do, x, c) == [do |-> do, at |-> x, chunk |-> c]
Running(do) == stack # <<>> /\ stack[Len(stack)].do = do
Top == stack[Len(stack)]
ScriptRuns == stack = <<>> \/ Running("listener")

(* maybeEndReadable                                                        *)
Ends_Early(q) == q.ended /\ ~q.endEmitted
Ends(q) == q.ended /\ q.buf = <<>> /\ ~q.endEmitted
MaybeEnded(q) == IF Ends(q) THEN [q EXCEPT !.endEmitted = TRUE] ELSE q
EndJob(x, q) == IF Ends(q) THEN <<Job("end", x)>> ELSE <<>>

(* _read: Readable.from and fromWeb pull once, and a request's body is     *)
(* pushed once, as is its end.                                             *)
ReadCalls(x) ==
    IF x = "src" /\ chain.source = "body" /\ ~r[x].busy
    THEN <<Call("push", x, Null), Call("push", x, [i \in 1..chain.most |-> i])>>
    ELSE <<>>
ReadBegun(x, q) == IF x = "src" /\ chain.source # "push" THEN [q EXCEPT !.busy = TRUE] ELSE q

-----------------------------------------------------------------------------
(* Readable.prototype.push: a flowing stream hands the chunk on at once.   *)
Pushes ==
    /\ Running("push")
    /\ LET x == Top.at
           q == IF Top.chunk = Null THEN [r[x] EXCEPT !.ended = TRUE]
                ELSE [r[x] EXCEPT !.buf = Append(@, Top.chunk)]
       IN  IF Top.chunk = Null
           THEN /\ r' = [r EXCEPT ![x] = MaybeEnded(q)]
                /\ jobs' = jobs \o EndJob(x, q)
                /\ stack' = Front(stack)
                /\ UNCHANGED log
           ELSE /\ r' = [r EXCEPT ![x] = q]
                /\ stack' = Front(stack) \o IF q.flowing THEN <<Call("drain", x, Null)>> ELSE <<>>
                /\ log' = [log EXCEPT !.made[x] = @ \o Top.chunk,
                                      !.meddled = IF q.ended THEN @ \cup {"late"} ELSE @]
                /\ UNCHANGED jobs
    /\ UNCHANGED <<chain, held, sink, listening, watching>>

(* drainReadable, its loop.  The data goes to the consumer's listener.     *)
Flows(x) == Running("drain") /\ Top.at = x /\ r[x].flowing /\ r[x].buf # <<>>
Chunk(x) == Head(r[x].buf)
Taken_Clears(x) == [r EXCEPT ![x].buf = <<>>]
Taken(x) == [r EXCEPT ![x].buf = Tail(@)]

DrainEnds ==
    /\ Running("drain")
    /\ LET x == Top.at
           reads == r[x].flowing /\ ~r[x].ended
       IN  /\ ~Flows(x)
           /\ r' = [r EXCEPT ![x] = IF reads THEN ReadBegun(x, @) ELSE MaybeEnded(@)]
           /\ jobs' = jobs \o EndJob(x, r[x])
           /\ stack' = Front(stack) \o IF reads THEN ReadCalls(x) ELSE <<>>
    /\ UNCHANGED <<chain, held, sink, listening, watching, log>>

(* The pipe's data listener: dest.write, and pause if it answers false.    *)
(* A transform's _write answers at once, later, or collects.               *)
DataToTransform ==
    /\ Outlet = "mid" /\ "src" \in listening /\ Flows("src")
    /\ r' = Taken("src")
    /\ stack' = IF chain.middle = "map" THEN Append(stack, Call("push", "mid", Chunk("src"))) ELSE stack
    /\ held' = IF chain.middle = "later" THEN [held EXCEPT !.mid = Append(@, Chunk("src"))] ELSE held
    /\ log' = [log EXCEPT !.wrote.mid = @ \o Chunk("src")]
    /\ UNCHANGED <<chain, sink, listening, watching, jobs>>

DataToWritable ==
    /\ chain.sink \in {"writable", "final"} /\ Outlet \in listening /\ Flows(Outlet)
    /\ IF sink = "open"
       THEN /\ r' = Taken(Outlet)
            /\ held' = [held EXCEPT !.dst = Append(@, Chunk(Outlet))]
            /\ log' = [log EXCEPT !.wrote.dst = @ \o Chunk(Outlet)]
            /\ UNCHANGED jobs
       ELSE /\ r' = [Taken(Outlet) EXCEPT ![Outlet].flowing = FALSE]
            /\ jobs' = Append(jobs, Job("error", "dst"))
            /\ UNCHANGED <<held, log>>
    /\ UNCHANGED <<chain, sink, listening, watching, stack>>

(* ServerResponse.write keeps the chunk, whether or not it has ended.      *)
DataToResponse ==
    /\ chain.sink = "response" /\ Outlet \in listening /\ Flows(Outlet)
    /\ r' = Taken(Outlet)
    /\ log' = [log EXCEPT !.wrote.dst = @ \o Chunk(Outlet)]
    /\ UNCHANGED <<chain, held, sink, listening, watching, jobs, stack>>

(* What a consumer hears; the iterator takes its listeners off.            *)
StillListening == IF chain.sink = "iterator" THEN listening \ {Outlet} ELSE listening

DataToConsumer ==
    /\ ~Piping /\ chain.sink # "lines" /\ Outlet \in listening /\ Flows(Outlet)
    /\ r' = Taken(Outlet)
    /\ log' = [log EXCEPT !.heard = Append(@, Chunk(Outlet))]
    /\ listening' = StillListening
    /\ stack' = IF chain.sink = "listener" THEN Append(stack, Call("listener", Outlet, Null)) ELSE stack
    /\ UNCHANGED <<chain, held, sink, watching, jobs>>

DataToNobody ==
    /\ \E x \in Parts \ listening : Flows(x) /\ r' = Taken(x)
    /\ UNCHANGED <<chain, held, sink, listening, watching, jobs, stack, log>>

ListenerReturns ==
    /\ Running("listener")
    /\ stack' = Front(stack)
    /\ UNCHANGED <<chain, r, held, sink, listening, watching, jobs, log>>

-----------------------------------------------------------------------------
(* The events.  finished() takes all its listeners off when one is called. *)
Rest_KeepsError(event) == (watching \cap {"error"}) \ {event}
Rest(event) == IF event \in watching THEN {} ELSE watching
Told(event) == IF event \in watching THEN Append(log.told, event) ELSE log.told
DestEmits(event, lg) ==
    /\ log' = [lg EXCEPT !.told = Told(event)]
    /\ watching' = Rest(event)

(* An error goes down the pipes, from x to the sink.                       *)
Below(x) == IF x = "src" THEN Parts ELSE {Outlet}
ErrorEmitted(x, lg) ==
    IF x = "dst" \/ (Piping /\ Below(x) \subseteq listening)
    THEN DestEmits("error", lg) /\ UNCHANGED listening
    ELSE IF ~Piping /\ chain.sink # "lines" /\ Below(x) \subseteq listening
    THEN /\ log' = [lg EXCEPT !.heard = Append(@, Failed)]
         /\ listening' = StillListening
         /\ UNCHANGED watching
    ELSE log' = lg /\ UNCHANGED <<watching, listening>>

JobComes(do) == stack = <<>> /\ jobs # <<>> /\ Head(jobs).do = do

DrainJob ==
    /\ JobComes("drain")
    /\ stack' = <<Call("drain", Head(jobs).at, Null)>>
    /\ jobs' = Tail(jobs)
    /\ UNCHANGED <<chain, r, held, sink, listening, watching, log>>

ErrorJob ==
    /\ JobComes("error")
    /\ ErrorEmitted(Head(jobs).at, log)
    /\ jobs' = Tail(jobs)
    /\ UNCHANGED <<chain, r, held, sink, stack>>

(* "end", to a transform's end(): a flush, or the end in a job of its own. *)
EndOfSource ==
    /\ JobComes("end") /\ Head(jobs).at = "src" /\ Outlet = "mid"
    /\ IF "src" \notin listening THEN jobs' = Tail(jobs) /\ UNCHANGED stack
       ELSE IF chain.middle = "collect"
       THEN /\ stack' = <<Call("push", "mid", Null), Call("push", "mid", log.wrote.mid)>>
            /\ jobs' = Tail(jobs)
       ELSE jobs' = Append(Tail(jobs), Job("finish", "mid")) /\ UNCHANGED stack
    /\ UNCHANGED <<chain, r, held, sink, listening, watching, log>>

FlushFails ==
    /\ JobComes("end") /\ Head(jobs).at = "src" /\ chain.middle = "collect" /\ "src" \in listening
    /\ ErrorEmitted("mid", log)
    /\ jobs' = Tail(jobs)
    /\ UNCHANGED <<chain, r, held, sink, stack>>

TransformFinishes ==
    /\ JobComes("finish") /\ Head(jobs).at = "mid"
    /\ stack' = <<Call("push", "mid", Null)>>
    /\ jobs' = Tail(jobs)
    /\ UNCHANGED <<chain, r, held, sink, listening, watching, log>>

(* end() of the sink, with jobs js queued and lg logged before it: _final  *)
(* or a job comes first, or a response settles its handler's promise.      *)
SinkEnds == sink = "open" /\ chain.sink = "response"
DestEnds(js, lg) ==
    /\ sink' = IF sink # "open" THEN sink
               ELSE [writable |-> "ended", final |-> "ending", response |-> "finished"][chain.sink]
    /\ jobs' = IF sink = "open" /\ chain.sink = "writable" THEN Append(js, Job("finish", "dst")) ELSE js
    /\ log' = IF SinkEnds THEN [lg EXCEPT !.settled = Append(@, lg.wrote.dst), !.told = Told("finish")] ELSE lg
    /\ watching' = IF SinkEnds THEN Rest("finish") ELSE watching

EndOfOutlet ==
    /\ JobComes("end") /\ Head(jobs).at = Outlet
    /\ Outlet \in listening => chain.sink # "lines"
    /\ IF Outlet \notin listening
       THEN jobs' = Tail(jobs) /\ UNCHANGED <<sink, log, watching, listening>>
       ELSE IF Piping
       THEN DestEnds(Tail(jobs), log) /\ UNCHANGED listening
       ELSE /\ log' = [log EXCEPT !.heard = Append(@, Null)]
            /\ listening' = StillListening
            /\ jobs' = Tail(jobs)
            /\ UNCHANGED <<sink, watching>>
    /\ UNCHANGED <<chain, r, held, stack>>

WritableFinishes ==
    /\ JobComes("finish") /\ Head(jobs).at = "dst"
    /\ sink' = "finished"
    /\ DestEmits("finish", log)
    /\ jobs' = Tail(jobs)
    /\ UNCHANGED <<chain, r, held, listening, stack>>

-----------------------------------------------------------------------------
(* The source.  A promise of the iterator it pulls settles between jobs.   *)
Made == Len(log.made["src"])
NewChunks == {[i \in 1..n |-> Made + i] : n \in {k \in 1..chain.wide : Made + k <= chain.most}}

SourcePushes ==
    /\ chain.source = "push" /\ ScriptRuns /\ ~r["src"].ended
    /\ \/ \E c \in NewChunks : stack' = Append(stack, Call("push", "src", c))
       \/ (Made > 0 \/ listening # {}) /\ stack' = Append(stack, Call("push", "src", Null))
    /\ UNCHANGED <<chain, r, held, sink, listening, watching, jobs, log>>

PullSettles ==
    /\ chain.source = "pull" /\ r["src"].busy /\ stack = <<>> /\ ~r["src"].ended
    /\ r' = [r EXCEPT !["src"].busy = FALSE]
    /\ \/ /\ \E c \in NewChunks : stack' = <<Call("push", "src", c)>>
          /\ UNCHANGED <<jobs, log>>
       \/ stack' = <<Call("push", "src", Null)>> /\ UNCHANGED <<jobs, log>>
       \/ /\ "failed" \notin log.meddled
          /\ jobs' = jobs \o IF "src" \in log.destroyed THEN <<>> ELSE <<Job("error", "src")>>
          /\ log' = [log EXCEPT !.meddled = @ \cup {"failed"}, !.destroyed = @ \cup {"src"}]
          /\ UNCHANGED stack
    /\ UNCHANGED <<chain, held, sink, listening, watching>>

(* createReadStream's emit("error").                                       *)
SourceFails ==
    /\ chain.source = "push" /\ stack = <<>> /\ ~r["src"].ended /\ Parts \subseteq listening
    /\ "failed" \notin log.meddled
    /\ ErrorEmitted("src", [log EXCEPT !.meddled = @ \cup {"failed"}])
    /\ UNCHANGED <<chain, r, held, sink, jobs, stack>>

-----------------------------------------------------------------------------
(* The script.                                                             *)

(* resume(): the drain comes in a job.                                     *)
Resumed(q) == [q EXCEPT !.flowing = TRUE]
DrainJob_IfBuffered(x, X) ==
    IF x \in X /\ ~r[x].flowing /\ r[x].buf # <<>> THEN <<Job("drain", x)>> ELSE <<>>
DrainJobOf(x, X) == IF x \in X /\ ~r[x].flowing THEN <<Job("drain", x)>> ELSE <<>>
DrainJobs(X) == DrainJobOf("src", X) \o DrainJobOf("mid", X)

(* pipeline(), or a data listener is put on: it may come late.             *)
Connects ==
    /\ listening = {} /\ chain.sink # "iterator" /\ ScriptRuns /\ "connected" \notin log.meddled
    /\ LET X == IF chain.sink = "reader" THEN Parts \ {Outlet} ELSE Parts
       IN  /\ r' = [x \in Halves |-> IF x \in X THEN Resumed(r[x]) ELSE r[x]]
           /\ jobs' = jobs \o DrainJobs(X)
           /\ listening' = Parts
    /\ watching' = IF Piping THEN {"end", "finish", "error"} ELSE {}
    /\ log' = [log EXCEPT !.meddled = @ \cup {"connected"}]
    /\ UNCHANGED <<chain, held, sink, stack>>

MayMeddle == ScriptRuns /\ log.times < chain.times
Meddled(how) == [log EXCEPT !.meddled = @ \cup {how}, !.times = @ + 1]

Pauses(x) ==
    /\ MayMeddle /\ r[x].flowing
    /\ r' = [r EXCEPT ![x].flowing = FALSE]
    /\ log' = Meddled("pause")
    /\ UNCHANGED <<chain, held, sink, listening, watching, jobs, stack>>

Resumes(x) ==
    /\ ScriptRuns /\ ~r[x].flowing /\ x \in listening
    /\ chain.sink = "reader" => x # Outlet
    /\ r' = [r EXCEPT ![x] = Resumed(@)]
    /\ jobs' = jobs \o DrainJobs({x})
    /\ UNCHANGED <<chain, held, sink, listening, watching, stack, log>>

(* read(): everything that is buffered, after a _read if nothing is.       *)
Reads ==
    /\ chain.sink = "reader" /\ stack = <<>> /\ Outlet \in listening /\ Null \notin ToSet(log.heard)
    /\ stack' = <<Call("take", Outlet, Null)>> \o IF r[Outlet].buf = <<>> THEN ReadCalls(Outlet) ELSE <<>>
    /\ r' = IF r[Outlet].buf = <<>> THEN [r EXCEPT ![Outlet] = ReadBegun(Outlet, @)] ELSE r
    /\ UNCHANGED <<chain, held, sink, listening, watching, jobs, log>>

ReadReturns ==
    /\ Running("take")
    /\ LET q == [r[Outlet] EXCEPT !.buf = <<>>]
       IN  /\ r' = [r EXCEPT ![Outlet] = MaybeEnded(q)]
           /\ jobs' = jobs \o EndJob(Outlet, q)
           /\ log' = IF r[Outlet].buf = <<>> THEN log
                     ELSE [log EXCEPT !.heard = Append(@, FlattenSeq(r[Outlet].buf))]
    /\ stack' = Front(stack)
    /\ UNCHANGED <<chain, held, sink, listening, watching>>

(* The iterator's next(): what is buffered, the end, or listeners.         *)
NextIsCalled ==
    /\ chain.sink = "iterator" /\ stack = <<>> /\ Outlet \notin listening
    /\ {Null, Failed} \cap ToSet(log.heard) = {}
    /\ LET q == r[Outlet]
       IN  IF q.buf # <<>>
           THEN /\ r' = Taken(Outlet) /\ log' = [log EXCEPT !.heard = Append(@, Chunk(Outlet))]
                /\ UNCHANGED <<listening, jobs>>
           ELSE IF q.ended
           THEN log' = [log EXCEPT !.heard = Append(@, Null)] /\ UNCHANGED <<r, listening, jobs>>
           ELSE /\ listening' = listening \cup Parts
                /\ r' = [x \in Halves |-> IF x \in Parts THEN Resumed(r[x]) ELSE r[x]]
                /\ jobs' = jobs \o DrainJobs(Parts)
                /\ UNCHANGED log
    /\ UNCHANGED <<chain, held, sink, watching, stack>>

(* The callbacks of _transform and _write, in any order.                   *)
TransformAnswers ==
    /\ ScriptRuns
    /\ \E i \in DOMAIN held.mid :
           /\ held' = [held EXCEPT !.mid = RemoveAt(@, i)]
           /\ stack' = Append(stack, Call("push", "mid", held.mid[i]))
    /\ UNCHANGED <<chain, r, sink, listening, watching, jobs, log>>

CallbackFails(y) ==
    /\ ScriptRuns /\ held[y] # <<>>
    /\ held' = [held EXCEPT ![y] = Tail(@)]
    /\ ErrorEmitted(y, log)
    /\ UNCHANGED <<chain, r, sink, jobs, stack>>

WriteIsDone ==
    /\ ScriptRuns
    /\ \E i \in DOMAIN held.dst : held' = [held EXCEPT !.dst = RemoveAt(@, i)]
    /\ UNCHANGED <<chain, r, sink, listening, watching, jobs, stack, log>>

FinalCalls(event) ==
    /\ ScriptRuns /\ sink = "ending"
    /\ sink' = IF event = "finish" THEN "finished" ELSE "ended"
    /\ DestEmits(event, log)
    /\ UNCHANGED <<chain, r, held, listening, jobs, stack>>

(* end() by the script, unpipe(), and destroy(), which leaves the buffer.  *)
ScriptEnds ==
    /\ Piping /\ MayMeddle /\ "connected" \in log.meddled
    /\ DestEnds(jobs, Meddled("end"))
    /\ UNCHANGED <<chain, r, held, listening, stack>>

Unpipes(x) ==
    /\ MayMeddle /\ x \in listening
    /\ Piping \/ x # Outlet
    /\ listening' = listening \ {x}
    /\ log' = Meddled("unpipe")
    /\ UNCHANGED <<chain, r, held, sink, watching, jobs, stack>>

Destroys(x, withError) ==
    /\ MayMeddle /\ x \notin log.destroyed
    /\ jobs' = jobs \o IF withError THEN <<Job("error", x)>> ELSE <<>>
    /\ sink' = IF x = "dst" /\ sink = "open" /\ chain.sink # "response" THEN "ended" ELSE sink
    /\ log' = [Meddled("destroy") EXCEPT !.destroyed = @ \cup {x}]
    /\ UNCHANGED <<chain, r, held, listening, watching, stack>>

Calls == Pushes \/ DrainEnds \/ DataToTransform \/ DataToWritable \/ DataToResponse
         \/ DataToConsumer \/ DataToNobody \/ ReadReturns
Jobs == DrainJob \/ ErrorJob \/ EndOfSource \/ FlushFails \/ TransformFinishes
        \/ EndOfOutlet \/ WritableFinishes
Source == SourcePushes \/ PullSettles \/ SourceFails
Callbacks == TransformAnswers \/ WriteIsDone \/ \E y \in {"mid", "dst"} : CallbackFails(y)
             \/ \E event \in {"finish", "error"} : FinalCalls(event)
Script ==
    \/ Connects \/ ListenerReturns \/ Reads \/ NextIsCalled \/ ScriptEnds
    \/ \E x \in Parts : Pauses(x) \/ Resumes(x) \/ Unpipes(x)
    \/ \E x \in Parts \cup (IF Piping THEN {"dst"} ELSE {}), withError \in BOOLEAN : Destroys(x, withError)

Next == Calls \/ Jobs \/ Source \/ Callbacks \/ Script

-----------------------------------------------------------------------------
Buffered(x) == FlattenSeq(r[x].buf)
Data(heard) == [i \in DOMAIN heard |-> IF heard[i] = Failed THEN Null ELSE heard[i]]
Ate == FlattenSeq(Data(log.heard))

(* No byte is lost, repeated or overtaken on its way: what a stream was    *)
(* given is what its consumer got and what it still buffers, whether the   *)
(* consumer came late, paused, or a callback came late, up to the moment   *)
(* the script takes the pipe off, ends or destroys a stream of the chain.  *)
EveryByteOnce ==
    /\ Outlet = "mid" /\ "unpipe" \notin log.meddled => log.made.src = log.wrote.mid \o Buffered("src")
    /\ Piping /\ log.meddled \cap {"unpipe", "late", "end", "destroy"} = {} =>
           log.made[Outlet] = log.wrote.dst \o Buffered(Outlet)
    /\ chain.sink \in {"listener", "reader", "lines"} => log.made[Outlet] = Ate \o Buffered(Outlet)

(* The end comes once and last, and only to those who have everything: to  *)
(* a consumer, to pipeline()'s callback, and to the promise of a response, *)
(* which settles once with the whole body.                                 *)
Whole(bytes) ==
    r["src"].ended /\ (chain.middle # "later" => bytes = log.made.src)
EndMeansWhole ==
    /\ \A i, j \in DOMAIN log.heard :
           i < j /\ log.heard[i] = Null => log.heard[j] = Failed \/ "late" \in log.meddled
    /\ Len(log.told) <= 1 /\ Len(log.settled) <= 1
    /\ log.meddled \subseteq {"connected", "pause", "failed"} =>
           /\ Null \in ToSet(log.heard) /\ chain.sink # "iterator" => Whole(Ate)
           /\ "finish" \in ToSet(log.told) => Whole(log.wrote.dst)
           /\ \A body \in ToSet(log.settled) : Whole(body)

(* Somebody was told; and the excuses there are: the script unpipes, ends  *)
(* or destroys a stream; an iterator only hears of an error that comes     *)
(* during one of its next()s, a readline interface never.                  *)
Settled == log.told # <<>> \/ {Null, Failed} \cap ToSet(log.heard) # {}
Excused ==
    \/ log.meddled \cap {"unpipe", "end", "destroy"} # {}
    \/ chain.sink \in {"iterator", "lines"} /\ "failed" \in log.meddled
=============================================================================
