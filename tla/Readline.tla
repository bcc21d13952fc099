------------------------------ MODULE Readline ------------------------------
(***************************************************************************)
(* node:readline's Interface over a stream of NodeStreams, its async       *)
(* iterator, and events.on over its "line" (src/node_compat.js).           *)
(*                                                                         *)
(* A line goes to the question() that waits longest, else to the listeners *)
(* of "line": the script's own, or those of its iterator.                  *)
(***************************************************************************)
EXTENDS NodeStreams

CONSTANTS
    Newlines,     \* the bytes of the source that end a line
    Leads,        \* those that begin a character of two bytes
    MaxQuestions  \* bound: question() by the script

ASSUME LineAssumption ==
    /\ MaxQuestions \in Nat
    /\ Leads \subseteq Nat /\ 0 \notin Newlines
    /\ \A b \in Leads : {b, b + 1} \cap Newlines = {}

VARIABLES
    rest,      \* what came after the last newline
    asked,     \* questions that wait
    closed,
    given,     \* the lines that went out: to a "question" or as a "line"
    overtaken, \* history: lines of a later chunk went before some that waited
    iterator   \* its kind, lines it keeps, next()s that wait, and what they were told

lineVars == <<rest, asked, closed, given, overtaken, iterator>>
allVars == <<vars, lineVars>>

LinesInit ==
    /\ Init
    /\ rest = <<>> /\ asked = [wait |-> 0, made |-> 0] /\ closed = FALSE /\ given = <<>> /\ overtaken = FALSE
    /\ iterator = [kind |-> "none", lines |-> <<>>, waiting |-> 0, done |-> FALSE, gave |-> <<>>, since |-> 0, late |-> FALSE]

Interface == chain.sink = "lines" /\ Outlet \in listening

-----------------------------------------------------------------------------
(* split("\n"): the lines, and what comes after the last of them.          *)
Cuts(bytes) == {0} \cup {i \in DOMAIN bytes : bytes[i] \in Newlines}
LineAt(bytes, i) == SubSeq(bytes, Max({j \in Cuts(bytes) : j < i}) + 1, i - 1)
LinesOf(bytes) ==
    FlattenSeq([i \in DOMAIN bytes |-> IF bytes[i] \in Newlines THEN <<LineAt(bytes, i)>> ELSE <<>>])
RestOf(bytes) == SubSeq(bytes, Max(Cuts(bytes)) + 1, Len(bytes))

(* String(chunk): a character whose bytes are not all in the chunk becomes *)
(* replacement characters.                                                 *)
Replaced == 0
Broken(chunk, i) ==
    \/ chunk[i] \in Leads /\ (i < Len(chunk) => chunk[i + 1] # chunk[i] + 1)
    \/ chunk[i] - 1 \in Leads /\ (i > 1 => chunk[i - 1] # chunk[i] - 1)
Decoded(chunk) == [i \in DOMAIN chunk |-> IF Broken(chunk, i) THEN Replaced ELSE chunk[i]]

LineIn(call) == IF call.do = "line" THEN <<call.chunk>> ELSE <<>>
LinesUnderWay == FlattenSeq([i \in DOMAIN stack |-> LineIn(Reverse(stack)[i])])

(* _feed, from the data listener: a call for each line of the chunk, also  *)
(* from a listener of an earlier chunk's lines, the rest of which wait.    *)
LineCalls(seq) == Reverse([k \in DOMAIN seq |-> Call("line", Outlet, seq[k])])
Fed_Alone(text) == text
Fed(text) == rest \o text
DataToInterface ==
    /\ Interface /\ Flows(Outlet)
    /\ r' = Taken(Outlet)
    /\ log' = [log EXCEPT !.heard = Append(@, Chunk(Outlet))]
    /\ LET text == Fed(Decoded(Chunk(Outlet)))
       IN  /\ rest' = RestOf(text)
           /\ stack' = stack \o LineCalls(LinesOf(text))
           /\ overtaken' = (overtaken \/ (LinesUnderWay # <<>> /\ LinesOf(text) # <<>>))
    /\ UNCHANGED <<chain, held, sink, listening, watching, jobs, asked, closed, given, iterator>>

(* _end: what is left is a line, then the interface closes.                *)
EndOfInput ==
    /\ Interface /\ JobComes("end") /\ Head(jobs).at = Outlet
    /\ log' = [log EXCEPT !.heard = Append(@, Null)]
    /\ rest' = <<>>
    /\ stack' = <<Call("close", Outlet, Null)>> \o IF rest = <<>> THEN <<>> ELSE LineCalls(<<rest>>)
    /\ jobs' = Tail(jobs)
    /\ UNCHANGED <<chain, r, held, sink, listening, watching, asked, closed, given, iterator, overtaken>>

(* A line: a callback of the script runs, or an iterator keeps or tells it. *)
ToQuestion == Running("line") /\ asked.wait > 0
LineAnswers ==
    /\ ToQuestion
    /\ asked' = [asked EXCEPT !.wait = @ - 1]
    /\ given' = Append(given, [line |-> Top.chunk, to |-> "question"])
    /\ stack' = Append(Front(stack), Call("listener", Outlet, Null))
    /\ UNCHANGED <<chain, r, held, sink, listening, watching, jobs, log, rest, closed, iterator, overtaken>>

LineEmitted ==
    /\ Running("line") /\ ~ToQuestion
    /\ given' = Append(given, [line |-> Top.chunk, to |-> "line"])
    /\ IF iterator.kind = "none"
       THEN stack' = Append(Front(stack), Call("listener", Outlet, Null)) /\ UNCHANGED iterator
       ELSE /\ stack' = Front(stack)
            /\ iterator' = IF iterator.waiting > 0
                           THEN [iterator EXCEPT !.waiting = @ - 1, !.gave = Append(@, Top.chunk)]
                           ELSE [iterator EXCEPT !.lines = Append(@, Top.chunk)]
    /\ UNCHANGED <<chain, r, held, sink, listening, watching, jobs, log, rest, asked, closed, overtaken>>

-----------------------------------------------------------------------------
(* close(): heard once, by the iterator of an interface.                   *)
Told_Closed(it) == [it EXCEPT !.done = TRUE, !.waiting = 0]
CloseHeard == closed' = TRUE /\ iterator' = IF ~closed /\ iterator.kind = "lines" THEN Told_Closed(iterator) ELSE iterator
Closes ==
    /\ Running("close")
    /\ stack' = Front(stack)
    /\ CloseHeard
    /\ UNCHANGED <<chain, r, held, sink, listening, watching, jobs, log, rest, asked, given, overtaken>>
ScriptCloses ==
    /\ Interface /\ MayMeddle /\ ~closed
    /\ log' = Meddled("close")
    /\ CloseHeard
    /\ UNCHANGED <<chain, r, held, sink, listening, watching, jobs, stack, rest, asked, given, overtaken>>

Asks ==
    /\ Interface /\ ScriptRuns /\ asked.made < MaxQuestions
    /\ asked' = [wait |-> asked.wait + 1, made |-> asked.made + 1]
    /\ UNCHANGED <<vars, rest, closed, given, iterator, overtaken>>

(* An iterator of the interface, or one of events.on, which never ends.    *)
Iterates(kind) ==
    /\ Interface /\ ScriptRuns /\ iterator.kind = "none"
    /\ iterator' = [iterator EXCEPT !.kind = kind, !.since = Len(given), !.late = closed]
    /\ UNCHANGED <<vars, rest, asked, closed, given, overtaken>>

(* next(): the interface's keeps one that waits, events.on a queue.        *)
NextLine ==
    /\ iterator.kind # "none" /\ stack = <<>>
    /\ IF iterator.lines # <<>>
       THEN /\ iterator' = [iterator EXCEPT !.lines = Tail(@), !.gave = Append(@, Head(iterator.lines))]
            /\ UNCHANGED log
       ELSE /\ ~iterator.done
            /\ iterator.waiting > 0 => MayMeddle
            /\ iterator' = [iterator EXCEPT !.waiting = IF iterator.kind = "lines" THEN 1 ELSE @ + 1]
            /\ log' = IF iterator.waiting > 0 THEN Meddled("ahead") ELSE log
    /\ UNCHANGED <<chain, r, held, sink, listening, watching, jobs, stack, rest, asked, closed, given, overtaken>>

LineCall == LineAnswers \/ LineEmitted \/ Closes
LineScript == Asks \/ NextLine \/ ScriptCloses \/ \E kind \in {"lines", "on"} : Iterates(kind)

Streams == UNCHANGED lineVars
LinesNext ==
    \/ Next /\ Streams
    \/ DataToInterface \/ EndOfInput \/ LineCall \/ LineScript

Spec == LinesInit /\ [][LinesNext]_allVars

(* Code runs to its end, promises and callbacks settle, a source goes on   *)
(* and ends some day, and a script connects, reads and resumes.  All this  *)
(* is strong: it comes between two of the read() calls of a busy script.   *)
FairSpec ==
    /\ Spec
    /\ WF_allVars((Calls /\ Streams) \/ DataToInterface \/ LineCall)
    /\ SF_allVars((Jobs /\ Streams) \/ EndOfInput) /\ WF_allVars(ListenerReturns /\ Streams)
    /\ SF_allVars(SourcePushes /\ Streams) /\ SF_allVars(PullSettles /\ Streams)
    /\ SF_allVars(TransformAnswers /\ Streams)
    /\ WF_allVars(Streams /\ \E event \in {"finish", "error"} : FinalCalls(event))
    /\ WF_allVars(Connects /\ Streams) /\ WF_allVars(Reads /\ Streams) /\ WF_allVars(NextIsCalled /\ Streams)
    /\ \A x \in Halves : SF_allVars(x \in Parts /\ Resumes(x) /\ Streams)
-----------------------------------------------------------------------------
GivenLines == [i \in DOMAIN given |-> given[i].line]
EmittedAt(i) == IF i > iterator.since /\ given[i].to = "line" THEN <<given[i].line>> ELSE <<>>
Emitted == FlattenSeq([i \in DOMAIN given |-> EmittedAt(i)])
Text == FlattenSeq([i \in DOMAIN log.heard |-> Decoded(Data(log.heard)[i])])
Times(line, lines) == Cardinality({i \in DOMAIN lines : lines[i] = line})

(* The text is what String() makes of each chunk: it has its newlines      *)
(* where the bytes have theirs.  However it is cut into chunks, and        *)
(* whether or not a newline ends the last: each line goes out once, to one *)
(* question or to the listeners, and in order, unless a listener has had   *)
(* a chunk pushed while other lines waited; and an iterator gives those it *)
(* has heard, in order, a question between two of its next()s or not.  A   *)
(* transform that pushes after its end ("late") is not split as one text   *)
(* with what came before.                                                  *)
LinesInOrder ==
    chain.sink = "lines" =>
        LET left == RestOf(Text)
            ended == Null \in ToSet(log.heard)
            lines == LinesOf(Text) \o IF ended /\ left # <<>> THEN <<left>> ELSE <<>>
            sent == GivenLines \o LinesUnderWay
        IN  /\ Cuts(Text) = Cuts(Ate)
            /\ "late" \notin log.meddled =>
                   /\ \A line \in ToSet(sent \o lines) : Times(line, sent) = Times(line, lines)
                   /\ ~overtaken => sent = lines
                   /\ ~ended => rest = left
            /\ iterator.kind # "none" => iterator.gave \o iterator.lines = Emitted

(* Everybody hears of the end or of an error, or is excused: no demand,    *)
(* job or callback is forgotten.  Also a loop over an interface's lines    *)
(* that waits in its last next() hears of a line or of the end, unless it  *)
(* was begun after the close: nothing tells it then.                       *)
EverybodyHears ==
    <>[](/\ Settled \/ Excused
         /\ iterator.kind = "lines" /\ ~iterator.late => iterator.waiting = 0 \/ Excused)
=============================================================================
