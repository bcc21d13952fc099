------------------------------ MODULE StreamPipe ------------------------------
(***************************************************************************)
(* A TransformStream (src/bootstrap.js) between a producer and a consumer. *)
(*                                                                         *)
(*    src --pipeTo--> sink --transform--> out --reader--> consumer         *)
(*                                                                         *)
(* The producer is a source of a ReadableStream that is piped into the     *)
(* transform's writable side, or a script with a writer of its own.  The   *)
(* jobs of the promises run in any order: what a job may read is what any  *)
(* other step may have changed meanwhile.                                  *)
(***************************************************************************)
EXTENDS ReadableStream, WritableStream

CONSTANTS
    NumChunks,      \* bound: chunks the producer makes
    MaxReads        \* bound: read() calls of the consumer

ASSUME PipeAssumption == NumChunks \in Nat /\ MaxReads \in Nat /\ 1..NumChunks \subseteq DOMAIN SizeOf

VARIABLES
    src,        \* the stream that is piped (ReadableStream)
    sink,       \* the transform's writable side (WritableStream)
    out,        \* the transform's readable side (ReadableStream)
    pipe,       \* pipeTo: "none", "ready", "reading", "writing", "closing", "done", "failed"
    prevent,    \* pipeTo's options that are set: "abort", "close"
    sent,       \* the chunks the producer made are 1..sent
    promised,   \* those made before it asked for the end
    broken      \* what else ended the stream: "cancel", "terminate", "transform"

vars == <<src, sink, out, pipe, prevent, sent, promised, broken>>

Chunk == 1..NumChunks
Piped == pipe # "none"

TypeOK ==
    /\ src \in ReadableType(Chunk) /\ sink \in WritableType(Chunk) /\ out \in ReadableType(Chunk)
    /\ pipe \in {"none", "ready", "reading", "writing", "closing", "done", "failed"}
    /\ prevent \subseteq {"abort", "close"}
    /\ sent \in 0..NumChunks /\ promised \in 0..sent
    /\ broken \subseteq {"cancel", "terminate", "transform"}

(* A source with a pull() or one that pushes; pipeTo has been called, or    *)
(* the script has taken the writer.                                         *)
Init ==
    /\ \E pulls \in BOOLEAN : src = NewReadable(pulls, FALSE)
    /\ sink = NewWritable
    /\ out = NewReadable(FALSE, TRUE)
    /\ \/ pipe = "ready" /\ prevent \in SUBSET {"abort", "close"}
       \/ pipe = "none" /\ prevent = {}
    /\ sent = 0 /\ promised = 0 /\ broken = {}

-----------------------------------------------------------------------------
(* The source.                                                              *)

SourceStarts ==
    /\ Piped /\ ~src.started
    /\ src' = Started(src)
    /\ UNCHANGED <<sink, out, pipe, prevent, sent, promised, broken>>

PullIsCalled ==
    /\ src.pull = "called"
    /\ src' = PullCalled(src)
    /\ UNCHANGED <<sink, out, pipe, prevent, sent, promised, broken>>

(* In the style of ReadableStream.from, a pull makes one chunk, closes or   *)
(* fails; a source without pull() does so when it likes.                    *)
SourceActs == Piped /\ (src.pulls => src.pull = "running")
Acted(s) == IF s.pulls THEN [s EXCEPT !.pull = "acted"] ELSE s

SourceEnqueues ==
    /\ SourceActs /\ CanEnqueue(src) /\ sent < NumChunks
    /\ sent' = sent + 1
    /\ src' = Enqueued(Acted(src), sent')
    /\ UNCHANGED <<sink, out, pipe, prevent, promised, broken>>

SourceCloses ==
    /\ SourceActs /\ CanEnqueue(src)
    /\ src' = CloseRequested(Acted(src))
    /\ promised' = sent
    /\ UNCHANGED <<sink, out, pipe, prevent, sent, broken>>

SourceFails ==
    /\ SourceActs /\ src.state = "readable"
    /\ src' = ReadableErrored(Acted(src))
    /\ UNCHANGED <<sink, out, pipe, prevent, sent, promised, broken>>

PullSettles ==
    /\ src.pull = "acted"
    /\ src' = PullEnded(src)
    /\ UNCHANGED <<sink, out, pipe, prevent, sent, promised, broken>>

-----------------------------------------------------------------------------
(* ReadableStream.prototype.pipeTo.                                         *)

(* fail(): locks released, and the sink aborted, which makes the transform  *)
(* fail its readable side.  Only a sink that has not failed is aborted.     *)
PipeFails_KeepsSink(s) == pipe' = "failed" /\ src' = Released(s) /\ UNCHANGED <<sink, out>>
PipeFails(s) ==
    /\ pipe' = "failed"
    /\ src' = Released(s)
    /\ IF "abort" \in prevent \/ sink.state # "writable"
       THEN UNCHANGED <<sink, out>>
       ELSE sink' = WritableErrored(sink) /\ out' = ReadableErrored(out)

(* writer.ready, then reader.read().                                        *)
PipeReads ==
    /\ pipe = "ready"
    /\ IF sink.state = "errored"
       THEN PipeFails(src)
       ELSE pipe' = "reading" /\ src' = ReadMade(src) /\ UNCHANGED <<sink, out>>
    /\ UNCHANGED <<prevent, sent, promised, broken>>

PipeGets ==
    /\ pipe = "reading" /\ src.got # <<>>
    /\ LET answer == Head(src.got)
           taken == [src EXCEPT !.got = Tail(@)]
       IN  \/ /\ answer \in Chunk /\ sink.state = "writable"
              /\ sink' = Written(sink, answer)
              /\ pipe' = "writing" /\ src' = taken /\ UNCHANGED out
           \/ /\ answer = End /\ "close" \in prevent
              /\ pipe' = "done" /\ src' = taken /\ UNCHANGED <<sink, out>>
           \/ /\ answer = End /\ "close" \notin prevent /\ sink.state = "writable"
              /\ sink' = CloseCalled(sink)
              /\ pipe' = "closing" /\ src' = taken /\ UNCHANGED out
           \/ /\ answer = Failed \/ (sink.state = "errored" /\ ~(answer = End /\ "close" \in prevent))
              /\ PipeFails(taken)
    /\ UNCHANGED <<prevent, sent, promised, broken>>

PipeWritten ==
    /\ pipe = "writing" /\ sink.queue = <<>>
    /\ IF sink.last = "done"
       THEN pipe' = "ready" /\ UNCHANGED <<src, sink, out>>
       ELSE PipeFails(src)
    /\ UNCHANGED <<prevent, sent, promised, broken>>

PipeClosed ==
    /\ pipe = "closing" /\ sink.close \in {"done", "failed"}
    /\ IF sink.close = "done"
       THEN pipe' = "done" /\ UNCHANGED <<src, sink, out>>
       ELSE PipeFails(src)
    /\ UNCHANGED <<prevent, sent, promised, broken>>

-----------------------------------------------------------------------------
(* A script with the writer: it waits for none of its promises.             *)

ScriptWrites ==
    /\ ~Piped /\ sink.state = "writable" /\ sent < NumChunks
    /\ sent' = sent + 1
    /\ sink' = Written(sink, sent')
    /\ UNCHANGED <<src, out, pipe, prevent, promised, broken>>

ScriptCloses ==
    /\ ~Piped /\ sink.state = "writable" /\ sink.close = "none"
    /\ sink' = CloseCalled(sink)
    /\ promised' = sent
    /\ UNCHANGED <<src, out, pipe, prevent, sent, broken>>

ScriptAborts ==
    /\ ~Piped /\ sink.state = "writable"
    /\ sink' = WritableErrored(sink)
    /\ out' = ReadableErrored(out)
    /\ UNCHANGED <<src, pipe, prevent, sent, promised, broken>>

-----------------------------------------------------------------------------
(* The transform: the sink's start, write and close.                        *)

TransformStarts(ok) ==
    /\ sink.start = "pending"
    /\ sink' = SinkStarted(sink, ok)
    /\ broken' = IF ok THEN broken ELSE broken \cup {"transform"}
    /\ UNCHANGED <<src, out, pipe, prevent, sent, promised>>

TransformBegins ==
    /\ TurnComes(sink)
    /\ sink' = IF sink.start = "failed" THEN WriteSettled(sink, "failed")
               ELSE [sink EXCEPT !.running = TRUE]
    /\ UNCHANGED <<src, out, pipe, prevent, sent, promised, broken>>

(* controller.enqueue of what became of the chunk; it throws when the       *)
(* readable side has ended.                                                 *)
TransformEnqueues ==
    /\ sink.running
    /\ IF CanEnqueue(out)
       THEN out' = Enqueued(out, Head(sink.queue)) /\ sink' = WriteSettled(sink, "done")
       ELSE UNCHANGED out /\ sink' = WriteSettled(sink, "failed")
    /\ UNCHANGED <<src, pipe, prevent, sent, promised, broken>>

TransformThrows ==
    /\ sink.running
    /\ sink' = WriteSettled(sink, "failed")
    /\ broken' = broken \cup {"transform"}
    /\ UNCHANGED <<src, out, pipe, prevent, sent, promised>>

(* controller.terminate(), controller.error().                              *)
TransformEnds ==
    /\ sink.running /\ CanEnqueue(out)
    /\ out' \in {CloseRequested(out), ReadableErrored(out)}
    /\ broken' = broken \cup {"terminate"}
    /\ UNCHANGED <<src, sink, pipe, prevent, sent, promised>>

CloseBegins ==
    /\ sink.close = "called" /\ sink.before = 0
    /\ sink' = [sink EXCEPT !.close = "running"]
    /\ UNCHANGED <<src, out, pipe, prevent, sent, promised, broken>>

(* flush() has settled: the readable side is closed, unless it ended before.*)
CloseEnds(ok) ==
    /\ sink.close = "running"
    /\ IF ok
       THEN /\ sink' = CloseSettled(sink, "done")
            /\ out' = IF CanEnqueue(out) THEN CloseRequested(out) ELSE out
            /\ UNCHANGED broken
       ELSE /\ sink' = CloseSettled(sink, "failed")
            /\ broken' = broken \cup {"transform"}
            /\ UNCHANGED out
    /\ UNCHANGED <<src, pipe, prevent, sent, promised>>

-----------------------------------------------------------------------------
(* The consumer.                                                            *)

ConsumerReads ==
    /\ "cancel" \notin broken
    /\ out.reads + Len(out.got) < MaxReads
    /\ out' = ReadMade(out)
    /\ UNCHANGED <<src, sink, pipe, prevent, sent, promised, broken>>

(* reader.cancel(), or a break out of for await: values().return.           *)
ConsumerCancels ==
    /\ out.state = "readable"
    /\ out' = ReadableCancelled(out)
    /\ broken' = broken \cup {"cancel"}
    /\ UNCHANGED <<src, sink, pipe, prevent, sent, promised>>

Source == SourceStarts \/ PullIsCalled \/ SourceEnqueues \/ SourceCloses \/ SourceFails \/ PullSettles
Pipe == PipeReads \/ PipeGets \/ PipeWritten \/ PipeClosed
Script == ScriptWrites \/ ScriptCloses \/ ScriptAborts
Transform ==
    \/ \E ok \in BOOLEAN : TransformStarts(ok) \/ CloseEnds(ok)
    \/ TransformBegins \/ TransformEnqueues \/ TransformThrows \/ TransformEnds \/ CloseBegins
Consumer == ConsumerReads \/ ConsumerCancels

Next == Source \/ Pipe \/ Script \/ Transform \/ Consumer

Spec == Init /\ [][Next]_vars

(* A source goes on and ends some day, jobs run, and a transformer's        *)
(* promises settle.                                                         *)
FairSpec ==
    /\ Spec
    /\ WF_vars(SourceStarts) /\ WF_vars(PullIsCalled) /\ WF_vars(PullSettles)
    /\ WF_vars(SourceEnqueues \/ SourceCloses)
    /\ WF_vars(Pipe)
    /\ WF_vars(\E ok \in BOOLEAN : TransformStarts(ok)) /\ WF_vars(TransformBegins)
    /\ WF_vars(TransformEnqueues \/ TransformThrows)
    /\ WF_vars(CloseBegins) /\ WF_vars(\E ok \in BOOLEAN : CloseEnds(ok))

-----------------------------------------------------------------------------
(* The consumer gets the chunks in the order they were made, each once, and *)
(* after an end or an error no chunk; through a pipe it gets no chunk whose *)
(* predecessor it did not get.  "done" is told only to a consumer that has  *)
(* every chunk made before the producer closed, unless the consumer or the  *)
(* transform ended the stream.                                              *)
DeliveredInOrder ==
    /\ \A i, j \in DOMAIN out.got :
           i < j /\ out.got[j] \in Chunk => out.got[i] \in Chunk /\ out.got[i] < out.got[j]
    /\ Piped => \A i \in DOMAIN out.got : out.got[i] \in Chunk => out.got[i] = i
    /\ (End \in ToSet(out.got) /\ broken = {}) => 1..promised \subseteq ToSet(out.got)

(* In order and in the types of both sides, whatever fails, closes, is      *)
(* aborted or cancelled in between.                                         *)
KeptInOrder == TypeOK /\ DeliveredInOrder

(* A source with a pull() is neither pulled too much nor forgotten: it gets *)
(* no further ahead of the pipe than its high-water mark, or one chunk, and *)
(* while the stream wants more a pull is under way, whether the demand came *)
(* before, during or after another one.                                     *)
PulledAsNeeded ==
    src.pulls =>
        /\ Len(src.queue) <= IF HighWaterMark > 0 THEN HighWaterMark ELSE 1
        /\ Pullable(src) /\ WantsMore(src) => src.pull # "idle"

PipeEnds == pipe \in {"done", "failed"}
ReadsWait == Piped /\ prevent = {} /\ out.reads > 0

(* A pipe settles once its source has ended, and every read of the consumer *)
(* is then answered, however chunks, ends, errors and cancellation meet,    *)
(* unless a transformer threw: writableError then marks the writable side   *)
(* alone, the abort that follows finds it not S_READABLE any more and never *)
(* reaches the readable side (bootstrap.js:1247, 1275, 1369).               *)
EverybodyHears ==
    /\ Piped ~> PipeEnds
    /\ ReadsWait ~> (out.reads = 0 \/ "transform" \in broken)
=============================================================================
