---------------------------- MODULE WritableStream ----------------------------
(***************************************************************************)
(* A WritableStream (src/bootstrap.js): what each operation makes of its   *)
(* state.  Writes queue on the promise chain _inFlight; close() waits for  *)
(* the writes before it, but no write waits for close().                   *)
(***************************************************************************)
EXTENDS Integers, Sequences

(* queue: the writes of the chain that have not settled; running: the sink  *)
(* has the first; last: how the latest settled; before: the writes close()  *)
(* still waits for.                                                         *)
WritableType(C) ==
    [state : {"writable", "closed", "errored"},
     start : {"pending", "done", "failed"},
     queue : Seq(C), running : BOOLEAN, last : {"none", "done", "failed"},
     close : {"none", "called", "running", "done", "failed"}, before : Nat]

NewWritable ==
    [state |-> "writable", start |-> "pending", queue |-> <<>>, running |-> FALSE,
     last |-> "none", close |-> "none", before |-> 0]

(* writableError.                                                           *)
WritableErrored(w) == IF w.state = "writable" THEN [w EXCEPT !.state = "errored"] ELSE w

(* The sink's start() settles.                                              *)
SinkStarted(w, ok) ==
    IF ok THEN [w EXCEPT !.start = "done"] ELSE [WritableErrored(w) EXCEPT !.start = "failed"]

(* writableWrite on a stream that is neither errored nor closed.            *)
Written(w, c) == [w EXCEPT !.queue = Append(@, c)]

(* A write's turn comes, whether or not the stream failed meanwhile; it     *)
(* fails at once when start() did.                                          *)
TurnComes(w) == w.queue # <<>> /\ ~w.running /\ w.start # "pending"
WriteSettled(w, how) ==
    LET t == [w EXCEPT !.queue = Tail(@), !.running = FALSE, !.last = how,
                       !.before = IF @ > 0 THEN @ - 1 ELSE 0]
    IN  IF how = "done" THEN t ELSE WritableErrored(t)

(* writableClose on a stream that is neither errored nor closed.            *)
CloseCalled_AtOnce(w) == [w EXCEPT !.close = "called"]
CloseCalled(w) == [w EXCEPT !.close = "called", !.before = Len(w.queue)]
CloseSettled(w, how) ==
    IF how = "done" THEN [w EXCEPT !.close = how, !.state = "closed"]
    ELSE [WritableErrored(w) EXCEPT !.close = how]

=============================================================================
