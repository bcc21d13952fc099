---------------------------- MODULE ReadableStream ----------------------------
(***************************************************************************)
(* A ReadableStream with its default controller and its one reader         *)
(* (src/bootstrap.js): what each operation makes of the stream's state.    *)
(*                                                                         *)
(* Chunks are numbers.  "got" holds the answers of the reader's read()     *)
(* promises in the order of the calls, until their reactions have run;     *)
(* "reads" counts the calls that still wait (_readRequests).               *)
(***************************************************************************)
EXTENDS Integers, Sequences, SequencesExt

CONSTANTS
    HighWaterMark,  \* the strategy's highWaterMark
    SizeOf          \* the strategy's size(), a function of the chunk

ASSUME StrategyAssumption == HighWaterMark \in Nat /\ \A c \in DOMAIN SizeOf : SizeOf[c] \in Nat

(* What a read() answers besides a chunk, which is a number from 1 on:      *)
(* { done: true }, and a rejection.                                         *)
End == 0
Failed == -1

(* The states of a stream whose chunks come from C.                         *)
ReadableType(C) ==
    [state : {"readable", "closed", "errored"},
     queue : Seq(C), size : Nat, closing : BOOLEAN,
     started : BOOLEAN, pulls : BOOLEAN,
     pull : {"idle", "called", "running", "acted"}, again : BOOLEAN,
     reads : Nat, got : Seq(C \cup {End, Failed})]

(* pulls: the source has a pull(); started: its start() has settled.        *)
NewReadable(pulls, started) ==
    [state |-> "readable", queue |-> <<>>, size |-> 0, closing |-> FALSE,
     started |-> started, pulls |-> pulls, pull |-> "idle", again |-> FALSE,
     reads |-> 0, got |-> <<>>]

Answered(s, answer) == [s EXCEPT !.reads = 0, !.got = @ \o [i \in 1..s.reads |-> answer]]

(* controllerPull, up to Promise.resolve().then(...).                       *)
Pullable(s) == s.started /\ s.state = "readable" /\ ~s.closing
WantsMore(s) == s.queue = <<>> \/ HighWaterMark - s.size > 0
Pulled_Forgets(s) ==
    IF Pullable(s) /\ WantsMore(s) /\ s.pull = "idle" /\ s.pulls
    THEN [s EXCEPT !.pull = "called"] ELSE s
Pulled(s) ==
    IF ~(Pullable(s) /\ WantsMore(s)) THEN s
    ELSE IF s.pull # "idle" THEN [s EXCEPT !.again = TRUE]
    ELSE IF s.pulls THEN [s EXCEPT !.pull = "called"]
    ELSE s

(* readableClose, readableError.                                            *)
ReadableClosed(s) ==
    IF s.state = "readable" THEN [Answered(s, End) EXCEPT !.state = "closed"] ELSE s
ReadableErrored(s) ==
    IF s.state = "readable"
    THEN [Answered(s, Failed) EXCEPT !.state = "errored", !.queue = <<>>, !.size = 0]
    ELSE s

(* The controller's enqueue() and close(), which throw unless CanEnqueue.   *)
CanEnqueue(s) == s.state = "readable" /\ ~s.closing
Enqueued(s, c) ==
    Pulled(IF s.reads > 0
           THEN [s EXCEPT !.reads = @ - 1, !.got = Append(@, c)]
           ELSE [s EXCEPT !.queue = Append(@, c), !.size = @ + SizeOf[c]])
CloseRequested(s) ==
    LET t == [s EXCEPT !.closing = TRUE]
    IN  IF s.queue = <<>> THEN ReadableClosed(t) ELSE t

(* reader.read(): it takes 1 off the size, whatever the chunk's size was.   *)
ReadMade(s) ==
    IF s.queue # <<>> THEN
        LET t == [s EXCEPT !.queue = Tail(@), !.size = IF @ > 0 THEN @ - 1 ELSE 0,
                           !.got = Append(@, Head(s.queue))]
        IN  IF t.queue = <<>> /\ t.closing THEN ReadableClosed(t) ELSE Pulled(t)
    ELSE IF s.state = "closed" THEN [s EXCEPT !.got = Append(@, End)]
    ELSE IF s.state = "errored" THEN [s EXCEPT !.got = Append(@, Failed)]
    ELSE Pulled([s EXCEPT !.reads = @ + 1])

(* readableCancel; reader.releaseLock().                                    *)
ReadableCancelled(s) ==
    IF s.state = "readable" THEN ReadableClosed([s EXCEPT !.queue = <<>>, !.size = 0]) ELSE s
Released(s) == Answered(s, Failed)

(* The jobs: start() settled, pull() is called, pull() settled.             *)
Started(s) == Pulled([s EXCEPT !.started = TRUE])
PullCalled(s) == [s EXCEPT !.pull = "running"]
PullEnded(s) ==
    LET t == [s EXCEPT !.pull = "idle", !.again = FALSE]
    IN  IF s.again THEN Pulled(t) ELSE t

=============================================================================
