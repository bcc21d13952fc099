---------------------------- MODULE MCNodeStreams ----------------------------
(* Instances of NodeStreams, with Readline, for TLC.                         *)
EXTENDS Readline

Chain(source, middle, sinkKind) == [source |-> source, middle |-> middle, sink |-> sinkKind, most |-> 2, wide |-> 1, times |-> 1]
Lines(source, most, wide, times) ==
    [source |-> source, middle |-> "none", sink |-> "lines", most |-> most, wide |-> wide, times |-> times]
SomeNewlines == {1, 2, 5}
SomeLeads == {3}

(* Pipelines over every source, middle and sink, and the other consumers.   *)
SomeChains ==
    {Chain("push", "none", "listener"), Chain("push", "map", "writable"), Chain("pull", "later", "final"),
     Chain("pull", "none", "writable"), Chain("pull", "map", "listener"), Chain("pull", "none", "reader"),
     Chain("body", "none", "response"), Chain("body", "none", "listener"), Chain("body", "none", "reader"),
     Chain("push", "none", "reader"), Chain("pull", "none", "iterator"),
     Chain("body", "collect", "response"), Chain("push", "collect", "reader"),
     Lines("push", 5, 2, 0), Lines("pull", 4, 1, 1), Lines("body", 5, 5, 1)}
=============================================================================
