------------------------ MODULE MCThreadsafeFunction ------------------------
(* The loop's own thread and two threads of an addon, which are alike, with *)
(* a queue that holds one item or any number.                               *)
EXTENDS ThreadsafeFunction

CONSTANTS main, t1, t2

MCThreads == {main, t1, t2}
MCMaxQueues == {0, 1}
=============================================================================
