---------------------------- MODULE MCMessagePort ----------------------------
(* An instance of MessagePort for TLC.                                      *)
EXTENDS MessagePort

CONSTANTS f, g
TwoCallbacks == {f, g}

(* Scripts that put together what can get in each other's way.              *)
SomeScripts ==
    {{"add", "once", "remove", "dispatch", "stop", "throw"},
     {"add", "once", "cut", "dispatch", "signal", "remove", "abort"},
     {"add", "cut", "abort", "wait", "emit", "signal", "throw"},
     {"channel", "remove", "publish", "throw", "abort", "wait"},
     {"add", "post", "handler", "close", "throw"}}
=============================================================================
