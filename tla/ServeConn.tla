------------------------------ MODULE ServeConn ------------------------------
(***************************************************************************)
(* Sxn.serve (src/network.c): a listener, its connections, and the         *)
(* requests a handler answers at once, by throwing, or with a promise.     *)
(*                                                                         *)
(* A connection's input is counted in pieces.  Its client sends requests   *)
(* 1, 2, ... back to back, request r ending at piece Ends[c][r]; a read     *)
(* brings any number of them.  Handler code runs between TryDispatch and   *)
(* HandlerReturns, when only the script moves.                             *)
(***************************************************************************)
EXTENDS Integers, Sequences

CONSTANTS
    Conn,           \* connections; each is accepted at most once
    Ends,           \* where each request a connection's client sends ends
    MaxIn           \* SXN_MAX_REQUEST_BYTES, in pieces

ASSUME EndsAssumption ==
    /\ Ends \in [Conn -> Seq(Nat \ {0})]
    /\ \A c \in Conn : \A q, r \in DOMAIN Ends[c] : q < r => Ends[c][q] < Ends[c][r]

Request(c) == 1..Len(Ends[c])

(* Where the first n requests end.                                          *)
Offset(c, n) == IF n = 0 THEN 0 ELSE Ends[c][n]
Total(c) == Offset(c, Len(Ends[c]))

VARIABLES
    server,     \* "listening", "closing" (stop() ran) or "closed"
    listed,     \* serve->conns: connections whose conn->serve is set
    uv,         \* each connection's handle: "absent", "open", "closing", "freed"
    reading,    \* connections uv_read_start is in force for
    received,   \* pieces the client's reads have brought
    base,       \* where conn->in begins: pieces already consumed or handed over
    consumed,   \* conn->consumed
    keep_alive, \* conn->keep_alive
    answering,  \* "none", "handler" (running), "promise" or "write" (in flight)
    request,    \* the request being answered
    replies,    \* what was written: <<request, how>>
    gone,       \* clients that closed their side or broke the connection
    cut,        \* connections being answered when stop() ran
    fault       \* undefined behaviour reached: "none" until then

serveVars == <<server, listed, uv, reading, received, base, consumed, keep_alive,
          answering, request, replies, gone, cut, fault>>

How == {"value", "error", "refused", "upgrade"}

ServeTypeOK ==
    /\ server \in {"listening", "closing", "closed"}
    /\ listed \subseteq Conn /\ reading \subseteq Conn /\ keep_alive \subseteq Conn
    /\ gone \subseteq Conn /\ cut \subseteq Conn
    /\ uv \in [Conn -> {"absent", "open", "closing", "freed"}]
    /\ \A c \in Conn : 0 <= base[c] /\ base[c] <= received[c] /\ received[c] <= Total(c)
    /\ \A c \in Conn : consumed[c] \in 0..Total(c)
    /\ answering \in [Conn -> {"none", "handler", "promise", "write"}]
    /\ \A c \in Conn : request[c] \in Request(c) \cup {0}
    /\ \A c \in Conn : replies[c] \in Seq((Request(c) \cup {0}) \X How)
    /\ fault \in {"none", "double_close", "use_after_free", "null_server"}

ServeInit ==
    /\ server = "listening"
    /\ listed = {} /\ reading = {} /\ keep_alive = {} /\ gone = {} /\ cut = {}
    /\ uv = [c \in Conn |-> "absent"]
    /\ received = [c \in Conn |-> 0] /\ base = [c \in Conn |-> 0]
    /\ consumed = [c \in Conn |-> 0]
    /\ answering = [c \in Conn |-> "none"]
    /\ request = [c \in Conn |-> 0]
    /\ replies = [c \in Conn |-> <<>>]
    /\ fault = "none"

-----------------------------------------------------------------------------
(* What is in the buffer.                                                   *)

Start(c, r) == Offset(c, r - 1)
End(c, r) == Offset(c, r)

(* The whole request at the front of conn->in, if there is one.             *)
Complete(c) == {r \in Request(c) : Start(c, r) = base'[c] /\ End(c, r) <= received'[c]}

(* Everything but the library's callbacks waits while a handler runs.       *)
FromLoop == fault = "none" /\ \A c \in Conn : answering[c] # "handler"

NoFault == UNCHANGED fault

(* conn_shutdown: unlink, then uv_close, once.                              *)
Shutdown(c) ==
    /\ listed' = listed \ {c}
    /\ IF uv[c] = "open"
       THEN uv' = [uv EXCEPT ![c] = "closing"] /\ NoFault
       ELSE UNCHANGED uv /\ fault' = "double_close"

(* conn_deliver: the reply goes to uv_write, which a handle already closing *)
(* refuses without ever calling back.                                       *)
Answers(c, new) ==
    IF uv[c] = "open"
    THEN /\ answering' = [answering EXCEPT ![c] = "write"]
         /\ replies' = [replies EXCEPT ![c] = @ \o new]
    ELSE answering' = [answering EXCEPT ![c] = "none"] /\ UNCHANGED replies
Deliver_Forgets(c, r, how) == Answers(c, <<>>)
Deliver(c, r, how) == Answers(c, << <<r, how>> >>)

(* conn->keep_alive = 0: the connection ends with the reply being written.  *)
KeptWithout(c) == keep_alive \ {c}

(* uv_read_stop: nothing more is read until the request is answered.        *)
ReadStopped(open, c) == open \ {c}

(* conn_try_dispatch once base' and received' are settled; `open` says      *)
(* whether uv_read_start is in force by then.                               *)
Oversize(c) == received'[c] - base'[c] > MaxIn

TryDispatch(c, open) ==
    \/ /\ Oversize(c)
       /\ reading' = ReadStopped(open, c)
       /\ keep_alive' = KeptWithout(c)
       /\ request' = [request EXCEPT ![c] = 0]
       /\ Deliver(c, 0, "refused")
       /\ UNCHANGED consumed
    \/ /\ ~Oversize(c) /\ Complete(c) = {}
       /\ reading' = open
       /\ answering' = [answering EXCEPT ![c] = "none"]
       /\ UNCHANGED <<keep_alive, consumed, request, replies>>
    \/ /\ ~Oversize(c)
       /\ \E r \in Complete(c) :
            /\ request' = [request EXCEPT ![c] = r]
            /\ consumed' = [consumed EXCEPT ![c] = End(c, r) - Start(c, r)]
       /\ reading' = ReadStopped(open, c)
       /\ \E keep \in BOOLEAN :
            keep_alive' = IF keep THEN keep_alive \cup {c} ELSE keep_alive \ {c}
       /\ answering' = [answering EXCEPT ![c] = "handler"]
       /\ UNCHANGED replies

-----------------------------------------------------------------------------
(* libuv's callbacks.                                                       *)

(* on_connection_cb; uv_accept may fail.                                    *)
Accept(c) ==
    /\ FromLoop
    /\ server = "listening" /\ uv[c] = "absent"
    /\ \/ /\ uv' = [uv EXCEPT ![c] = "open"]
          /\ listed' = listed \cup {c}
          /\ reading' = reading \cup {c}
       \/ /\ uv' = [uv EXCEPT ![c] = "closing"]
          /\ UNCHANGED <<listed, reading>>
    /\ UNCHANGED <<server, received, base, consumed, keep_alive, answering, request,
                   replies, gone, cut, fault>>

(* conn_read_cb with bytes.                                                 *)
ReadData(c) ==
    /\ FromLoop
    /\ c \in reading /\ uv[c] = "open" /\ c \notin gone
    /\ \E n \in 1..(Total(c) - received[c]) : received' = [received EXCEPT ![c] = @ + n]
    /\ UNCHANGED base
    /\ TryDispatch(c, reading)
    /\ UNCHANGED <<server, listed, uv, gone, cut, fault>>

(* conn_read_cb with nread <= 0: the end of the stream, an error, or no     *)
(* bytes for now (EAGAIN, which libuv reports as a read of length 0).       *)
ReadEnd(c) ==
    /\ FromLoop
    /\ c \in reading /\ uv[c] = "open"
    /\ reading' = reading \ {c}
    /\ Shutdown(c)
    /\ UNCHANGED <<server, received, base, consumed, keep_alive, answering, request,
                   replies, gone, cut>>

(* What is left of conn->in once the answered request is taken out; nothing *)
(* is when the buffer went to JavaScript.                                   *)
Leftover_All(c) == base[c]
Leftover(c) == IF base[c] + consumed[c] < received[c] THEN base[c] + consumed[c] ELSE received[c]

(* uv_read_start on a handle that is closing fails.                         *)
Restarted_Not(c) == reading
Restarted(c) == IF uv[c] = "open" THEN reading \cup {c} ELSE reading

(* conn_write_cb.                                                           *)
WriteDone(c) ==
    /\ FromLoop
    /\ answering[c] = "write"
    /\ \/ /\ c \in gone \/ uv[c] = "closing" \/ c \notin keep_alive
          /\ Shutdown(c)
          /\ answering' = [answering EXCEPT ![c] = "none"]
          /\ UNCHANGED <<reading, base, consumed, keep_alive, request, replies, received>>
       \/ /\ c \in keep_alive
          /\ base' = [base EXCEPT ![c] = Leftover(c)]
          /\ UNCHANGED <<received, listed, uv>>
          /\ IF base'[c] = received[c]
             THEN /\ reading' = Restarted(c)
                  /\ consumed' = [consumed EXCEPT ![c] = 0]
                  /\ answering' = [answering EXCEPT ![c] = "none"]
                  /\ UNCHANGED <<keep_alive, request, replies, fault>>
             ELSE IF c \in listed \/ (~Oversize(c) /\ Complete(c) = {})
             THEN TryDispatch(c, Restarted(c)) /\ NoFault
             ELSE /\ fault' = "null_server"
                  /\ UNCHANGED <<reading, consumed, keep_alive, answering, request, replies>>
    /\ UNCHANGED <<server, gone, cut>>

(* conn_close_cb, after libuv has called back for the writes in flight.     *)
CloseDone(c) ==
    /\ FromLoop
    /\ uv[c] = "closing" /\ answering[c] # "write"
    /\ uv' = [uv EXCEPT ![c] = "freed"]
    /\ reading' = reading \ {c}
    /\ UNCHANGED <<server, listed, received, base, consumed, keep_alive, answering,
                   request, replies, gone, cut, fault>>

(* serve_close_cb.                                                          *)
ServerClosed ==
    /\ FromLoop
    /\ server = "closing"
    /\ server' = "closed"
    /\ UNCHANGED <<listed, uv, reading, received, base, consumed, keep_alive, answering,
                   request, replies, gone, cut, fault>>

ClientLeaves(c) ==
    /\ FromLoop
    /\ uv[c] = "open" /\ c \notin gone
    /\ gone' = gone \cup {c}
    /\ UNCHANGED <<server, listed, uv, reading, received, base, consumed, keep_alive,
                   answering, request, replies, cut, fault>>

-----------------------------------------------------------------------------
(* The script.                                                              *)

(* The handler returns a value, throws, returns a promise, or a WebSocket   *)
(* or event stream.                                                         *)
HandlerReturns(c) ==
    /\ fault = "none"
    /\ answering[c] = "handler"
    /\ \/ answering' = [answering EXCEPT ![c] = "promise"]
          /\ UNCHANGED <<keep_alive, replies>>
       \/ Deliver(c, request[c], "value") /\ UNCHANGED keep_alive
       \/ \E how \in {"error", "upgrade"} :
            Deliver(c, request[c], how) /\ keep_alive' = KeptWithout(c)
    /\ UNCHANGED <<server, listed, uv, reading, received, base, consumed, request,
                   gone, cut, fault>>

(* conn_promise_done / conn_promise_fail.                                   *)
Settle(c) ==
    /\ FromLoop
    /\ answering[c] = "promise"
    /\ IF uv[c] = "freed"
       THEN fault' = "use_after_free" /\ UNCHANGED <<keep_alive, answering, replies>>
       ELSE /\ \/ Deliver(c, request[c], "value") /\ UNCHANGED keep_alive
               \/ \E how \in {"error", "upgrade"} :
                    Deliver(c, request[c], how) /\ keep_alive' = KeptWithout(c)
            /\ NoFault
    /\ UNCHANGED <<server, listed, uv, reading, received, base, consumed, request,
                   gone, cut>>

(* server.stop(): every connection of the server is shut down.              *)
Stop_OnlyListener ==
    /\ fault = "none"
    /\ server = "listening"
    /\ server' = "closing"
    /\ UNCHANGED <<listed, uv, reading, received, base, consumed, keep_alive, answering,
                   request, replies, gone, cut, fault>>
Stop ==
    /\ fault = "none"
    /\ server = "listening"
    /\ server' = "closing"
    /\ uv' = [c \in Conn |-> IF c \in listed THEN "closing" ELSE uv[c]]
    /\ listed' = {}
    /\ cut' = {c \in listed : answering[c] # "none"}
    /\ IF \A c \in listed : uv[c] = "open" THEN NoFault ELSE fault' = "double_close"
    /\ UNCHANGED <<reading, received, base, consumed, keep_alive, answering, request,
                   replies, gone>>

ServeNext ==
    \/ \E c \in Conn :
        \/ Accept(c) \/ ReadData(c) \/ ReadEnd(c) \/ WriteDone(c) \/ CloseDone(c)
        \/ ClientLeaves(c) \/ HandlerReturns(c) \/ Settle(c)
    \/ ServerClosed
    \/ Stop

ServeSpec == ServeInit /\ [][ServeNext]_serveVars

(* A handler returns, its promise settles, and writes finish.               *)
ServeFairSpec ==
    /\ ServeSpec
    /\ \A c \in Conn :
        WF_serveVars(HandlerReturns(c)) /\ SF_serveVars(Settle(c)) /\ SF_serveVars(WriteDone(c))

-----------------------------------------------------------------------------
(* An open connection always has exactly one thing that will move it on: a  *)
(* read in force, a handler, its promise, or a write.  Two would answer one *)
(* request twice or interleave two; none would leave the client waiting.    *)
OneDriver ==
    \A c \in Conn : uv[c] = "open" => (c \in reading <=> answering[c] = "none")

(* The buffer always begins at a request boundary, the replies are to the   *)
(* requests in the order sent, each answered once and none skipped, and     *)
(* after an error, a refusal or an upgrade nothing else is written.         *)
RepliesInOrder ==
    \A c \in Conn :
        /\ base[c] \in {Start(c, r) : r \in Request(c)} \cup {Total(c)}
        /\ \A i \in DOMAIN replies[c] :
               /\ replies[c][i][2] # "refused" => replies[c][i][1] = i
               /\ replies[c][i][2] # "value" => i = Len(replies[c])

(* In order, and within what the client sent: positions and replies are of  *)
(* its requests.                                                            *)
RepliesKept == ServeTypeOK /\ RepliesInOrder

(* "stop() closes the connections still open as well as the listener": the  *)
(* list a server keeps is exactly its open connections.                     *)
StopReachesAll ==
    /\ listed = {c \in Conn : uv[c] = "open"}
    /\ server # "listening" => listed = {}

(* What goes wrong goes wrong only on a connection stop() closed while its  *)
(* request was being answered: no other order of reads, promises, writes,   *)
(* departing clients and stop() reaches a connection that is closed.        *)
OnlyStopCuts == fault # "none" => cut # {}

(* stop() takes all the open connections with it, and nothing else takes    *)
(* one away from under a reply.                                             *)
StopTakesAll == StopReachesAll /\ OnlyStopCuts

(* Every request that has arrived in full, pipelined ones too, is answered  *)
(* or its connection closes, whatever other connections wait for.           *)
EveryRequestAnswered ==
    \A c \in Conn : \A r \in Request(c) :
        (uv[c] = "open" /\ received[c] >= End(c, r)) ~>
            (uv[c] # "open" \/ \E i \in DOMAIN replies[c] : replies[c][i][1] = r)

=============================================================================
