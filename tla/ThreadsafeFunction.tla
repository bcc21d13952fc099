------------------------- MODULE ThreadsafeFunction -------------------------
(***************************************************************************)
(* A Node-API thread-safe function (NapiTsfn, src/napi.c): threads of an   *)
(* addon append items to a queue under a mutex and wake the loop through a *)
(* uv_async_t; the loop thread takes them out and runs JavaScript.  The    *)
(* last thread to give its share up marks the function closing, and the    *)
(* drain that finds it closing and empty closes the handle; the handle's   *)
(* close callback frees everything, mutex and condition included.          *)
(*                                                                         *)
(* The mutex is held over straight-line code only, so a critical section   *)
(* is one step.  What follows the unlock, the signals and uv_async_send,   *)
(* is a step of its own: the memory it reaches may be gone by then.        *)
(*                                                                         *)
(* An addon is assumed to use the function only from a thread that holds a *)
(* share of it, and never to wait for room on the loop's own thread.       *)
(***************************************************************************)
EXTENDS Naturals, Sequences, FiniteSets

CONSTANTS
    Threads,    \* the threads that may use the function
    Main,       \* the one of them the loop and JavaScript run on
    MaxQueues,  \* the queue limits it may be created with; 0 is no limit
    MaxCalls    \* bound: how often a thread calls the function

ASSUME ThreadsAssumption == IsFiniteSet(Threads) /\ Main \in Threads
ASSUME BoundsAssumption == MaxQueues \subseteq Nat /\ MaxCalls \in Nat

VARIABLES
    queue,         \* the items from head to tail
    max_queue,     \* the limit it was created with
    thread_count,  \* the shares it believes in
    tsfnAborted, closing,
    holders,       \* the threads that have a share
    pc,            \* where each thread is in the function's own code
    calls,         \* how often each thread has called
    pending,       \* a uv_async_send the loop has not answered
    refd,          \* the handle keeps the loop alive
    handle,        \* the uv_async_t, and with it the memory of the NapiTsfn
    loop,          \* what the loop's thread is doing
    current,       \* the item it has taken out, as a sequence of at most one
    accepted,      \* history: every item a call was answered napi_ok for
    delivered      \* history: the items JavaScript has been run for

ends == <<tsfnAborted, closing>>
shares == <<thread_count, holders, ends>>
items == <<queue, accepted>>
drain == <<loop, current, delivered>>
uv == <<pending, refd, handle>>
tsfnVars == <<max_queue, pc, calls, shares, items, drain, uv>>

Item == Threads \X (1..MaxCalls)

(* Inside napi_call: waiting for room, woken to look again, about to send.  *)
(* Inside napi_release, after the unlock: about to broadcast, and, for the  *)
(* release that found the count at zero, about to broadcast and send.       *)
Calling == {"waiting", "woken", "sending"}
Leaving == {"broadcast", "lastBroadcast", "waking"}

TsfnTypeOK ==
    /\ queue \in Seq(Item)
    /\ max_queue \in Nat
    /\ max_queue # 0 => Len(queue) <= max_queue
    /\ thread_count \in Nat
    /\ tsfnAborted \in BOOLEAN /\ closing \in BOOLEAN
    /\ pending \in BOOLEAN /\ refd \in BOOLEAN
    /\ holders \subseteq Threads
    /\ pc \in [Threads -> {"out", "undefined"} \cup Calling \cup Leaving]
    /\ calls \in [Threads -> 0..MaxCalls]
    /\ handle \in {"open", "closing", "freed"}
    /\ loop \in {"poll", "drain", "signal", "calling", "ended"}
    /\ current \in Seq(Item)
    /\ accepted \in Seq(Item) /\ delivered \in Seq(Item)

(* napi_create_threadsafe_function: some threads are given a share; the     *)
(* handle is unreferenced.                                                  *)
TsfnInit ==
    /\ queue = <<>> /\ accepted = <<>> /\ max_queue \in MaxQueues
    /\ holders \in (SUBSET Threads) \ {{}}
    /\ thread_count = Cardinality(holders)
    /\ tsfnAborted = FALSE /\ closing = FALSE
    /\ pc = [t \in Threads |-> "out"] /\ calls = [t \in Threads |-> 0]
    /\ pending = FALSE /\ refd = FALSE /\ handle = "open"
    /\ loop = "poll" /\ current = <<>> /\ delivered = <<>>

-----------------------------------------------------------------------------
(* What a thread does.                                                      *)

Full == max_queue # 0 /\ Len(queue) >= max_queue

(* JavaScript, and so the addon's code on this thread, runs in a callback   *)
(* of the drain or in any other turn of the loop.                           *)
MayRun(t) == t = Main => loop \in {"poll", "calling"}

Goes(t, where) == pc' = [pc EXCEPT ![t] = where]

(* A thread about to enter the function: it has a share, the memory is      *)
(* there.                                                                   *)
Enters(t) ==
    pc[t] = "out" /\ t \in holders /\ MayRun(t) /\ handle # "freed"

(* The critical section of napi_call_threadsafe_function, from the lock or  *)
(* from uv_cond_wait's return to the unlock or the wait.                    *)
Attempt(t, item, blocking) ==
    \/ /\ tsfnAborted \/ closing \/ (Full /\ ~blocking)
       /\ Goes(t, "out")
       /\ UNCHANGED <<items>>
    \/ /\ ~tsfnAborted /\ ~closing /\ Full /\ blocking
       /\ Goes(t, "waiting")
       /\ UNCHANGED <<items>>
    \/ /\ ~tsfnAborted /\ ~closing /\ ~Full
       /\ Goes(t, "sending")
       /\ queue' = Append(queue, item)
       /\ accepted' = Append(accepted, item)

Call(t, blocking) ==
    /\ Enters(t)
    /\ calls[t] < MaxCalls
    /\ t = Main /\ blocking => max_queue = 0
    /\ calls' = [calls EXCEPT ![t] = @ + 1]
    /\ Attempt(t, <<t, calls[t] + 1>>, blocking)
    /\ UNCHANGED <<max_queue, shares, drain, uv>>

(* The end of uv_cond_wait: the thread has the mutex again.                 *)
Retry(t) ==
    /\ pc[t] = "woken" /\ handle # "freed"
    /\ Attempt(t, <<t, calls[t]>>, TRUE)
    /\ UNCHANGED <<max_queue, calls, shares, drain, uv>>

(* A condition may wake a waiter for no reason.                             *)
WakeForNothing(t) ==
    /\ pc[t] = "waiting" /\ handle # "freed"
    /\ Goes(t, "woken")
    /\ UNCHANGED <<max_queue, calls, shares, items, drain, uv>>

(* uv_async_send, after a call or after the last release.                   *)
Send(t) ==
    /\ pc[t] \in {"sending", "waking"} /\ handle # "freed"
    /\ pending' = TRUE
    /\ Goes(t, "out")
    /\ UNCHANGED <<max_queue, calls, shares, items, drain, refd, handle>>

(* napi_acquire_threadsafe_function, for thread u: the share is refused when*)
(* the function is going away.                                              *)
Acquire(t, u) ==
    /\ Enters(t) /\ u \notin holders
    /\ ~tsfnAborted /\ ~closing
    /\ thread_count' = thread_count + 1
    /\ holders' = holders \cup {u}
    /\ UNCHANGED <<max_queue, pc, calls, ends, items, drain, uv>>

(* What a release leaves of the count.                                      *)
Remaining == IF thread_count = 0 THEN 0 ELSE thread_count - 1

GivesUp(t, abort, closes, on) ==
    /\ Enters(t)
    /\ thread_count' = Remaining
    /\ holders' = holders \ {t}
    /\ tsfnAborted' = (tsfnAborted \/ abort)
    /\ closing' = (closing \/ closes)
    /\ Goes(t, on)
    /\ UNCHANGED <<max_queue, calls, items, drain, uv>>

Release_AbortCloses(t, abort) ==
    GivesUp(t, abort, abort \/ Remaining = 0,
            IF Remaining = 0 THEN "lastBroadcast" ELSE "broadcast")

Release_OnlyLastBroadcasts(t, abort) ==
    GivesUp(t, abort, Remaining = 0,
            IF Remaining = 0 THEN "lastBroadcast" ELSE "out")

Release(t, abort) ==
    GivesUp(t, abort, Remaining = 0,
            IF Remaining = 0 THEN "lastBroadcast" ELSE "broadcast")

(* uv_cond_broadcast, and on to uv_async_send if that was the last share.   *)
Broadcast(t) ==
    /\ pc[t] \in {"broadcast", "lastBroadcast"} /\ handle # "freed"
    /\ pc' = [u \in Threads |->
                 IF u = t THEN IF pc[t] = "lastBroadcast" THEN "waking" ELSE "out"
                 ELSE IF pc[u] = "waiting" THEN "woken" ELSE pc[u]]
    /\ UNCHANGED <<max_queue, calls, shares, items, drain, uv>>

(* A thread that goes on in memory the close callback has freed: nothing is *)
(* known of it from here on.                                                *)
ReachFreed(t) ==
    /\ handle = "freed" /\ pc[t] \in Calling \cup Leaving
    /\ Goes(t, "undefined")
    /\ UNCHANGED <<max_queue, calls, shares, items, drain, uv>>

(* napi_ref_threadsafe_function and napi_unref_threadsafe_function.         *)
SetRef(on) ==
    /\ pc[Main] = "out" /\ MayRun(Main) /\ holders # {} /\ handle # "freed"
    /\ refd' = on
    /\ UNCHANGED <<max_queue, pc, calls, shares, items, drain, pending, handle>>

-----------------------------------------------------------------------------
(* What the loop's thread does, when JavaScript on it is not in the middle  *)
(* of a call itself.                                                        *)

LoopAt(where) == loop = where /\ pc[Main] = "out"

(* libuv answers any number of sends by one callback.                       *)
AsyncCallback ==
    /\ LoopAt("poll") /\ pending /\ handle = "open"
    /\ pending' = FALSE
    /\ loop' = "drain"
    /\ UNCHANGED <<max_queue, pc, calls, shares, items, current, delivered,
                   refd, handle>>

(* napi_tsfn_drain under the mutex, an item found.                          *)
TakeItem ==
    /\ LoopAt("drain") /\ queue # <<>>
    /\ current' = <<Head(queue)>>
    /\ queue' = Tail(queue)
    /\ loop' = "signal"
    /\ UNCHANGED <<max_queue, pc, calls, shares, uv, accepted, delivered>>

DrainEnds_LeavesItems ==
    /\ LoopAt("drain")
    /\ closing \/ queue = <<>>
    /\ handle' = IF closing THEN "closing" ELSE handle
    /\ loop' = "poll"
    /\ UNCHANGED <<max_queue, pc, calls, shares, items, current, delivered,
                   pending, refd>>

(* The queue found empty: the drain returns, and closes the handle if       *)
(* nobody is left.                                                          *)
DrainEnds ==
    /\ LoopAt("drain") /\ queue = <<>>
    /\ handle' = IF closing THEN "closing" ELSE handle
    /\ loop' = "poll"
    /\ UNCHANGED <<max_queue, pc, calls, shares, items, current, delivered,
                   pending, refd>>

(* uv_cond_signal: one waiter, whichever it is, may look again.             *)
SignalRoom ==
    /\ LoopAt("signal")
    /\ IF \E t \in Threads : pc[t] = "waiting"
       THEN \E t \in Threads : pc[t] = "waiting" /\ Goes(t, "woken")
       ELSE UNCHANGED pc
    /\ loop' = "calling"
    /\ UNCHANGED <<max_queue, calls, shares, items, uv, current, delivered>>

(* call_js, or the function itself, has returned; what it threw is printed. *)
CallReturns ==
    /\ LoopAt("calling")
    /\ delivered' = delivered \o current
    /\ current' = <<>>
    /\ loop' = "drain"
    /\ UNCHANGED <<max_queue, pc, calls, shares, items, uv>>

(* napi_tsfn_destroy, the handle's close callback.                          *)
Destroy ==
    /\ LoopAt("poll") /\ handle = "closing"
    /\ handle' = "freed"
    /\ UNCHANGED <<max_queue, pc, calls, shares, items, drain, pending, refd>>

(* The program ends: the loop has nothing else to do, and the handle, with  *)
(* or without a send to answer, does not hold it.                           *)
LoopEnds ==
    /\ LoopAt("poll")
    /\ \/ handle = "freed"
       \/ handle = "open" /\ ~refd
    /\ loop' = "ended"
    /\ UNCHANGED <<max_queue, pc, calls, shares, items, uv, current, delivered>>

LoopStep ==
    \/ AsyncCallback \/ TakeItem \/ DrainEnds \/ SignalRoom \/ CallReturns
    \/ Destroy

TsfnNext ==
    \/ \E t \in Threads :
          \/ \E mode \in BOOLEAN : Call(t, mode) \/ Release(t, mode)
          \/ \E u \in Threads : Acquire(t, u)
          \/ Retry(t) \/ WakeForNothing(t) \/ Send(t) \/ Broadcast(t)
          \/ ReachFreed(t)
    \/ \E on \in BOOLEAN : SetRef(on)
    \/ LoopStep \/ LoopEnds

TsfnSpec == TsfnInit /\ [][TsfnNext]_tsfnVars

(* A thread inside the function runs on; libuv answers what it was sent, and*)
(* JavaScript, which may use the function often before it returns to the    *)
(* loop, does return.  That a thread calls or releases is not assumed, and  *)
(* neither is a wake-up for nothing or the end of the program.              *)
TsfnFairSpec ==
    /\ TsfnSpec
    /\ SF_tsfnVars(LoopStep)
    /\ \A t \in Threads :
          WF_tsfnVars(Retry(t)) /\ WF_tsfnVars(Send(t)) /\ WF_tsfnVars(Broadcast(t))

-----------------------------------------------------------------------------
(* Every item a call was answered napi_ok for reaches JavaScript once, in   *)
(* the order of the answers, and the handle is not closed before: across    *)
(* limits, aborts and releases, the items delivered, in hand and queued are *)
(* the ones accepted (napi.c:1342-1371, 1407-1426).                         *)
NothingLostOrOvertaken ==
    /\ accepted = delivered \o current \o queue
    /\ handle # "open" => delivered = accepted

(* When the function is freed nobody has a share of it, waits on its        *)
(* condition or is on the way to send for a call: of the addon's threads    *)
(* only those on their way out of napi_release can still reach it           *)
(* (napi.c:1333-1340, 1342-1351, 1439-1453).                                *)
FreedBehindReleaseOnly ==
    handle = "freed" =>
        /\ holders = {}
        /\ \A t \in Threads : pc[t] \in {"out", "undefined"} \cup Leaving

(* The queue keeps to its limit, and the memory is there for whoever may    *)
(* use it.                                                                  *)
LimitAndMemoryKept == TsfnTypeOK /\ FreedBehindReleaseOnly

(* While the loop runs, a caller that waits for room is let go, an item     *)
(* accepted reaches JavaScript, and once every share is given up the        *)
(* function is freed: no wake-up is lost between the mutex, the condition   *)
(* and the coalescing uv_async_t (napi.c:1344-1351, 1413-1425, 1443-1452).  *)
EverybodyServed ==
    /\ \A t \in Threads : pc[t] = "waiting" ~> pc[t] # "waiting" \/ loop = "ended"
    /\ accepted # delivered ~> accepted = delivered \/ loop = "ended"
    /\ holders = {} ~> handle = "freed" \/ loop = "ended"
=============================================================================
