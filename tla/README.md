# A verification project for SxfeScript

SxfeScript (`sxn`) is a JavaScript runtime: a QuickJS-derived engine (ArcsX)
with an event loop, `fetch`, an HTTP server, timers, Web Streams and a layer of
Node compatibility (streams, events, readline, http), written in C and JavaScript. This directory holds TLA+
models of the parts of it whose order of events matters, the TLC configurations
that check them on small instances, and proofs that TLAPS checks for every size.
Every definition is translated from the source at this commit; `PROJECT.json`
gives the lines each one stands for.

Contents

1. [The system](#1-the-system)
2. [The modules and the code](#2-the-modules-and-the-code)
3. [What is checked: runs and bounds](#3-what-is-checked-runs-and-bounds)
4. [Fairness](#4-fairness)
5. [What is proved](#5-what-is-proved)
6. [What the code does that its documents do not say](#6-what-the-code-does-that-its-documents-do-not-say)
7. [What is not modelled, and the plan](#7-what-is-not-modelled-and-the-plan)
8. [Running it](#8-running-it)

## 1. The system

One thread runs everything a script sees: JavaScript, the engine's job queue,
and the callbacks of a loop (libuv, or the built-in one of `loop_builtin.c`).
Concurrency is therefore mostly interleaving: of callbacks with promises, of
what a script does inside a callback with the C code that called it, of two
structures that free each other. Real threads come in with Node-API addons.

| component | state it keeps | operations | who calls it, whom it calls |
|---|---|---|---|
| Borrowed chunks (`network.c`: SxnBorrow, ChunkNode, BorrowedChunk) | lock (exclusive, or a count of readers), bytes, "free when released" | `withShared`, `withExclusive`, `acquire*`, `release`, teardown, finalizer | made by the fetch stream; scripts and the collector use it |
| fetch (`network.c`: FetchState, libcurl callbacks, native stream) | header block, chunk list, waiting read, reference count, flags | header/write/complete callbacks, read, cancel, abort, finalizer | libcurl calls in; settles promises of scripts |
| Timers (`network.c`: SxnTimer) | list of timers, `firing`, `stopped` | `setTimeout`, `setInterval`, `clear*`, the loop's callback | any loop through `sxn_loop.h` |
| Built-in loop (`loop_builtin.c`) | sorted list of timer records, dead marks, time | start, stop, poll, alive | the runtime pump; calls timers |
| Server (`network.c`: SxnServer, SxnConn) | listener, connections, input buffer, what each is answering | accept, read, dispatch, reply, promise settles, write, close, `stop()` | libuv calls in; calls the script's handler |
| Runtime pump (`network.c`: `sxn_await_with_loop`, `sxn_runtime_tick`; `main.c`) | engine jobs, rejections to report and reported, a flag | await loop, `js_std_loop`, tick: jobs, report, poll | `main`, embedders; calls listeners of the report |
| Web Streams (`bootstrap.js`) | queues, waiting reads, states, pulls and writes in flight | controller, reader, writer, pipe, transform, tee | scripts, fetch bodies, compression |
| Bodies (`bootstrap.js`: Request, Response, tee, BYOB reader) | the body and its form, readers, what a BYOB view did not hold | `text` and its like, `body`, `clone`, `tee`, `read`, `cancel`, reply | scripts; read Web Streams and the native stream of fetch |
| URL, Headers, FormData (`bootstrap.js`) | search and the params objects handed out; lists of names and values | get, set, append, delete, sort, `search=`, `href=` | scripts, fetch and serve, over lines of native headers |
| EventTarget, AbortSignal, MessagePort (`bootstrap.js`), `events.once`, diagnostics_channel (`node_compat.js`) | live list of listeners, listeners of a signal, aborted; messages kept, started | add, remove, dispatch, abort, post, start, close | scripts; abort reaches fetch and `events.once` |
| EventEmitter (`node.c`, `node_compat.js`) | compact store of listeners, a memo of the last lookup, depth of emits | on, once, off, removeAllListeners, emit | Node layer and scripts; calls listeners |
| Node streams (`node_compat.js`, pipe in `node.c`) | buffers, flowing, ended, callbacks under way | push, read, pause, resume, iterator, write, end, destroy, pipe, pipeline | http, zlib, fs, child_process and scripts; built on EventEmitter |
| readline, `events.on` (`node_compat.js`) | the rest of a line, questions, lines an iterator keeps | feed, question, close, next | scripts; listens to a Node stream |
| Thread-safe functions (`napi.c`: NapiTsfn) | queue, limit, count of threads, aborted/closing, mutex, condition, `uv_async_t` | call, acquire, release, abort, ref/unref, drain, destroy | addon threads; calls JavaScript on the loop's thread |
| Module loader, `.sxbc` cache (`main.c`) | CommonJS cache, files beside the source | import, require, compile, freshness check | program start, scripts |
| net, fs, process, util (`node_compat.js`, `node.c`, `node_sys.c`) | per object: flags and buffers | Node's surface | built on EventEmitter, Server, libuv |
| Installer (`package.c`) | `node_modules`, lock file, manifest | add, remove, install | command line; libcurl, tar, npm scripts |
| FFI, Node-API values, compression, frontend, arena, LSP | little or none between calls | conversions, one engine or library call each | scripts, addons, embedders |

How they interact: a script starts a fetch, which lends it chunks; it serves
requests and answers through promises the pump's job queue settles; its timers
run from the loop the pump polls; its streams are pumped by promise jobs; an
unhandled rejection anywhere ends up in the pump's report. So the models meet at
the loop's contract (TimerRuntime/BuiltinLoop), at the chunk (FetchBody/
BorrowedChunk), at the streams (StreamPipe and Bodies over ReadableStream), at a
line of input (Readline over NodeStreams), at the abort (MessagePort and
events.once over EventTarget), at the two ends of an exchange (Exchange over
Bodies and UrlParams) and at promises and jobs, which every model takes as "some later turn".

What makes these parts hard, and correct when they are:

- **Ownership across callbacks.** Chunks, timers, connections, FetchStates and
  thread-safe functions are freed by whichever of several parties is last. Right
  means: freed once, when nothing reaches them, and not before.
- **Answers.** Each read, request, write and rejection is answered once, in
  order, whichever of data, end, error, abort and cancellation comes first.
- **Re-entry.** Listeners, timer callbacks and borrow callbacks change the very
  structure being walked. Right means: what was promised at the start of the
  walk happens, and the structure is in order afterwards.
- **Waiting.** The loop polls only when nothing is due, reports before it
  blocks, ends when there is nothing to do, and starves nobody.
- **Threads.** No item accepted is lost, no blocked caller forgotten, and the
  memory outlives its users.

`PROJECT.json` lists the hazards one by one with their lines and the properties
that watch them.

## 2. The modules and the code

Each action is one callback or one call, from its entry to its return to the
loop or to the script; where the code calls out in the middle (a listener, a
`with*` callback, a timer, a handler) the action ends there and another one
takes the rest, so whatever the callee may do happens in between.

**BorrowedChunk**: `network.c` SxnBorrow, ChunkNode and the BorrowedChunk class.
`handle` is what the script can reach of a chunk, `lock` the borrow counter
(readers, or exclusive), `borrowed`/`pendingFree` the flags of ChunkNode, `held`
the views a script acquired, `calls` the stack of `with*` callbacks, `retired`
and `frees` what memory has gone and how often. Actions: Create; EnterWith and
LeaveWith around a callback; AcquireX, Release; ChunksFree (the stream's
teardown); Finalize (the collector).

**BodyStream, FetchBody**: BodyStream is the promise: the peer's chunks come out
once each in order, until the end or until somebody discards the stream.
FetchBody is the code: libcurl's HeaderStart, HeaderLine, WriteData, Complete;
the script's StreamRead, StreamCancel, Abort, CollectStream, UseChunk and
LeaveCallback; the reference count shared by libcurl and the stream object. It
extends BorrowedChunk, takes its actions where the script or the stream touches a chunk,
and implements both.

**TimerRuntime, BuiltinLoop**: TimerRuntime is SxnTimer (`active`, `repeating`,
`running` for `firing`, `stopped`) over any loop that keeps the contract of
`sxn_loop.h`, which is the single variable `armed`. BuiltinLoop is
`loop_builtin.c`: the sorted list with dead marks, PollBegin (how far the walk
will go), FireNext, Return, PollEnd with the deferred reaping, Tick (time). Its
`armed` is computed, and it implements TimerRuntime's specification.

**ServeConn**: SxnServer and SxnConn. `received`, `base` and `consumed` are
positions in a client's pieces (what has been read, where the buffer begins,
what the dispatched request takes of it), `answering` says what an accepted
request is waiting for (the handler, its promise, a write), `uv` is the handle's
life, `reading` who has a read in force, `listed` the server's list.
Accept, ReadData, ReadEnd (an empty read counts as one), HandlerReturns (the
reply, an error, a promise, an upgrade), Settle, WriteDone with the restart that
dispatches a pipelined request, CloseDone, Stop, ServerClosed, ClientLeaves. A
request is its size; header text and the forms of a body are left out, the
limit is kept because it decides who is refused.

**RuntimePump**: `jobs` is the engine's queue, `raised` the flag of the rejection
tracker in `network.c`, `pending` and `reported` the two lists of the report in
`bootstrap.js`; `stage` is where the pump is: await loop, its poll,
`js_std_loop`, the tick's drain, report and poll. Scripts reject, handle,
enqueue and open handles wherever JavaScript runs (`script`), the report's own
listeners included.

**ReadableStream, WritableStream, StreamPipe**: the first two are operators on
records (a stream's state and its queue) that model the controller, reader,
writer and their error paths; StreamPipe puts a source, a pipe or a script's
writer, a transform and a consumer around two such pairs.

**Bodies**: the body of a Response and everything that reads it. A body is in
memory, a script's ReadableStream, or the native stream of a fetch, which any
number of readers may take and which keeps one waiting `read()` only.
`streams` are the raw stream, the body stream wrapped round it and the two
branches of `tee()` (records of ReadableStream); `asks` says whose `read()` each
stream owes an answer, `tee` what its pump is doing, `byob` what did not fit into
a view, `source` and `call` the transfer and the `fetch()` behind it. A script is
a set of things it does (`use`); the order is free.

**UrlParams, Exchange**: UrlParams has the query of a URL (parse, serialize,
escape), Headers and FormData as functions on lists. A text is a sequence of
characters, of which the ones the parser tells apart are kept (`=`, `&`, `+`,
space, `%`, an escape), and the one that has no escape, half of a surrogate pair:
`Encodes` says of which lists `toString()` can write a query at all. Exchange adds to Bodies the URL with the params objects
a script has got from it (`objects`; `url.object` is the one the URL knows), the
handler on the other side with the headers it answers, the Request body it
reads, and the http.ClientRequest that hides a fetch behind an event.

**EventTarget, MessagePort**: `entries` is the live list a dispatch walks by
index, `subs` the listeners of an AbortSignal and of a diagnostics channel, which
are walked as copies; `stack` has the walks under way, so a listener may do
anything inside another's call; `waiter` is the promise of `events.once` with all
it has registered. MessagePort adds `port`, the messages kept until it is
started, `jobs`, the deliveries queued, and `delivery`, the job under way: one
that throws ends the event loop, or is dropped while the main module is awaited.

**NodeStreams, Readline**: a chain of a source, a transform and a sink, or a
consumer of either. An emit calls its listeners at once, so a chunk goes down the
chain on one call stack: `stack` holds the calls under way, `jobs` the microtasks
in their order, `r` the readable halves, `held` the chunks whose callback has not
come. The chains cover the streams of the runtime: a script's Readable,
`Readable.from`/`fromWeb` (pull) and a request's body (body); transforms that
answer at once, later, or at the end (zlib); sinks with and without `_final`, the
response of http; listeners, `read()`, and an async iterator. Readline puts an
Interface on the chain's outlet: `rest` is what came after the last newline,
`asked` the questions waiting, `iterator` the loop over its lines or the one of
`events.on`. A chunk becomes text by itself (`Decoded`): a character whose bytes
are not all in it becomes replacement characters. A listener of a line may have the
next chunk pushed, whose lines then go before those that wait; `overtaken` remembers
it. Its Next takes every step of NodeStreams and its own. Each chain has its bounds:
the bytes its source makes, how wide a chunk is, and how often the script pauses,
ends, unpipes, destroys or closes.

**ListenerList, Emitter, EventEmitter**: Emitter is the promise, a list of
listeners per event and, for each emit under way, the listeners it began with.
EventEmitter is the code: an entry is nothing, one function or an array; `memo`
remembers how an event resolved; `stack` and `depth` are the emits under way;
`off()` copies an array that is being walked and changes it in place otherwise.
ListenerList has what both need to know of `once()` wrappers.

**ThreadsafeFunction**: NapiTsfn. A critical section is one step, because the
mutex is held over straight-line code and everything it guards is touched only
under it; what follows the unlock (`uv_cond_signal`, `uv_cond_broadcast`,
`uv_async_send`) is a step of its own. `pc` is where a thread is in the
function's code, `loop` where the loop's thread is in the drain, `pending` the
coalesced wake-up, `handle` the memory. A thread that goes on in freed memory
becomes "undefined" and does nothing known from there. A share belongs to a
thread; one that takes two is two members of Threads. The module assumes what
every addon must do: use the function only while it holds a share, and never
wait for room on the loop's own thread.

**MC\*** modules give the constants; **\*_proofs** modules hold the theorems.

## 3. What is checked: runs and bounds

| run | instance | distinct states | what it shows |
|---|---|---|---|
| `borrowed_chunk` | 2 chunks, callbacks 3 deep, scripts that keep a chunk while they use a view of it | 566 | the lock is the views attached and an exclusive one is alone (BorrowsCounted), no view of freed bytes (NoDanglingView), freed once (FreedExactlyOnce) |
| `fetch_body` | 2 chunks, 3 reads, 2 header blocks, one `with*` at a time | 115,008 | the FetchState goes with its last owner, its chunks with it, and the head is the last block (HeadAndOwnersKept), what was lent is freed or waits for its view once the stream is thrown away (LentIsSettled), AbortIsSeen, ImplementsBodyStream, EverybodyAnswered |
| `builtin_loop` | 3 timers, delays 1 and 2, one-shot and repeating | 110,224 | equal due times fire in the order set, the list has what the program has, each SxnTimer freed once (TimersKept); KeepsContract, EveryTimerFires |
| `serve_conn` | one client with requests 1, 1, 2 against a limit of 2, one with a single request | 56,387 | a connection always has one thing that moves it on (OneDriver), replies once and in order (RepliesKept), `stop()` takes every open connection and nothing else takes one from under a reply (StopTakesAll), EveryRequestAnswered |
| `runtime_pump` | 2 promises, 3 jobs, 2 handles | 43,536 | a rejection is on one of the two lists (RejectionsKept), EventsTellTheStory, ReportsBeforeWaiting, ReportedInTime |
| `runtime_pump_exit` | 1 promise, 1 job, 1 handle | violation | AllReportedAtExit fails: the last poll's rejection is never reported |
| `stream_pipe` | high-water mark 2, chunks of sizes 1, 2, 1, 4 reads | 135,594 | KeptInOrder, PulledAsNeeded, EverybodyHears |
| `node_streams` | 16 chains of 2 one-byte chunks and one pause, end, unpipe or destroy; into a readline interface 5 bytes pushed in chunks of one or two (no such step), 4 pulled or a body of 5 in one chunk (with one), of which 1, 2 and 5 are newlines and 3 begins a character of two; one question | 207,994 | EveryByteOnce (what was made is what was consumed and what is buffered), EndMeansWhole (the end is told once and only of the whole), LinesInOrder (of the text as it was decoded), EverybodyHears |
| `event_target` | 5 scripts, 2 functions, 3 registrations, 2 walks, 2 messages | 221,111 | EachIsCalled (a once listener once, every listener of a dispatch), AbortIsComplete (nobody is left waiting or registered), MailInOrder, EveryMessageHeard (of a port that was started or has a handler, until a delivery throws) |
| `web_exchange` | 19 scripts, bodies of 2 chunks of 2 and 1 bytes, a view of 1 byte, 3 changes to a URL, headers or a form | 281,570 | BodiesArrive (the end only with every byte), StoppedIfUnwanted, ParamsAgree, HeadersArrive, EveryReadSettles |
| `event_emitter` | 2 events, a listener plain and wrapped by `once()`, limits 0 and 1, emits 2 deep, lists of 3 | 192,924 | ImplementsEmitter; the depth is the emits that walk an array, whatever throws, and a leak is reported (CountsKept) |
| `threadsafe_function` | the loop's thread and 2 others, a call each, room for 1 or any number | 217,824 | NothingLostOrOvertaken, LimitAndMemoryKept (the queue keeps to its limit, only `release` can reach freed memory), EverybodyServed |

A property that is the conjunction of several (BorrowsCounted, TimersKept,
StopTakesAll and so on) keeps its parts as definitions of their own, each with
its comment, and takes in the type invariant of its module.

Why the bounds are enough for what is asked:

- Two chunks are needed to see that one chunk's lock and free do not depend on
  another's; three levels of callbacks give shared in shared, exclusive in
  shared (refused) and a release inside both. The counters are proved for any
  number (section 5).
- Three reads and two chunks give more readers than chunks and the reverse; two
  header blocks are a redirect and a response. Two timers of equal due time and
  a third that a callback sets or clears are the cases of the list.
- The three requests of the first client arrive in any split; two fit in the
  buffer, the third is at the limit alone, so the boundary is met exactly, below
  and above. Two connections let `stop()` find one answering and one idle.
- Two promises on the rejection lists, three jobs and two handles let a listener
  of the report raise, handle, and enqueue while another report is pending.
- Three chunks with a high-water mark of two fill the queue and leave one over;
  the middle one is bigger than the others, as with a byte-length strategy.
- Two chunks behind a body, the first of two bytes and a view of one, leave a
  byte over at every place it can be left. A tee has two branches; a third reader
  of the native stream is the second again. Three changes are a `set` or `sort`
  with something before it and something after; the four queries and three names
  put a separator, an escape, an empty part and a `%` that does not decode in
  each place the parser looks at.
- Two chunks through a chain meet every boundary of paused, flowing and ended
  with one buffered and one on its way; one step of the script's own (a pause, an
  end, an unpipe, a destroy, a late push, a close) at any moment is where the
  code's guards are, and two would only undo each other. Three bytes of which the
  first and last are newlines give an empty line, a line over two chunks and an
  end with and without a newline.
- Three registrations let a listener remove one before and one after itself; two
  walks are a dispatch inside a dispatch.
- A list of three becomes two, one and none on the way down, which is every
  shape of the compact store; an emit inside an emit is what the copy is for,
  and the refinement is proved for any depth.
- Two workers and the loop's thread are needed for a signal that wakes the wrong
  one of two waiters, for an abort beside a waiter, and for a release that is
  not the last. For the function a thread's second call is a third thread's first.

Scripts and chains are sets in the MC modules so that what can get in each
other's way is explored together, and what cannot is not multiplied.

Deadlock checking is off (`CHECK_DEADLOCK FALSE`) where the modelled part may
really come to rest: a program that has ended, a transfer nobody reads. It is on
for the emitter.

## 4. Fairness

Fairness is stated only where the code's own scheduling gives it, and nothing is
assumed of a peer, a client, a thread's decisions or a script's choices.

- FetchBody: a callback returns (WF LeaveCallback); libcurl completes a transfer
  that is still its own (SF Complete: a timeout or an end, however often aborts
  of other steps come between). Reads are not assumed to be made.
- BuiltinLoop: time passes, callbacks return, the poll goes on and the pump
  polls again (WF of each). That is the `for (;;)` of the pump.
- ServeConn: a handler returns (WF), its promise settles and a write completes
  or fails (SF: libuv reports every write it accepted; a promise that never
  settles is an answer the script withholds, and excluded). Clients need not
  send, read or leave.
- RuntimePump: JavaScript returns and the pump's loops go on (WF of the pump's
  own steps); no callback of the loop is assumed to happen.
- StreamPipe: started pulls, writes, transforms and closes settle, and the pipe's
  promise jobs run (WF). The consumer is not assumed to read, nor anybody to
  fail, abort or cancel. SourceEnqueues or SourceCloses is fair because a source
  that neither makes a chunk nor ends leaves every reader waiting by right.
- Exchange (with Bodies): the engine's jobs run, the pump and a reader that began
  go on, and a transfer ends some day (WF of one disjunction: each of its steps is
  taken a bounded number of times, so none can hold up another for ever). A script
  is not assumed to read, cancel or abort.
- MessagePort (with EventTarget): code and jobs run, and a listener returns or
  throws (WF). A script is not assumed to start a port: EveryMessageHeard is about
  messages to a port that was started or had a handler.
- Readline (with NodeStreams): code runs to its end (WF of the calls). Jobs,
  pushes, pulls and transform callbacks come between two `read()` calls of a busy
  script, so theirs is SF; a script connects, reads, asks for the next chunk and
  resumes what it paused. It is not assumed to write, end or destroy.
- ThreadsafeFunction: a thread inside the function runs on (WF of Retry, Send,
  Broadcast); the loop's thread goes on with the drain (SF LoopStep: JavaScript
  may enter the function any number of times in one turn, and returns). Calls,
  releases, wake-ups for nothing and the program's end are not assumed.

## 5. What is proved

TLAPS checks these for every value of the constants, from the assumptions named
in the modules. Each has an inductive invariant, checked by TLC first.

**BorrowedChunk** (any number of chunks, any depth; the second half of FetchBody_proofs).
TypeCorrect; LockCountsViews
and ExclusiveBorrowIsAlone, together BorrowsAreCounted: the lock is the multiset of attached views, which
needs the stack of callbacks in the invariant, since a view is attached by being
acquired or by being on the stack. MemorySafe: NoDanglingView,
FreedExactlyOnce and the reason of every deferral, assuming scripts keep the
chunks whose views they hold (`ScriptDropsHeld = FALSE`); ViewsStayBacked is its
part about views. The assumption is
needed: with TRUE, TLC shows a chunk freed under an acquired view in four steps.

**TimerRuntime** (any number of timers, any loop keeping the contract; the theorems
are in EventLoop_proofs, where `fireable` is what that loop may fire).
TypeCorrect; TimersFreedOnce: a SxnTimer is released once and when nothing
reaches it; CallbacksReachLiveTimers: no callback of a cleared or freed timer.
The invariant adds the bookkeeping between `active`, `running` and `stopped`
(RuntimeOK), which the next paragraph shares.

**BuiltinLoop** (any number of timers, any delays). LoopKeepsContract: it
implements TimerRuntime, with the handles in its list that are not dead as the
armed ones, so the theorems above hold of the program's own loop. TimersAreKept:
TimersKept, all of it. The invariant has four parts: RuntimeOK; the shape of the
list (ListOK); the handles that may fire are those of the timers the program has,
but for a one-shot whose callback runs (HandlesOK); the list is sorted by the time
left, and a one-shot comes before every later one with no shorter a delay
(OrderOK). The last holds although time passes and intervals are re-armed between
the two, because what is left of a timer never exceeds its delay. The lemmas
Removed, Linked and Reaped say what the three list operations do to the order.

**RuntimePump** (any set of promises, any number of jobs and handles).
TypeCorrect and NoRejectionLost, together ListsAreKept: an unhandled rejection is
on one list and one only; FlagNeverHides: the flag the loop reads is up, or the report is running,
whenever a rejection waits, which is the strengthening TickReportsFirst needs:
the tick does not go to the poll with a rejection to report. EventsAreTold:
EventsTellTheStory, a promise has one "unhandledrejection" at most and after it one
"rejectionhandled", and they say whether it is on the list of the reported; the proof
follows the positions of a promise's events.

**EventEmitter** (any events, listeners, arrays and depth). Implements: the
compact store, the memo and the copying `off()` implement Emitter; that is, an
emit calls the listeners it began with, once each, in order, whatever the
listeners do. LeakReported and TypeCorrect, together CountsAreKept. The invariant has four parts. StoreOK:
an array belongs to one event and holds two listeners or more. StackOK: an emit
under way still finds as many listeners in its array as it began with, at every
position it has yet to reach. MemoOK: what the memo would answer is what the
store would. DepthOK: the depth counter is the number of emits that walk an
array, which is what tells `off()` to copy.

**ThreadsafeFunction** (any finite set of threads, any limits, any number of
calls). FreedWhenUnused: memory is freed only when no thread has a share or is
inside a call; ItemsKept: accepted items are delivered, in hand or queued, in
order, all of them before the handle closes; TypeCorrect, with the queue's limit,
and with FreedWhenUnused LimitAndMemoryAreKept.
The invariant: the count is the number of holders and `closing` means there is
none (SharesOK), a thread in a call still has its share (InsideOK), a handle
being closed has an empty queue and a drain that will not run again (HandleOK).

**ServeConn** (any set of connections, any requests and limit). OneDriverAlways:
an open connection has exactly one of a started read, a running handler, a pending
promise and a pending write, so it neither answers twice nor hangs;
StopTakesEverything: `stop()` takes every open connection, and no other step takes
a connection away from under a reply. The invariant adds CutOK: a connection that
is no longer open and has a reply to come was cut, and nothing is cut while the
server listens. RepliesAreKept: RepliesKept, the buffer begins at a request's first byte or after the last,
replies are to the requests in their order, and nothing follows a reply that closes.
A request is where it ends in the
client's pieces, so what it rests on is arithmetic and not a sum; the invariant
says the buffer begins between two requests (AtBoundary), a request being
answered is whole at its front (Held), and where the story of replies stands for
each thing an open connection may be doing (Place).

**FetchBody** (any number of chunks, reads, header blocks and callbacks).
DeliversAsPromised: it implements BodyStream, with the transfer "discarded" once
it was cancelled, aborted or freed, "ended" once `done`; LentIsAlwaysSettled:
LentIsSettled, for which the invariant adds that no free waits before the stream is
thrown away and a chunk nobody was lent is nobody's (LentInv); its chunks take
BorrowedChunk's steps, so the theorems above hold of them, which
FetchedBytesAreSafe states;
AbortIsTold: AbortIsSeen; HeadAndOwnersAreKept. The invariant: what was delivered,
then what is queued, is what has arrived (QueueOK); a read waits only on an empty
queue (ReadsOK); libcurl owns the transfer until `done` (OwnersOK); an aborted
fetch has told a reader or has the error for the next one (AbortOK).

**MessagePort** (any script, any number of messages). MailIsInOrder: what was
heard, the deliveries queued as jobs and what the port keeps are, in that order,
what was posted. The invariant adds that a handler set in time finds nothing kept.
Of the EventTarget below it, over any events, listeners and nesting of walks:
DispatchCallsEach: EachIsCalled, a walk by index over the live list calls each
listener that was there and stayed, once; AbortDoesItAll: AbortIsComplete, an abort
settles everything that waits for it, whatever its listeners do. The invariant:
registrations are numbered and on the list once (EntriesOK); what a walk has seen
is behind its index and what is ahead of it unseen, unless a removal has moved the
list under it (WalksOK); what an abort has yet to do is on the signal's list, or
ahead of the walk over the copy, with one watch at most (AbortOK).

**StreamPipe** (any number of chunks and reads, any sizes and high-water mark).
ChunksInOrder: KeptInOrder, whatever fails, closes, is aborted or cancelled on the
way. The invariant: a stream that has ended holds nothing and owes no answer
(StreamOK); a pipe has one read at most (ReaderOK). Through a pipe, as long as
neither side has failed, the chunks that are through, the one in hand and those the
source holds are the numbers from 1 to what was made, without a gap (PipedOK, FlowOK);
once it has failed nothing more gets through. A script's answered, queued and
waiting chunks are one increasing line (ScriptOK). Unless something broke the stream
what was made before the close has arrived or is among the writes the close waits
for, and the readable side ends with that close and not before (CoverOK).
PulledEnough: PulledAsNeeded, from an invariant of its own (PullInv), if every chunk
takes space (`SizeOf[c] > 0`). That is needed: a `size()` of 0 never fills the queue,
and the source is pulled as often as it can make chunks.

**NodeStreams** (any chains, any number of bytes in chunks of any width, any bound of the
script's meddling; the specification is Readline's, so an interface may sit on top).
BytesAreKept: EveryByteOnce. EndsAreWhole: EndMeansWhole. Neither is inductive. The
invariant adds: data flows only to somebody who listens, until the script takes a
pipe off (FlowsAreHeard), without which a chunk taken out of a buffer goes nowhere;
"end" is queued once, after the data (EndsHold); the sink ends after its outlet, or
because the script wants it (SinkHolds), and a consumer that heard the end has
nothing left to come (HeardHolds); the callback of pipeline() and the promise of a
response are told once, and when (ToldHolds); what a transform was given is what it
pushed and what is in its call on the stack, and it ends after its source
(MiddleHolds). The type invariant says of the stack that only the innermost call
carries bytes (Sound). EndsAreWhole follows from the end back to the source: an end
that was told means an empty buffer, so EveryByteOnce at that stream has nothing but
the bytes that came out. Most of the thirty actions touch few of these parts:
a step that is Calm keeps all of them, and the others say which part they move.
A buffer is flattened by FlattenSeq, which the library defines by recursion over the
length. The provers have no induction rule for it, but the set of lengths for which
a fact fails has a least member (LeastOf, from the well-foundedness of
FiniteSetTheorems), which is an induction for one fact at a time (CountUp).

**Readline** (any chains, any bytes that end a line or begin a character, any number
of questions). LinesAlways: LinesInOrder, from Typed, Inv and LinesHold, which has
three parts. Lined: what waits on the stack for a line is one. TextHolds: the lines given and those that wait on the stack
are the lines of the text so far, each as often, and in the same order until a chunk
overtook some; and the rest is what comes after them. It moves with one fact about
splitting, FeedsLines: the lines of a text and a chunk are the lines of the text and
those of its rest with the chunk. How often a line occurs (Times) adds up over a
concatenation, so the count survives a chunk whose lines go before others. A
replacement character is no newline and no newline is part of a character, so the
text has its newlines where the bytes have theirs. Nothing in NodeStreams touches a
line: each of its steps is Silent (it says nothing to the interface and leaves the
lines on the stack). IteratorHolds: a loop gave or keeps the lines that went out to
listeners since it began, and while a next() waits it keeps none. What LinesInOrder says of the text has an excuse: a transform that pushed after
its end (`late`). The end has taken the rest as a line then, so such bytes begin a
new text, and the code does not join the two.

**Bodies** (any scripts, any number of chunks of any lengths, any room, sizes and
high-water mark; the specification is Exchange's, so a whole exchange with its
parameters and headers). BodiesArriveAlways: whoever is told the end of a body has
every byte of it, in order and once. StoppedIfUnwantedAlways: the source is stopped
when nobody wants the body, and not before. The invariant has two parts.
Frame is inductive by itself and gives the second theorem: the types; each stream's
waiting and answered reads are those its readers asked for, or none wait on a native
stream that was stopped (PortsOK); which streams exist, and that they are blank
before their start() (OpenOK); who reads which stream (ReadersOK, TeeOK); what the
source and the call that waits for it may be doing (SourceOK, CallOK); who had to
cancel for the source to be stopped (StopOK). Flow holds as long as the native stream
has one reader: there is a number n[s] of chunks taken from each stream s, from which
its answers and its queue go on without a gap (Line); a stream that may still be fed
holds what the one above it has given (Holds, Above); where somebody listens, an end
comes after the last chunk (Told, Whole); and each reader has the bytes of the first
n[s] chunks (First, Has). A read that goes through the wrapper or tee() moves two
or three of these numbers at once, and a BYOB view the bytes only, so most steps are
proved by saying which of them stay. The bytes are flattened by FlattenSeq, with the
facts of the paragraph before.

**UrlParams** (any text). RoundTrip: what `toString()` writes for any list of pairs
it can encode (none with a lone surrogate, on which it throws) is parsed back to
that list. A part begins where no "&" is and one was before, ends
before the next, and is cut at its first "="; the proof adds one pair at a time
(Upto, Returns): what is parsed of a query and "&" and one more part is what was
parsed of the query, and that pair. ParsedTyped: a well-formed query has pairs of
texts.

**Exchange** (any names, values, queries and number of changes). ParamsAgreeAlways:
the search of a URL and the params object it hands out say the same pairs, unless a
query that does not decode or a pair that does not encode has stopped the writing
halfway (`torn`). UrlOK
carries it: types, and that the object is one of those handed out; each way of
writing one of the two is RoundTrip or ParsedTyped. The assumptions say what a
script can give: names, values and queries are texts, and `Names`, which is the
order `sort()` puts names in, has every name once. HeadersArriveAlways: headers,
forms and the text of a request arrive as they were meant. The invariant: for every
name the values on the list are what the calls came to (Means), and a name other
than Set-Cookie has one entry, Set-Cookie one for each value (Sole), without which a
joined value would hide a second one (HeadersOK, FormOK); the Response has the
values the list had when the head went out (GotOK), which needs Frame's account of
when that is; and the body of the request is where the call has brought it
(RequestOK).

The theorems of TimerRuntime, BuiltinLoop, RuntimePump and ServeConn are in
EventLoop_proofs; those of MessagePort, EventTarget and ThreadsafeFunction in
Delivery_proofs; those of BorrowedChunk in FetchBody_proofs; those of UrlParams and
the lemmas about one ReadableStream, which StreamPipe and Bodies share, in
WebValues_proofs; those of Bodies and Exchange in Exchange_proofs.

**Only model-checked**: every liveness property (EverybodyAnswered,
EveryTimerFires, EveryRequestAnswered, ReportedInTime, EverybodyHears,
EveryMessageHeard, EveryReadSettles, EverybodyServed), since the prover does no
fairness.

## 6. What the code does that its documents do not say

Shown by the violation run:

- A promise rejected by the last callback of the last poll is never reported
  (`network.c:2646`; `RUNTIME.md:178` promises it).

Shown by TLC while the models were made, and excluded by name from the properties
above:

- A view from `acquireShared()`/`acquireExclusive()` does not keep its
  BorrowedChunk alive; the collector frees the bytes under it
  (`network.c:1606`, against the comment at 1617; ScriptDropsHeld).
- `stop()` frees a connection whose handler's promise is pending; the promise's
  continuation then uses it (`network.c:444`, 972-990, against the comment at
  431; `cut` in StopTakesAll).
- The last `napi_release_threadsafe_function` gives up the mutex before it
  broadcasts and sends; a drain that runs in between frees the function
  (`napi.c:1448-1452`, against the comment at 1450; Leaving in
  LimitAndMemoryKept). `tests/fixtures/napi/hello.c` has exactly this shape.
- The async iterator of a Readable listens during `next()` only, while the stream
  flows on: chunks and errors between two of its calls are lost, and a loop whose
  body waits ends without them (`node_compat.js:655`, against the comment at 515
  and `tests/fixtures/node_stream.mjs:8`; EveryByteOnce leaves the iterator out).

Met while modelling, and part of the models as they are:

- A read of zero bytes, which libuv calls "try again", closes the connection
  (`network.c:929`).
- `stop()` during a write closes the handle, and the write callback closes it
  again (`network.c:485, 980`).
- An upgraded or event-stream connection is closed as soon as the reply is
  written (`network.c:485`), though the comment at 531 has it stay open.
- When memory for a pipelined body cannot be had the request is never answered
  (`network.c:769`; not in the model, which does not run out of memory).
- The built-in loop leaks a record per one-shot timer that fires
  (`loop_builtin.c:91`), and a poll does not return while an interval is always
  due (121).
- Rejections are not reported while a module awaits (`network.c:2529`); a
  listener of the report that enqueues a job leaves it to the next turn, after a
  poll that may block (2639); a throwing `queueMicrotask` callback ends the event
  loop and not the await loop (2635).
- `cancel()` on a native body leaves a waiting read, and the fetch promise,
  pending for ever (`network.c:1556`); a second native read displaces the first
  (1474).
- `desiredSize` drifts when chunks are not of size 1 (`bootstrap.js:1170`); a
  transform applies no backpressure (1358); writes queued before a failure still
  run after it (1270); `pipeTo` does not cancel the source when the destination
  fails (1086); `close()` does not wait for the sink's start, and twice calls the
  sink's close twice (1256); an error thrown by a transformer does not reach the
  readable side, whose reads wait for ever (1275: the abort that follows finds
  the stream not `S_READABLE` and returns at 1247). EverybodyHears excludes that
  case by name.
- A `once()` wrapper whose event is emitted again before its turn in the outer
  emit is called twice (`node.c:3149`); a memo entry borrowed by an emit may be
  freed while it runs (658); a script that writes `_events` itself is not seen
  by the memo (316).
- A thread that is answered `napi_closing` must still release: Node counts that
  answer as the release, so an addon written for Node leaves `thread_count` above
  zero and the function is never closed (`napi.c:1412, 1416`). After an abort the
  items already queued are still delivered (1343). With no `call_js` callback an
  exception of the function stays on the context (1360).

- Bodies: a second pending read of a native stream displaces the first for ever,
  its error is told once and then "done", so `text()` after a failed `text()` is
  empty (`network.c:1474`); a native body is not checked for having been used, its
  clone is empty (`bootstrap.js:834`), and the abort listener of a fetch is never
  taken off (864). `res.body.cancel()` before the wrapper's `start()` has run
  cancels nothing (592). A redirect refused by `redirect: "error"` leaves the
  transfer's body unread. A Request body that is not a string is sent as
  `String(body)`: bytes become "1,2,3" (857), though `RUNTIME.md:72` speaks of
  streaming request bodies. Two BYOB reads at once overwrite what the first had
  left over (1438).
- A URL whose `search` setter meets a `%` that does not decode throws with
  `_search` changed and the params not (261). The other way round, a params object
  that is given a lone surrogate throws in `encodeURIComponent` with its pairs
  changed and the URL's `_search` not (87, 117, 278-280); both are the model's
  `torn`, which ParamsAgree leaves out. After `href=` a params object of
  before throws on its next change, or writes over the search of the new URL (279).
- An http.ClientRequest whose body fails after the head emits neither "response"
  nor "error" (`node_compat.js:1049-1057`); `end()` twice fetches twice.
- Node streams: a `push` after the end is accepted (543); `drain` is never
  emitted, and a write that cannot be made leaves its source paused for good
  (733); `end()` waits neither for writes nor for transforms under way (750, 817);
  `destroy` leaves the buffer, and `unpipe` the stream flowing (608, 623); a source
  that has ended empty before its consumer comes is never heard of; `pipeline`
  watches its last stream only (847).
- readline: a second `next()` takes the first's place (1970), an iterator made
  after the close waits for ever, a question is not answered at the close (1946),
  an error of the input is not heard, and a `push` inside a line's listener lets
  later lines overtake the rest of the chunk (1935): LinesInOrder excuses the order
  (`overtaken`) and still counts the lines. Each chunk is decoded by itself (1926), so
  a character split over two chunks becomes replacement characters, although the file
  has a StringDecoder "without splitting a multi-byte character" (1290). Characters
  are modelled with one or two bytes. Not modelled: bytes that begin a character of
  three or four and end the chunk early, which take what follows with them, a
  newline too (`network.c:2153`); the bytes a `Readable.from` hands on as a plain
  Uint8Array, of which String() makes a list of numbers; the "\r" cut off a line.
- EventTarget: `dispatchEvent` walks the live list, so a listener that removes an
  earlier one makes the next be skipped, and one that throws ends the dispatch
  with `currentTarget` set (`bootstrap.js:529-538`). A listener added to a signal
  that is aborted is never called (553). A message posted to a port that keeps
  messages is overtaken by later ones once `onmessage` is set (1915-1921); a
  handler that throws keeps its message from the listeners (1911), and a delivery
  that throws ends the event loop (`network.c:2635`), so the messages behind it are
  not heard. A port with only `onmessage` keeps for ever what was posted before it
  was set.

Read and not modelled:

- A CommonJS file that does not compile leaves empty exports in the cache
  (`main.c:766`); a cache written in the same second as the source is taken as
  fresh (441).

## 7. What is not modelled, and the plan

Modelled is what the runtime does over time: who frees what, who answers whom,
the loop that drives it, and the streams, events and bodies scripts see. Left out
of the modelled components: the text of headers, allocation failure, reader and
writer locks of Web Streams, symbol names, the idle collection, over-release of a
thread-safe function, `cork`, `setEncoding`, `toWeb`, `AbortSignal.timeout` and
`any`, BroadcastChannel, the parts of a URL besides its query. `PROJECT.json`
lists the components without a module and why. In the order in which they are
worth modelling:

1. **Module loader** (`main.c`). The CommonJS cache as an abstract map from files
   to "not loaded, loading, loaded"; `require` with cycles, a throw in the middle
   (the entry is removed) and a file that does not compile (it is not). Property:
   a second `require` gives what the first left, or runs the file again, and
   never an empty success. With it the `.sxbc` cache: a source written during
   and after the write of its cache.
2. **Installer** (`package.c`): add, remove and install as steps over the tree,
   the lock file and the manifest, with a failure or an interruption between any
   two; property: what the lock names is what was verified and is there.
3. **Pure algorithms** as functions against reference definitions: path
   `normalize`/`resolve`/`relative`, Buffer bounds, deep equality with cycles,
   `tar` and octal fields, arena alignment.
4. **More of what is modelled**: `Sxn.file` responses in ServeConn; async work and
   scopes beside ThreadsafeFunction; AsyncLocalStorage over jobs.

Every invariant and step property that a passing run checks is also a theorem;
theorems for new modules are to be planned with them.

## 8. Running it

In this directory:

    tlc -workers 2 -config MCServeConn.cfg MCServeConn     # a run
    tlapm Delivery_proofs.tla                             # the proofs of a module

The longest runs, `event_emitter`, `node_streams`, `threadsafe_function` and
`web_exchange`, take a minute or two each; the proofs of NodeStreams, Exchange,
Delivery and EventLoop up to a quarter of an hour. Mutants: next to a
definition `D`, an operator `D_Something` is `D` with a plausible mistake; put in
the place of `D` it makes the property named for it in `PROJECT.json` fail.
