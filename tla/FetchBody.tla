----------------------------- MODULE FetchBody -----------------------------
(***************************************************************************)
(* One fetch: the libcurl transfer, the FetchState it fills, the native    *)
(* body stream a script reads and the chunks it was lent (src/network.c).  *)
(*                                                                         *)
(* Two parties share the FetchState: libcurl, through the easy handle, and *)
(* the JavaScript stream object; each holds one count of `refcount`.       *)
(* libcurl's callbacks run from the event loop, so never while a script is *)
(* inside a with*Borrow callback; everything the script does may.          *)
(* Chunks are numbered in the order the peer sends them.                   *)
(***************************************************************************)
EXTENDS BorrowedChunk

CONSTANTS
    NumChunks,          \* bound: chunks the peer sends
    Read,               \* read()/readBorrowed() calls the script makes
    MaxHops,            \* bound: header blocks (redirects, 1xx) per fetch
    None                \* no read waits

ASSUME NumChunksAssumption == NumChunks \in Nat
ASSUME HopsAssumption == MaxHops \in Nat
ASSUME ChunksAreNumbered == Chunk = 1..NumChunks

VARIABLES
    easy,               \* fs->easy is set: libcurl still owns the transfer
    response_started, done, errored, aborted,
    refcount,
    queue,              \* fs->head .. fs->tail
    pending,            \* the read whose promise fs->pending_read_* holds
    pending_read_borrowed,
    stream,             \* the JavaScript stream object: "alive", "collected"
    hop, pairs,         \* header block being parsed; blocks in fs->header_pairs
    arrived,            \* chunks libcurl has brought
    delivered,          \* chunks handed to the script, in order
    cancelled,          \* the script called cancel() in time
    fetchPromise,       \* what fetch() returned: "pending", "resolved", "rejected"
    head,               \* the header blocks the response carries
    read                \* how each read stands; "displaced": by a later read

fsVars == <<easy, response_started, done, errored, aborted, refcount, queue,
            pending, pending_read_borrowed, stream, hop, pairs>>
obsVars == <<arrived, delivered, cancelled, fetchPromise, head, read>>

vars == <<fsVars, obsVars, chunkVars>>

Settled == {"value", "end", "error"}

(* The variables of the chunks have their types in ChunksTypeOK.            *)
TypeOK ==
    /\ {easy, response_started, done, errored, aborted, cancelled,
        pending_read_borrowed} \subseteq BOOLEAN
    /\ refcount \in 0..2
    /\ queue \in Seq(Chunk) /\ delivered \in Seq(Chunk)
    /\ pending \in Read \cup {None}
    /\ stream \in {"alive", "collected"}
    /\ hop \in 0..MaxHops /\ pairs \subseteq 0..MaxHops
    /\ arrived \in 0..NumChunks
    /\ fetchPromise \in {"pending", "resolved", "rejected"} /\ head \subseteq 0..MaxHops
    /\ read \in [Read -> Settled \cup {"unused", "pending", "displaced"}]
    /\ ChunksTypeOK

Init ==
    /\ ChunksInit
    /\ easy = TRUE
    /\ response_started = FALSE /\ done = FALSE /\ errored = FALSE /\ aborted = FALSE
    /\ refcount = 2
    /\ queue = <<>>
    /\ pending = None /\ pending_read_borrowed = FALSE
    /\ stream = "alive"
    /\ hop = 0 /\ pairs = {}
    /\ arrived = 0 /\ delivered = <<>>
    /\ cancelled = FALSE
    /\ fetchPromise = "pending" /\ head = {}
    /\ read = [r \in Read |-> "unused"]

-----------------------------------------------------------------------------
(* Pieces of the handlers.                                                 *)

(* fetch_chunks_free: the queue goes, and so do the lent chunks.            *)
DropChunks_Forgets ==
    /\ queue' = <<>>
    /\ borrowed' = {}
    /\ UNCHANGED <<handle, lock, pendingFree, retired, frees, held, calls>>
DropChunks == queue' = <<>> /\ ChunksFree
KeepChunks == UNCHANGED <<queue, chunkVars>>

(* fetch_teardown_curl, but for what the last share takes with it.          *)
TeardownCurl ==
    /\ easy' = FALSE
    /\ refcount' = IF easy THEN refcount - 1 ELSE refcount

(* fetch_state_decref: the last share takes queue and chunks with it.       *)
AfterDecref == IF refcount' = 0 THEN DropChunks ELSE KeepChunks

(* start_response, the first time: the fetch promise resolves with the      *)
(* header blocks collected so far, which now belong to the response.        *)
StartResponse ==
    /\ response_started' = TRUE
    /\ IF response_started
       THEN UNCHANGED <<pairs, fetchPromise, head>>
       ELSE fetchPromise' = "resolved" /\ head' = pairs /\ pairs' = {}

(* A fetch whose response has not started is rejected.                      *)
FailFetch ==
    /\ fetchPromise' = IF response_started THEN fetchPromise ELSE "rejected"
    /\ UNCHANGED <<response_started, pairs, head>>

(* fetch_settle_pending_read.                                               *)
SettlePending_Forgets(outcome) == pending' = None /\ UNCHANGED read
SettlePending(outcome) ==
    /\ read' = [read EXCEPT ![pending] = outcome]
    /\ pending' = None

(* The reader learns of a failure: the read that waits, or the next one.    *)
FailReader_OnlyWaiting(due) ==
    IF pending # None THEN SettlePending("error") /\ UNCHANGED errored
                      ELSE UNCHANGED <<errored, pending, read>>
FailReader(due) ==
    IF pending # None THEN SettlePending("error") /\ UNCHANGED errored
                      ELSE errored' = (errored \/ due) /\ UNCHANGED <<pending, read>>

Enqueued_InFront(c) == <<c>> \o queue
Enqueued(c) == Append(queue, c)

-----------------------------------------------------------------------------
(* libcurl's callbacks, from the event loop.                                *)

FromLoop == easy /\ calls = <<>>

HeaderStart_KeepsLines ==
    /\ FromLoop
    /\ ~response_started
    /\ hop < MaxHops
    /\ hop' = hop + 1
    /\ UNCHANGED <<easy, response_started, done, errored, aborted, refcount, queue,
                   pending, pending_read_borrowed, stream, pairs, obsVars, chunkVars>>

(* fetch_header_cb: a status line starts a new block ...                    *)
HeaderStart ==
    /\ FromLoop
    /\ ~response_started
    /\ hop < MaxHops
    /\ hop' = hop + 1
    /\ pairs' = {}
    /\ UNCHANGED <<easy, response_started, done, errored, aborted, refcount, queue,
                   pending, pending_read_borrowed, stream, obsVars, chunkVars>>

(* ... and a header line joins the current one (after the body, a trailer). *)
HeaderLine ==
    /\ FromLoop
    /\ hop > 0
    /\ pairs' = pairs \cup {hop}
    /\ UNCHANGED <<easy, response_started, done, errored, aborted, refcount, queue,
                   pending, pending_read_borrowed, stream, hop, obsVars, chunkVars>>

(* fetch_write_cb: body bytes go to the waiting read or to the queue.       *)
WriteData ==
    /\ FromLoop
    /\ hop > 0
    /\ arrived < NumChunks
    /\ arrived' = arrived + 1
    /\ StartResponse
    /\ IF pending # None
       THEN /\ SettlePending("value")
            /\ delivered' = Append(delivered, arrived')
            /\ IF pending_read_borrowed THEN Create(arrived', TRUE)
                                        ELSE UNCHANGED chunkVars
            /\ pending_read_borrowed' = FALSE
            /\ UNCHANGED queue
       ELSE /\ queue' = Enqueued(arrived')
            /\ UNCHANGED <<pending, pending_read_borrowed, read, delivered, chunkVars>>
    /\ UNCHANGED <<easy, done, errored, aborted, refcount, stream, hop, cancelled>>

(* sxn_curl_check_multi_info: the transfer is over, well or badly.          *)
Complete(ok) ==
    /\ FromLoop
    /\ ok => hop > 0
    /\ done' = TRUE
    /\ IF ok THEN StartResponse ELSE FailFetch
    /\ IF ok /\ pending # None
       THEN SettlePending("end") /\ UNCHANGED errored
       ELSE FailReader(~ok /\ response_started)
    /\ TeardownCurl
    /\ AfterDecref
    /\ UNCHANGED <<aborted, pending_read_borrowed, stream, hop, arrived, delivered,
                   cancelled>>

-----------------------------------------------------------------------------
(* The script.                                                              *)

ReadVars == <<easy, response_started, done, aborted, refcount, stream, hop, pairs,
              arrived, cancelled, fetchPromise, head>>

(* stream_read / stream_read_borrowed: the queue first, then the error,     *)
(* once, then the end; otherwise the read waits.  A read that waited        *)
(* already is displaced.                                                    *)
StreamRead(r, lend) ==
    /\ stream = "alive"
    /\ read[r] = "unused"
    /\ IF queue # <<>>
       THEN /\ queue' = Tail(queue)
            /\ delivered' = Append(delivered, Head(queue))
            /\ IF lend THEN Create(Head(queue), TRUE) ELSE UNCHANGED chunkVars
            /\ read' = [read EXCEPT ![r] = "value"]
            /\ UNCHANGED <<errored, pending, pending_read_borrowed>>
       ELSE /\ IF errored \/ done
               THEN /\ read' = [read EXCEPT ![r] = IF errored THEN "error" ELSE "end"]
                    /\ errored' = FALSE
                    /\ UNCHANGED <<pending, pending_read_borrowed>>
               ELSE /\ read' = [q \in Read |-> CASE q = r       -> "pending"
                                              [] q = pending -> "displaced"
                                              [] OTHER       -> read[q]]
                    /\ pending' = r /\ pending_read_borrowed' = lend
                    /\ UNCHANGED errored
            /\ UNCHANGED <<queue, delivered, chunkVars>>
    /\ UNCHANGED ReadVars

(* stream_cancel: tears the transfer down and settles nothing.              *)
StreamCancel ==
    /\ stream = "alive"
    /\ ~done
    /\ done' = TRUE
    /\ cancelled' = TRUE
    /\ DropChunks
    /\ TeardownCurl
    /\ UNCHANGED <<response_started, errored, aborted, pending, pending_read_borrowed,
                   stream, hop, pairs, arrived, delivered, fetchPromise, head, read>>

(* stream_abort -> fetch_cancel: the AbortSignal fired.                     *)
Abort ==
    /\ stream = "alive"
    /\ ~aborted /\ ~done
    /\ aborted' = TRUE /\ done' = TRUE
    /\ FailFetch
    /\ FailReader(TRUE)
    /\ DropChunks
    /\ TeardownCurl
    /\ UNCHANGED <<pending_read_borrowed, stream, hop, arrived, delivered, cancelled>>

(* sxn_stream_finalizer: nothing references the stream object any more.     *)
CollectStream ==
    /\ stream = "alive"
    /\ stream' = "collected"
    /\ refcount' = refcount - 1
    /\ AfterDecref
    /\ UNCHANGED <<easy, response_started, done, errored, aborted, pending,
                   pending_read_borrowed, hop, pairs, obsVars>>

(* What a script does with the chunks it was lent.                          *)
UseChunk ==
    /\ \/ \E c \in Chunk, m \in Mode : EnterWith(c, m) \/ AcquireX(c, m)
       \/ \E c \in Chunk : Release(c) \/ Finalize(c)
    /\ UNCHANGED <<fsVars, obsVars>>

LeaveCallback == LeaveWith /\ UNCHANGED <<fsVars, obsVars>>

Network == HeaderStart \/ HeaderLine \/ WriteData \/ \E ok \in BOOLEAN : Complete(ok)
Script ==
    \/ \E r \in Read, lend \in BOOLEAN : StreamRead(r, lend)
    \/ StreamCancel
    \/ Abort
    \/ CollectStream
    \/ UseChunk

Next == Network \/ Script \/ LeaveCallback

Spec == Init /\ [][Next]_vars

(* with*Borrow callbacks return, and the peer ends its response some day.   *)
FairSpec ==
    /\ Spec
    /\ WF_vars(LeaveCallback)
    /\ SF_vars(\E ok \in BOOLEAN : Complete(ok))

-----------------------------------------------------------------------------
(* The abstract stream this one implements: the peer's chunks come out once *)
(* each and in order, through the queue, a waiting read or a lent chunk.    *)
Discarded == cancelled \/ aborted \/ refcount = 0
Stage == IF Discarded THEN "discarded" ELSE IF done THEN "ended" ELSE "running"
Abstract == INSTANCE BodyStream WITH transfer <- Stage

ImplementsBodyStream == Abstract!StreamSpec

(* Cancel, abort and the last share settle every chunk the script still     *)
(* has: it is freed at once or waits for its view, even one lent by a read  *)
(* just before, and none is lent afterwards.  Until then each is tracked    *)
(* and none is freed under the script (fetch_chunks_free, ChunkNode.owner,  *)
(* stream_read_borrowed).                                                   *)
LentIsSettled ==
    /\ Discarded => borrowed = {}
    /\ \A c \in Chunk : handle[c] = "alive" =>
          IF Discarded THEN c \in retired \cup pendingFree
                       ELSE c \in borrowed /\ frees[c] = 0

(* Each party that can still reach the FetchState holds one count of it, so *)
(* it is freed exactly when neither can (fetch_state_decref), and no chunk  *)
(* points at it then (ChunkNode.owner): the finalizer of a chunk walks      *)
(* owner->borrowed.                                                         *)
FreedWithItsOwners ==
    /\ refcount = (IF easy THEN 1 ELSE 0) + (IF stream = "alive" THEN 1 ELSE 0)
    /\ refcount = 0 => borrowed = {} /\ queue = <<>>

(* The response head is one header block, the last before the body: those   *)
(* of redirects and interim responses are dropped (fetch_header_cb).        *)
HeadIsLastBlock ==
    response_started => fetchPromise = "resolved" /\ head \subseteq {hop}

(* The FetchState and the head survive whatever order the callbacks, the    *)
(* abort, the reads and the collection come in.                             *)
HeadAndOwnersKept == TypeOK /\ FreedWithItsOwners /\ HeadIsLastBlock

(* Once a fetch is aborted its reader gets no more data and no clean end    *)
(* before it has been told (fetch_cancel, stream_read).                     *)
AbortIsSeen ==
    [][\A r \in Read : (aborted /\ read'[r] # read[r]) =>
           read'[r] = "error" \/ (read'[r] = "end" /\ \E q \in Read : read[q] = "error")]_vars

(* fetch() and every read the script made are answered once the peer        *)
(* finishes, unless another read displaced it or cancel() was called with   *)
(* it waiting.                                                              *)
EverybodyAnswered ==
    /\ fetchPromise = "pending" ~> (fetchPromise # "pending" \/ cancelled)
    /\ \A r \in Read :
          read[r] = "pending" ~> (read[r] \in Settled \cup {"displaced"} \/ cancelled)

=============================================================================
