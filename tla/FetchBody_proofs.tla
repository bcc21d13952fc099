-------------------------- MODULE FetchBody_proofs --------------------------
(***************************************************************************)
(* A fetch delivers what BodyStream promises and uses the borrow lock of   *)
(* its chunks as BorrowedChunk allows; its FetchState and response head    *)
(* survive every order of callbacks, reads, aborts and collections: for    *)
(* any number of chunks, reads and header blocks.  And the borrow lock     *)
(* keeps what it promises, for any number of chunks and nesting depth,     *)
(* used by a fetch or by anything else that takes BorrowedChunk's steps.   *)
(***************************************************************************)
EXTENDS FetchBody, FiniteSetTheorems, SequenceTheorems, TLAPS

(* Who still holds the FetchState, and that nothing is left when no one     *)
(* does.                                                                    *)
Flags ==
    /\ easy \in BOOLEAN /\ response_started \in BOOLEAN /\ done \in BOOLEAN
    /\ errored \in BOOLEAN /\ aborted \in BOOLEAN /\ cancelled \in BOOLEAN
    /\ pending_read_borrowed \in BOOLEAN
    /\ stream \in {"alive", "collected"}

OwnersOK ==
    /\ easy <=> ~done
    /\ cancelled \/ aborted => done
    /\ FreedWithItsOwners

HeadOK ==
    /\ hop \in 0..MaxHops /\ pairs \subseteq {hop} /\ head \subseteq 0..MaxHops
    /\ fetchPromise \in {"pending", "resolved", "rejected"}
    /\ HeadIsLastBlock

ReadsOK ==
    /\ read \in [Read -> Settled \cup {"unused", "pending", "displaced"}]
    /\ pending \in Read \cup {None}
    /\ pending # None => queue = <<>>

(* What was handed over and what is queued are, in that order, what has     *)
(* arrived, unless the stream has thrown it away.                           *)
QueueOK ==
    /\ arrived \in 0..NumChunks
    /\ queue \in Seq(Chunk) /\ delivered \in Seq(Chunk)
    /\ \A i \in 1..Len(queue) : queue[i] = Len(delivered) + i
    /\ Len(delivered) + Len(queue) <= arrived
    /\ ~Discarded => Len(delivered) + Len(queue) = arrived
    /\ Discarded => queue = <<>>

(* An aborted fetch has told a reader, or will tell the next one.           *)
AbortOK ==
    aborted => /\ pending = None
               /\ errored \/ \E q \in Read : read[q] = "error"

IInv == Flags /\ OwnersOK /\ HeadOK /\ ReadsOK /\ QueueOK /\ AbortOK

-----------------------------------------------------------------------------
LEMMA Starts == Init => IInv
<1>1. Init => Flags /\ AbortOK
    BY DEF Init, Flags, AbortOK
<1>4. ASSUME Init PROVE OwnersOK
    <2>1. easy = TRUE /\ done = FALSE /\ cancelled = FALSE /\ aborted = FALSE
        BY <1>4 DEF Init
    <2>2. stream = "alive" /\ refcount = 2
        BY <1>4 DEF Init
    <2> QED BY <2>1, <2>2 DEF OwnersOK, FreedWithItsOwners
<1>2. Init => HeadOK /\ ReadsOK
    BY HopsAssumption DEF Init, HeadOK, ReadsOK, HeadIsLastBlock, Settled
<1>3. ASSUME Init PROVE QueueOK
    <2>1. queue = <<>> /\ delivered = <<>> /\ arrived = 0 /\ ~Discarded
        BY <1>3 DEF Init, Discarded
    <2>2. queue \in Seq(Chunk) /\ Len(queue) = 0
        BY <2>1
    <2> QED BY <2>1, <2>2, NumChunksAssumption DEF QueueOK
<1> QED BY <1>1, <1>2, <1>3, <1>4 DEF IInv

(* What every step but WriteData and StreamRead does to the queue.          *)
LEMMA QueueKeptOrDropped ==
    ASSUME IInv, UNCHANGED <<arrived, delivered>>,
           \/ queue' = queue /\ (Discarded' <=> Discarded)
           \/ queue' = <<>> /\ Discarded'
    PROVE  QueueOK'
<1>1. CASE queue' = queue /\ (Discarded' <=> Discarded)
    BY <1>1 DEF IInv, QueueOK
<1>2. CASE queue' = <<>> /\ Discarded'
    BY <1>2, NumChunksAssumption DEF IInv, QueueOK
<1> QED BY <1>1, <1>2

-----------------------------------------------------------------------------
(* libcurl's callbacks.                                                     *)

LEMMA HeaderStartStep == ASSUME IInv, HeaderStart PROVE IInv'
<1>1. QueueOK'
    BY QueueKeptOrDropped DEF HeaderStart, obsVars, Discarded
<1> QED BY <1>1, HopsAssumption DEF HeaderStart, obsVars, chunkVars, IInv, Flags, OwnersOK, HeadOK,
        ReadsOK, AbortOK, FreedWithItsOwners, HeadIsLastBlock

LEMMA HeaderLineStep == ASSUME IInv, HeaderLine PROVE IInv'
<1>1. QueueOK'
    BY QueueKeptOrDropped DEF HeaderLine, obsVars, Discarded
<1> QED BY <1>1, HopsAssumption DEF HeaderLine, obsVars, chunkVars, IInv, Flags, OwnersOK, HeadOK,
        ReadsOK, AbortOK, FreedWithItsOwners, HeadIsLastBlock

(* The chunk that arrives is the next one to deliver when a read waits, and *)
(* the last of the queue otherwise.                                         *)
LEMMA WriteDataQueue == ASSUME IInv, WriteData PROVE QueueOK'
<1>1. easy /\ ~Discarded /\ ~Discarded' /\ arrived' = arrived + 1 /\ arrived' \in Chunk
    BY NumChunksAssumption, ChunksAreNumbered
    DEF WriteData, FromLoop, Discarded, IInv, OwnersOK, FreedWithItsOwners, QueueOK, Flags
<1>2. CASE pending # None
    <2>1. queue = <<>> /\ queue' = queue /\ delivered' = Append(delivered, arrived')
        BY <1>2 DEF WriteData, IInv, ReadsOK
    <2>2. Len(delivered') = Len(delivered) + 1 /\ delivered' \in Seq(Chunk)
        BY <1>1, <2>1 DEF IInv, QueueOK
    <2> QED BY <1>1, <2>1, <2>2, NumChunksAssumption, ChunksAreNumbered DEF IInv, QueueOK
<1>3. CASE pending = None
    <2>1. queue' = Append(queue, arrived') /\ delivered' = delivered
        BY <1>3 DEF WriteData, Enqueued
    <2>2. Len(queue') = Len(queue) + 1 /\ queue' \in Seq(Chunk)
        BY <1>1, <2>1 DEF IInv, QueueOK
    <2>3. \A i \in 1..Len(queue') : queue'[i] = Len(delivered') + i
        BY <1>1, <2>1, <2>2 DEF IInv, QueueOK
    <2>4. Len(delivered') + Len(queue') = arrived' /\ arrived' \in 0..NumChunks
        BY <1>1, <2>1, <2>2, NumChunksAssumption, ChunksAreNumbered DEF IInv, QueueOK
    <2>5. delivered' \in Seq(Chunk) /\ Len(delivered') + Len(queue') <= arrived'
        BY <1>1, <2>1, <2>4, NumChunksAssumption, ChunksAreNumbered DEF IInv, QueueOK
    <2> QED BY <1>1, <2>2, <2>3, <2>4, <2>5 DEF QueueOK
<1> QED BY <1>2, <1>3

LEMMA WriteDataStep == ASSUME IInv, WriteData PROVE IInv'
<1>1. easy /\ ~done /\ ~aborted /\ refcount # 0 /\ hop > 0
    BY DEF WriteData, FromLoop, IInv, OwnersOK, FreedWithItsOwners
<1>2. Flags' /\ OwnersOK' /\ AbortOK'
    BY <1>1 DEF WriteData, StartResponse, IInv, Flags, OwnersOK, AbortOK, FreedWithItsOwners
<1>3. HeadOK'
    BY <1>1 DEF WriteData, StartResponse, IInv, HeadOK, HeadIsLastBlock, Flags
<1>4. ReadsOK'
    BY <1>1 DEF WriteData, SettlePending, Settled, IInv, ReadsOK
<1> QED BY <1>2, <1>3, <1>4, WriteDataQueue DEF IInv

LEMMA CompleteStep == ASSUME IInv, NEW ok \in BOOLEAN, Complete(ok) PROVE IInv'
<1>1. easy /\ ~done /\ ~aborted /\ ~cancelled /\ done' /\ ~easy' /\ refcount' = refcount - 1
    BY DEF Complete, FromLoop, TeardownCurl, IInv, OwnersOK
<1>2. refcount' = (IF stream = "alive" THEN 1 ELSE 0) /\ refcount \in 1..2
    BY <1>1 DEF IInv, OwnersOK, FreedWithItsOwners
<1>3. IF refcount' = 0 THEN queue' = <<>> /\ borrowed' = {} ELSE UNCHANGED <<queue, borrowed>>
    BY DEF Complete, AfterDecref, DropChunks, KeepChunks, chunkVars, ChunksFree
<1>4. QueueOK'
    BY <1>1, <1>2, <1>3, QueueKeptOrDropped DEF Complete, Discarded
<1>5. Flags'
    BY DEF Complete, StartResponse, FailFetch, FailReader, SettlePending, TeardownCurl, IInv, Flags
<1>8. OwnersOK' /\ AbortOK'
    BY <1>1, <1>2, <1>3 DEF Complete, IInv, OwnersOK, AbortOK, FreedWithItsOwners
<1>6. HeadOK'
    BY DEF Complete, StartResponse, FailFetch, IInv, HeadOK, HeadIsLastBlock, Flags
<1>7. ReadsOK'
    BY <1>3 DEF Complete, FailReader, SettlePending, Settled, IInv, ReadsOK
<1> QED BY <1>4, <1>5, <1>6, <1>7, <1>8 DEF IInv

-----------------------------------------------------------------------------
(* The script.                                                              *)

(* A chunk is lent while the stream object is there to own it.              *)
LEMMA StreamReadQueue ==
    ASSUME IInv, NEW r \in Read, NEW lend \in BOOLEAN, StreamRead(r, lend)
    PROVE  QueueOK' /\ (aborted => queue = <<>>)
<1>1. UNCHANGED <<cancelled, aborted, refcount, arrived>> /\ (Discarded' <=> Discarded)
    BY DEF StreamRead, ReadVars, Discarded
<1>2. aborted => Discarded
    BY DEF Discarded
<1>3. CASE queue = <<>>
    BY <1>1, <1>3 DEF StreamRead, IInv, QueueOK
<1>4. CASE queue # <<>>
    <2>1. queue' = Tail(queue) /\ delivered' = Append(delivered, Head(queue)) /\ ~Discarded
        BY <1>4 DEF StreamRead, IInv, QueueOK
    <2>2. Len(queue) \in Nat \ {0} /\ queue \in Seq(Chunk) /\ delivered \in Seq(Chunk)
        BY <1>4, EmptySeq DEF IInv, QueueOK
    <2>3. /\ queue' \in Seq(Chunk) /\ Len(queue') = Len(queue) - 1
          /\ \A i \in 1..Len(queue') : queue'[i] = queue[i + 1]
        BY <1>4, <2>1, <2>2, HeadTailProperties
    <2>4. delivered' \in Seq(Chunk) /\ Len(delivered') = Len(delivered) + 1
        BY <1>4, <2>1, <2>2, HeadTailProperties
    <2>5. \A i \in 1..Len(queue') : queue'[i] = Len(delivered') + i
        <3> SUFFICES ASSUME NEW i \in 1..Len(queue') PROVE queue'[i] = Len(delivered') + i
            OBVIOUS
        <3>1. i + 1 \in 1..Len(queue) /\ i \in Nat
            BY <2>2, <2>3
        <3>2. queue[i + 1] = Len(delivered) + (i + 1)
            BY <3>1 DEF IInv, QueueOK
        <3> QED BY <2>2, <2>3, <2>4, <3>1, <3>2
    <2>6. Len(delivered') + Len(queue') = Len(delivered) + Len(queue)
        BY <2>2, <2>3, <2>4
    <2> QED BY <1>1, <1>2, <2>1, <2>3, <2>4, <2>5, <2>6 DEF IInv, QueueOK
<1>5. aborted => queue = <<>>
    BY <1>2 DEF IInv, QueueOK
<1> QED BY <1>3, <1>4, <1>5

LEMMA StreamReadStep ==
    ASSUME IInv, NEW r \in Read, NEW lend \in BOOLEAN, StreamRead(r, lend)
    PROVE  IInv'
<1>1. UNCHANGED ReadVars /\ stream = "alive"
    BY DEF StreamRead
<1>2. refcount # 0 /\ HeadOK' /\ (aborted => done /\ queue = <<>>)
    BY <1>1, StreamReadQueue
    DEF ReadVars, IInv, OwnersOK, FreedWithItsOwners, HeadOK, HeadIsLastBlock
<1>3. Flags'
    BY <1>1 DEF StreamRead, ReadVars, IInv, Flags
<1>6. OwnersOK'
    BY <1>1, <1>2 DEF ReadVars, IInv, OwnersOK, FreedWithItsOwners
<1>4. ReadsOK'
    <2>1. CASE queue # <<>>
        BY <2>1 DEF StreamRead, IInv, ReadsOK, Settled
    <2>2. CASE queue = <<>>
        BY <2>2 DEF StreamRead, IInv, ReadsOK, Settled
    <2> QED BY <2>1, <2>2
<1>5. AbortOK'
    <2> SUFFICES ASSUME aborted PROVE AbortOK'
        BY <1>1 DEF ReadVars, AbortOK
    <2>1. /\ read' = [read EXCEPT ![r] = IF errored THEN "error" ELSE "end"]
          /\ errored' = FALSE /\ pending' = pending /\ read[r] = "unused"
        BY <1>2 DEF StreamRead
    <2>2. pending = None /\ (errored \/ \E q \in Read : read[q] = "error")
        BY DEF IInv, AbortOK
    <2>3. \E q \in Read : read'[q] = "error"
        BY <2>1, <2>2 DEF IInv, ReadsOK
    <2> QED BY <2>1, <2>2, <2>3 DEF AbortOK
<1> QED BY <1>2, <1>3, <1>4, <1>5, <1>6, StreamReadQueue DEF IInv

LEMMA StreamCancelStep == ASSUME IInv, StreamCancel PROVE IInv'
<1>1. /\ easy /\ ~aborted /\ queue' = <<>> /\ borrowed' = {} /\ Discarded' /\ cancelled' /\ done'
      /\ ~easy' /\ refcount' = refcount - 1 /\ stream = "alive"
    BY DEF StreamCancel, DropChunks, TeardownCurl, ChunksFree, Discarded, IInv, OwnersOK
<1>2. QueueOK'
    BY <1>1, QueueKeptOrDropped DEF StreamCancel
<1>3. Flags'
    BY DEF StreamCancel, TeardownCurl, IInv, Flags
<1>4. OwnersOK'
    BY <1>1 DEF StreamCancel, IInv, OwnersOK, FreedWithItsOwners
<1> QED BY <1>1, <1>2, <1>3, <1>4 DEF StreamCancel, IInv, HeadOK, ReadsOK, AbortOK, HeadIsLastBlock

LEMMA AbortStep == ASSUME IInv, Abort PROVE IInv'
<1>1. /\ easy /\ ~cancelled /\ queue' = <<>> /\ borrowed' = {} /\ Discarded' /\ aborted' /\ done'
      /\ ~easy' /\ refcount' = refcount - 1 /\ stream = "alive"
    BY DEF Abort, DropChunks, TeardownCurl, ChunksFree, Discarded, IInv, OwnersOK
<1>2. QueueOK'
    BY <1>1, QueueKeptOrDropped DEF Abort
<1>3. ReadsOK' /\ AbortOK'
    BY <1>1 DEF Abort, FailReader, SettlePending, Settled, IInv, ReadsOK, AbortOK
<1>4. HeadOK'
    BY DEF Abort, FailFetch, IInv, HeadOK, HeadIsLastBlock
<1>5. Flags'
    BY DEF Abort, FailFetch, FailReader, SettlePending, TeardownCurl, IInv, Flags
<1>6. OwnersOK'
    BY <1>1 DEF Abort, IInv, OwnersOK, FreedWithItsOwners
<1> QED BY <1>2, <1>3, <1>4, <1>5, <1>6 DEF IInv

LEMMA CollectStreamStep == ASSUME IInv, CollectStream PROVE IInv'
<1>1. /\ stream = "alive" /\ stream' = "collected" /\ refcount' = (IF easy THEN 1 ELSE 0)
      /\ refcount \in 1..2
    BY DEF CollectStream, IInv, OwnersOK, FreedWithItsOwners
<1>2. IF refcount' = 0 THEN queue' = <<>> /\ borrowed' = {} ELSE UNCHANGED <<queue, borrowed>>
    BY DEF CollectStream, AfterDecref, DropChunks, KeepChunks, chunkVars, ChunksFree
<1>3. QueueOK'
    BY <1>1, <1>2, QueueKeptOrDropped DEF CollectStream, obsVars, Discarded
<1> QED BY <1>1, <1>2, <1>3 DEF CollectStream, obsVars, IInv, Flags, OwnersOK, HeadOK, ReadsOK,
        AbortOK, FreedWithItsOwners, HeadIsLastBlock

(* The lock never adds to the chunks a stream tracks.                       *)
LEMMA ChunkStep == ASSUME IInv, UseChunk \/ LeaveCallback PROVE IInv'
<1>1. UNCHANGED <<fsVars, obsVars>> /\ borrowed' \subseteq borrowed
    BY DEF UseChunk, LeaveCallback, EnterWith, AcquireX, Release,
           Finalize, LeaveWith
<1>2. QueueOK'
    BY <1>1, QueueKeptOrDropped DEF fsVars, obsVars, Discarded
<1> QED BY <1>1, <1>2 DEF fsVars, obsVars, IInv, Flags, OwnersOK, HeadOK, ReadsOK, AbortOK,
        FreedWithItsOwners, HeadIsLastBlock

LEMMA Preserved == IInv /\ [Next]_vars => IInv'
<1> SUFFICES ASSUME IInv, [Next]_vars PROVE IInv'
    OBVIOUS
<1>1. CASE UNCHANGED vars
    <2>1. QueueOK'
        BY <1>1, QueueKeptOrDropped DEF vars, fsVars, obsVars, Discarded
    <2> QED BY <1>1, <2>1 DEF vars, fsVars, obsVars, chunkVars, IInv, Flags, OwnersOK, HeadOK, ReadsOK,
            AbortOK, FreedWithItsOwners, HeadIsLastBlock
<1> QED BY <1>1, HeaderStartStep, HeaderLineStep, WriteDataStep, CompleteStep, StreamReadStep,
        StreamCancelStep, AbortStep, CollectStreamStep, ChunkStep DEF Next, Network, Script

LEMMA Invariant == Spec => []IInv
BY Starts, Preserved, PTL DEF Spec

-----------------------------------------------------------------------------
(* Every step of a fetch is a legal step of the borrow lock, so what        *)
(* BorrowedChunk proves of any chunks holds of a fetch's (sxn_borrow_*,     *)
(* fetch_chunks_free).                                                      *)
LEMMA UsesTheLock == Spec => ChunksSpec
<1>1. Init => ChunksInit
    BY DEF Init
<1>2. ASSUME IInv, [Next]_vars PROVE [ChunksNext]_chunkVars
    <2>1. UNCHANGED chunkVars \/ ChunksFree => [ChunksNext]_chunkVars
        BY DEF chunkVars, ChunksNext
    <2>2. ASSUME NEW c \in Chunk, Create(c, TRUE) PROVE ChunksNext
        BY <2>2 DEF ChunksNext
    <2>3. CASE WriteData
        <3>1. arrived + 1 \in Chunk
            BY <1>2, <2>3, NumChunksAssumption, ChunksAreNumbered DEF IInv, QueueOK, WriteData
        <3> QED BY <2>1, <2>2, <2>3, <3>1 DEF WriteData
    <2>4. ASSUME NEW r \in Read, NEW lend \in BOOLEAN, StreamRead(r, lend)
          PROVE  [ChunksNext]_chunkVars
        <3>1. queue # <<>> => Head(queue) \in Chunk
            BY <1>2, HeadTailProperties DEF IInv, QueueOK
        <3> QED BY <2>1, <2>2, <2>4, <3>1 DEF StreamRead
    <2>5. CASE HeaderStart \/ HeaderLine
        BY <2>1, <2>5 DEF HeaderStart, HeaderLine
    <2>6. ASSUME NEW ok \in BOOLEAN, Complete(ok) PROVE [ChunksNext]_chunkVars
        BY <2>1, <2>6 DEF Complete, AfterDecref, DropChunks, KeepChunks
    <2>7. CASE StreamCancel \/ Abort \/ CollectStream
        BY <2>1, <2>7 DEF StreamCancel, Abort, CollectStream, AfterDecref, DropChunks, KeepChunks
    <2>8. CASE UseChunk \/ LeaveCallback
        BY <2>8 DEF UseChunk, LeaveCallback, ChunksNext
    <2>9. CASE UNCHANGED vars
        BY <2>1, <2>9 DEF vars
    <2> QED BY <1>2, <2>3, <2>4, <2>5, <2>6, <2>7, <2>8, <2>9 DEF Next, Network, Script
<1> QED BY <1>1, <1>2, Invariant, PTL DEF Spec, ChunksSpec

-----------------------------------------------------------------------------
(* The chunks come out as BodyStream promises: once each, in the order they *)
(* arrived, whatever waits, and none after the stream is thrown away        *)
(* (fetch_write_cb, stream_read, stream_cancel, fetch_cancel).              *)

LEMMA WriteDataArrives == ASSUME IInv, WriteData PROVE Abstract!Arrive
<1>1. easy /\ ~done /\ ~cancelled /\ ~aborted /\ refcount # 0
    BY DEF WriteData, FromLoop, IInv, OwnersOK, FreedWithItsOwners
<1>2. Stage = "running" /\ Stage' = "running"
    BY <1>1 DEF WriteData, Stage, Discarded
<1>3. pending # None => Len(delivered) = arrived /\ delivered' = Append(delivered, arrived')
    <2> SUFFICES ASSUME pending # None PROVE Len(delivered) = arrived /\ delivered' = Append(delivered, arrived')
        OBVIOUS
    <2>1. queue = <<>> /\ ~Discarded
        BY <1>1 DEF IInv, ReadsOK, Discarded
    <2>2. Len(queue) = 0 /\ Len(delivered) \in Nat
        BY <2>1 DEF IInv, QueueOK
    <2> QED BY <2>1, <2>2 DEF WriteData, IInv, QueueOK
<1> QED BY <1>2, <1>3 DEF WriteData, Abstract!Arrive

LEMMA StreamReadTakes ==
    ASSUME IInv, NEW r \in Read, NEW lend \in BOOLEAN, StreamRead(r, lend)
    PROVE  Abstract!Take \/ UNCHANGED Abstract!streamVars
<1>1. Stage' = Stage /\ arrived' = arrived
    BY DEF StreamRead, ReadVars, Stage, Discarded
<1>2. CASE queue = <<>>
    BY <1>1, <1>2 DEF StreamRead, Abstract!streamVars
<1>3. CASE queue # <<>>
    <2>1. ~Discarded /\ delivered' = Append(delivered, Head(queue))
        BY <1>3 DEF StreamRead, IInv, QueueOK
    <2>2. Len(queue) \in Nat \ {0} /\ Head(queue) = queue[1] /\ Len(delivered) \in Nat
        BY <1>3, EmptySeq, HeadTailProperties DEF IInv, QueueOK
    <2>3. Head(queue) = Len(delivered) + 1 /\ Len(delivered) < arrived
        BY <2>1, <2>2 DEF IInv, QueueOK
    <2> QED BY <1>1, <2>1, <2>3 DEF Abstract!Take, Stage
<1> QED BY <1>2, <1>3

(* A step that leaves the chunks alone may end the transfer or throw it     *)
(* away, and never revives one.                                             *)
LEMMA QuietStep ==
    ASSUME UNCHANGED <<arrived, delivered>>, Discarded => Discarded', done => done'
    PROVE  [Abstract!StreamNext]_Abstract!streamVars
<1>1. \/ Stage' = Stage
      \/ Stage = "running" /\ Stage' = "ended"
      \/ Stage # "discarded" /\ Stage' = "discarded"
    BY DEF Stage
<1> QED BY <1>1 DEF Abstract!StreamNext, Abstract!End, Abstract!Discard, Abstract!streamVars

THEOREM DeliversAsPromised == Spec => ImplementsBodyStream
<1>1. Init => Abstract!StreamInit
    BY DEF Init, Abstract!StreamInit, Stage, Discarded
<1>2. ASSUME IInv, [Next]_vars PROVE [Abstract!StreamNext]_Abstract!streamVars
    <2> USE <1>2
    <2>1. CASE WriteData
        BY <2>1, WriteDataArrives DEF Abstract!StreamNext
    <2>2. ASSUME NEW r \in Read, NEW lend \in BOOLEAN, StreamRead(r, lend)
          PROVE  [Abstract!StreamNext]_Abstract!streamVars
        BY <2>2, StreamReadTakes DEF Abstract!StreamNext
    <2>3. CASE HeaderStart \/ HeaderLine
        BY <2>3, QuietStep DEF HeaderStart, HeaderLine, obsVars, Discarded
    <2>4. ASSUME NEW ok \in BOOLEAN, Complete(ok) PROVE [Abstract!StreamNext]_Abstract!streamVars
        <3>1. easy /\ ~Discarded /\ done' /\ UNCHANGED <<arrived, delivered>>
            BY <2>4 DEF Complete, FromLoop, IInv, OwnersOK, FreedWithItsOwners, Discarded
        <3> QED BY <3>1, QuietStep
    <2>5. CASE StreamCancel
        BY <2>5, QuietStep DEF StreamCancel, Discarded
    <2>6. CASE Abort
        BY <2>6, QuietStep DEF Abort, Discarded
    <2>7. CASE CollectStream
        <3>1. refcount # 0 /\ UNCHANGED <<arrived, delivered, cancelled, aborted, done>>
            BY <2>7 DEF CollectStream, obsVars, IInv, OwnersOK, FreedWithItsOwners
        <3> QED BY <3>1, QuietStep DEF Discarded
    <2>8. CASE UseChunk \/ LeaveCallback \/ UNCHANGED vars
        BY <2>8, QuietStep DEF UseChunk, LeaveCallback, vars, fsVars, obsVars, Discarded
    <2> QED BY <2>1, <2>2, <2>3, <2>4, <2>5, <2>6, <2>7, <2>8 DEF Next, Network, Script
<1> QED BY <1>1, <1>2, Invariant, PTL DEF Spec, ImplementsBodyStream, Abstract!StreamSpec

-----------------------------------------------------------------------------
(* A reader of an aborted fetch learns of it before it sees an end, and     *)
(* gets no more data (fetch_cancel, stream_read).                           *)
THEOREM AbortIsTold == Spec => AbortIsSeen
<1>1. ASSUME IInv, [Next]_vars, NEW r \in Read, aborted, read'[r] # read[r]
      PROVE  read'[r] = "error" \/ (read'[r] = "end" /\ \E q \in Read : read[q] = "error")
    <2> USE <1>1
    <2>1. done /\ ~easy /\ queue = <<>> /\ pending = None
        BY DEF IInv, OwnersOK, QueueOK, AbortOK, Discarded
    <2>2. PICK s \in Read, lend \in BOOLEAN : StreamRead(s, lend)
        BY <2>1 DEF Next, Network, Script, HeaderStart, HeaderLine, WriteData, Complete, FromLoop,
           StreamCancel, Abort, CollectStream, UseChunk, LeaveCallback, vars, obsVars
    <2>3. read' = [read EXCEPT ![s] = IF errored THEN "error" ELSE "end"]
        BY <2>1, <2>2 DEF StreamRead
    <2>4. errored \/ \E q \in Read : read[q] = "error"
        BY DEF IInv, AbortOK
    <2> QED BY <2>3, <2>4 DEF IInv, ReadsOK
<1>2. IInv /\ [Next]_vars =>
          [\A r \in Read : (aborted /\ read'[r] # read[r]) =>
              read'[r] = "error" \/ (read'[r] = "end" /\ \E q \in Read : read[q] = "error")]_vars
    BY <1>1
<1> QED BY <1>2, Invariant, PTL DEF Spec, AbortIsSeen

-----------------------------------------------------------------------------
(* The borrow lock.  Two inductive invariants: LockInv says what the lock   *)
(* counts and needs nothing of the script; MemInv says when memory is       *)
(* freed, and holds of scripts that keep a chunk they have acquired.        *)
LockInv ==
    /\ ChunksTypeOK
    /\ LockMatchesViews
    /\ \A c \in Chunk : lock[c].exclusive = 1 => lock[c].shared = 0

MemInv ==
    /\ FreedExactlyOnce
    /\ DeferralHasReason
    /\ \A c \in Chunk : c \in retired \/ handle[c] # "alive" => ~Busy(lock[c])
    /\ \A c \in Chunk : handle[c] = "absent" =>
           frees[c] = 0 /\ c \notin retired
    /\ \A c \in borrowed : handle[c] = "alive" /\ c \notin retired

-----------------------------------------------------------------------------
(* Counting the positions of an element in a stack.                        *)

LEMMA PositionsFinite ==
    ASSUME NEW S, NEW s \in Seq(S), NEW x
    PROVE  IsFiniteSet(Positions(s, x)) /\ Cardinality(Positions(s, x)) \in Nat
<1>1. IsFiniteSet(DOMAIN s)
  BY FS_Interval, LenProperties
<1>2. Positions(s, x) \in SUBSET DOMAIN s
  BY DEF Positions
<1> QED BY <1>1, <1>2, FS_Subset, FS_CardinalityType

LEMMA PositionsPush ==
    ASSUME NEW S, NEW s \in Seq(S), NEW x, NEW y \in S
    PROVE  Cardinality(Positions(Append(s, y), x)) =
               Cardinality(Positions(s, x)) + (IF x = y THEN 1 ELSE 0)
<1>1. IsFiniteSet(Positions(s, x)) /\ Cardinality(Positions(s, x)) \in Nat
  BY PositionsFinite
<1>2. CASE x = y
  <2>1. Positions(Append(s, y), x) = Positions(s, x) \cup {Len(s) + 1}
    BY <1>2 DEF Positions
  <2>2. Len(s) + 1 \notin Positions(s, x)
    BY DEF Positions
  <2> QED BY <1>1, <1>2, <2>1, <2>2, FS_AddElement
<1>3. CASE x # y
  <2>1. Positions(Append(s, y), x) = Positions(s, x)
    BY <1>3 DEF Positions
  <2> QED BY <1>1, <1>3, <2>1
<1> QED BY <1>2, <1>3

LEMMA PositionsPop ==
    ASSUME NEW S, NEW s \in Seq(S), NEW x, s # <<>>
    PROVE  /\ Popped(s) \in Seq(S) /\ Len(Popped(s)) = Len(s) - 1
           /\ Cardinality(Positions(Popped(s), x)) =
                Cardinality(Positions(s, x)) - (IF x = s[Len(s)] THEN 1 ELSE 0)
<1>1. IsFiniteSet(Positions(s, x)) /\ Cardinality(Positions(s, x)) \in Nat
  BY PositionsFinite
<1>2. /\ Len(s) \in Nat \ {0} /\ DOMAIN s = 1..Len(s)
      /\ \A i \in 1..Len(s) : s[i] \in S
  BY EmptySeq, ElementOfSeq, LenProperties
<1>3. /\ Popped(s) \in Seq(S) /\ Len(Popped(s)) = Len(s) - 1
      /\ DOMAIN Popped(s) = 1..(Len(s) - 1)
  BY <1>2 DEF Popped
<1>4. Positions(Popped(s), x) = Positions(s, x) \ {Len(s)}
  BY <1>2, <1>3 DEF Positions, Popped
<1>5. Len(s) \in Positions(s, x) <=> x = s[Len(s)]
  BY <1>2 DEF Positions
<1>6. Cardinality(Positions(s, x) \ {Len(s)}) =
        IF Len(s) \in Positions(s, x) THEN Cardinality(Positions(s, x)) - 1
                                      ELSE Cardinality(Positions(s, x))
  BY <1>1, FS_RemoveElement
<1> QED BY <1>1, <1>3, <1>4, <1>5, <1>6

-----------------------------------------------------------------------------
(* How the count of views changes.                                         *)

LEMMA ViewCountType ==
    ASSUME ChunksTypeOK, NEW c \in Chunk, NEW m \in Mode
    PROVE  ViewCount(c, m) \in Nat
<1>1. Cardinality(Frames(c, m)) \in Nat
  BY PositionsFinite DEF ChunksTypeOK, Frames
<1> QED BY <1>1 DEF ViewCount, HeldViews

(* Nothing of what a view count depends on changed. *)
LEMMA ViewCountStable ==
    ASSUME UNCHANGED <<held, calls>>, NEW c \in Chunk, NEW m \in Mode
    PROVE  ViewCount(c, m)' = ViewCount(c, m)
BY DEF ViewCount, HeldViews, Frames, Positions

LEMMA ViewCountEnter ==
    ASSUME ChunksTypeOK, NEW c \in Chunk, NEW m \in Mode, EnterWith(c, m),
           NEW d \in Chunk, NEW n \in Mode
    PROVE  ViewCount(d, n)' = ViewCount(d, n) + (IF d = c /\ n = m THEN 1 ELSE 0)
<1>1. calls \in Seq(Chunk \X Mode) /\ <<c, m>> \in Chunk \X Mode
  BY DEF ChunksTypeOK
<1>2. calls' = Append(calls, <<c, m>>) /\ held' = held
  BY DEF EnterWith
<1>3. Cardinality(Frames(d, n))' =
        Cardinality(Frames(d, n)) + (IF <<d, n>> = <<c, m>> THEN 1 ELSE 0)
  BY <1>1, <1>2, PositionsPush DEF Frames
<1>4. Cardinality(Frames(d, n)) \in Nat
  BY <1>1, PositionsFinite DEF Frames
<1>5. HeldViews(d, n)' = HeldViews(d, n) /\ HeldViews(d, n) \in Nat
  BY <1>2 DEF HeldViews
<1> QED BY <1>3, <1>4, <1>5 DEF ViewCount

LEMMA ViewCountLeave ==
    ASSUME ChunksTypeOK, LeaveWith, NEW d \in Chunk, NEW n \in Mode
    PROVE  ViewCount(d, n)' =
             ViewCount(d, n) - (IF <<d, n>> = calls[Len(calls)] THEN 1 ELSE 0)
<1>1. calls \in Seq(Chunk \X Mode) /\ calls # <<>>
  BY DEF ChunksTypeOK, LeaveWith
<1>2. calls' = Popped(calls) /\ held' = held
  BY DEF LeaveWith
<1>3. Cardinality(Frames(d, n))' =
        Cardinality(Frames(d, n)) - (IF <<d, n>> = calls[Len(calls)] THEN 1 ELSE 0)
  BY <1>1, <1>2, PositionsPop DEF Frames
<1>4. Cardinality(Frames(d, n)) \in Nat
  BY <1>1, PositionsFinite DEF Frames
<1>5. HeldViews(d, n)' = HeldViews(d, n) /\ HeldViews(d, n) \in Nat
  BY <1>2 DEF HeldViews
<1> QED BY <1>3, <1>4, <1>5 DEF ViewCount

LEMMA ViewCountHeld ==
    ASSUME ChunksTypeOK, calls' = calls,
           NEW c \in Chunk, \A d \in Chunk \ {c} : held'[d] = held[d]
    PROVE  \A d \in Chunk, n \in Mode :
             ViewCount(d, n)' =
               ViewCount(d, n) +
                 (IF d # c THEN 0 ELSE HeldViews(d, n)' - HeldViews(d, n))
<1> TAKE d \in Chunk, n \in Mode
<1>1. Cardinality(Frames(d, n)) \in Nat
  BY PositionsFinite DEF Frames, ChunksTypeOK
<1>2. Cardinality(Frames(d, n))' = Cardinality(Frames(d, n))
  BY DEF Frames, Positions
<1>3. d # c => HeldViews(d, n)' = HeldViews(d, n)
  BY DEF HeldViews
<1>4. HeldViews(d, n) \in Nat /\ HeldViews(d, n)' \in Nat
  BY DEF HeldViews
<1> QED BY <1>1, <1>2, <1>3, <1>4 DEF ViewCount

-----------------------------------------------------------------------------
(* What acquiring and releasing do to the lock.                            *)

LEMMA LockAcquire ==
    ASSUME NEW l \in Lock, NEW m \in Mode, CanAcquire(l, m),
           l.exclusive = 1 => l.shared = 0
    PROVE  LET a == Acquired(l, m)
           IN  /\ a \in Lock /\ Busy(a) /\ (a.exclusive = 1 => a.shared = 0)
               /\ a.shared = l.shared + (IF m = "shared" THEN 1 ELSE 0)
               /\ a.exclusive = l.exclusive + (IF m = "exclusive" THEN 1 ELSE 0)
BY DEF Lock, Mode, CanAcquire, Acquired, Busy

LEMMA LockRelease ==
    ASSUME NEW l \in Lock, NEW m \in Mode, l.exclusive = 1 => l.shared = 0,
           m = "shared" => l.shared > 0
    PROVE  LET r == Released(l, m)
           IN  /\ r \in Lock /\ (r.exclusive = 1 => r.shared = 0)
               /\ r.shared = l.shared - (IF m = "shared" THEN 1 ELSE 0)
               /\ r.exclusive = IF m = "exclusive" THEN 0 ELSE l.exclusive
BY DEF Lock, Mode, Released

-----------------------------------------------------------------------------
(* LockInv is inductive.                                                   *)

LEMMA LockInvInit == ChunksInit => LockInv
<1> SUFFICES ASSUME ChunksInit PROVE LockInv
  OBVIOUS
<1>1. ChunksTypeOK
  BY MaxDepthAssumption DEF ChunksInit, ChunksTypeOK, Handle, Lock, Unlocked, Mode
<1>2. ASSUME NEW c \in Chunk, NEW m \in Mode PROVE ViewCount(c, m) = 0
  <2>1. Frames(c, m) = {}
    BY DEF ChunksInit, Frames, Positions
  <2>2. HeldViews(c, m) = 0
    BY DEF ChunksInit, HeldViews, Mode
  <2> QED BY <2>1, <2>2, FS_EmptySet DEF ViewCount
<1>3. LockMatchesViews
  BY <1>2 DEF LockMatchesViews, ChunksInit, Unlocked, Mode
<1> QED BY <1>1, <1>3 DEF LockInv, ChunksInit, Unlocked

(* A view was counted before it ends, so the counter does not go below zero. *)
LEMMA EndViewLock ==
    ASSUME LockInv, NEW c \in Chunk, NEW m \in Mode, ViewCount(c, m) > 0
    PROVE  LET r == Released(lock[c], m)
           IN  /\ r \in Lock /\ (r.exclusive = 1 => r.shared = 0)
               /\ r.shared = lock[c].shared - (IF m = "shared" THEN 1 ELSE 0)
               /\ r.exclusive = IF m = "exclusive" THEN 0 ELSE lock[c].exclusive
<1>1. lock[c] \in Lock /\ (lock[c].exclusive = 1 => lock[c].shared = 0)
  BY DEF LockInv, ChunksTypeOK
<1>2. m = "shared" => lock[c].shared > 0
  BY DEF LockInv, LockMatchesViews
<1> QED BY <1>1, <1>2, LockRelease

LEMMA TopFrameCounted ==
    ASSUME ChunksTypeOK, calls # <<>>
    PROVE  LET c == calls[Len(calls)][1]
               m == calls[Len(calls)][2]
           IN  /\ c \in Chunk /\ m \in Mode
               /\ calls[Len(calls)] = <<c, m>> /\ ViewCount(c, m) > 0
<1> DEFINE c == calls[Len(calls)][1]
           m == calls[Len(calls)][2]
<1>1. calls \in Seq(Chunk \X Mode) /\ Len(calls) \in 1..Len(calls)
  BY EmptySeq, LenProperties DEF ChunksTypeOK
<1>2. calls[Len(calls)] \in Chunk \X Mode
  BY <1>1, ElementOfSeq
<1>3. c \in Chunk /\ m \in Mode /\ calls[Len(calls)] = <<c, m>>
  BY <1>2
<1>4. Len(calls) \in Frames(c, m)
  BY <1>1, <1>3, LenProperties DEF Frames, Positions
<1>5. IsFiniteSet(Frames(c, m)) /\ Cardinality(Frames(c, m)) \in Nat
  BY <1>1, PositionsFinite DEF Frames
<1>6. Cardinality(Frames(c, m)) # 0
  BY <1>4, <1>5, FS_EmptySet
<1>7. ViewCount(c, m) > 0
  BY <1>5, <1>6 DEF ViewCount, HeldViews
<1> QED BY <1>3, <1>7

LEMMA HeldCounted ==
    ASSUME ChunksTypeOK, NEW c \in Chunk, held[c] # "none"
    PROVE  held[c] \in Mode /\ ViewCount(c, held[c]) > 0
<1>1. held[c] \in Mode
  BY DEF ChunksTypeOK
<1>2. Cardinality(Frames(c, held[c])) \in Nat
  BY PositionsFinite DEF Frames, ChunksTypeOK
<1> QED BY <1>1, <1>2 DEF ViewCount, HeldViews

(* Taking a view: with*Borrow and acquire*() both add one view to one chunk. *)
LEMMA LockInvTake ==
    ASSUME LockInv, ChunksTypeOK', NEW c \in Chunk, NEW m \in Mode, Acquirable(c, m),
           lock' = [lock EXCEPT ![c] = Acquired(@, m)],
           \A d \in Chunk, n \in Mode :
               ViewCount(d, n)' = ViewCount(d, n) + (IF d = c /\ n = m THEN 1 ELSE 0)
    PROVE  LockInv'
<1>1. lock[c] \in Lock /\ (lock[c].exclusive = 1 => lock[c].shared = 0)
  BY DEF LockInv, ChunksTypeOK
<1>2. CanAcquire(lock[c], m)
  BY DEF Acquirable
<1>3. /\ Acquired(lock[c], m).shared = lock[c].shared + (IF m = "shared" THEN 1 ELSE 0)
      /\ Acquired(lock[c], m).exclusive =
           lock[c].exclusive + (IF m = "exclusive" THEN 1 ELSE 0)
      /\ Acquired(lock[c], m).exclusive = 1 => Acquired(lock[c], m).shared = 0
  BY <1>1, <1>2, LockAcquire
<1>4. \A d \in Chunk : lock'[d] = IF d = c THEN Acquired(lock[c], m) ELSE lock[d]
  BY DEF LockInv, ChunksTypeOK
<1>5. ASSUME NEW d \in Chunk, NEW n \in Mode PROVE ViewCount(d, n) \in Nat
  BY ViewCountType DEF LockInv
<1>6. LockMatchesViews'
  BY <1>3, <1>4, <1>5 DEF LockInv, LockMatchesViews, Mode
<1>7. \A d \in Chunk : lock'[d].exclusive = 1 => lock'[d].shared = 0
  BY <1>3, <1>4 DEF LockInv
<1> QED BY <1>6, <1>7 DEF LockInv

(* Ending a view takes it off the lock again. *)
LEMMA LockInvEnd ==
    ASSUME LockInv, ChunksTypeOK', NEW c \in Chunk, NEW m \in Mode, ViewCount(c, m) > 0,
           EndView(c, m),
           \A d \in Chunk, n \in Mode :
               ViewCount(d, n)' = ViewCount(d, n) - (IF d = c /\ n = m THEN 1 ELSE 0)
    PROVE  LockInv'
<1> DEFINE r == Released(lock[c], m)
<1>1. /\ r.shared = lock[c].shared - (IF m = "shared" THEN 1 ELSE 0)
      /\ r.exclusive = IF m = "exclusive" THEN 0 ELSE lock[c].exclusive
      /\ r.exclusive = 1 => r.shared = 0
  BY EndViewLock
<1>2. \A d \in Chunk : lock'[d] = IF d = c THEN r ELSE lock[d]
  BY DEF LockInv, ChunksTypeOK, EndView
<1>3. ASSUME NEW d \in Chunk, NEW n \in Mode PROVE ViewCount(d, n) \in Nat
  BY ViewCountType DEF LockInv
<1>4. lock[c].exclusive \in {0, 1}
  BY DEF LockInv, ChunksTypeOK, Lock
<1> HIDE DEF r
<1>5. LockMatchesViews'
  BY <1>1, <1>2, <1>3, <1>4 DEF LockInv, LockMatchesViews, Mode
<1>6. \A d \in Chunk : lock'[d].exclusive = 1 => lock'[d].shared = 0
  BY <1>1, <1>2 DEF LockInv
<1> QED BY <1>5, <1>6 DEF LockInv

(* A step that leaves lock and views alone. *)
LEMMA LockInvStable ==
    ASSUME LockInv, ChunksTypeOK', UNCHANGED <<lock, held, calls>>
    PROVE  LockInv'
<1>1. \A c \in Chunk, m \in Mode : ViewCount(c, m)' = ViewCount(c, m)
  BY ViewCountStable
<1> QED BY <1>1 DEF LockInv, LockMatchesViews, Mode

LEMMA EndViewType ==
    ASSUME ChunksTypeOK, LockInv, NEW c \in Chunk, NEW m \in Mode, ViewCount(c, m) > 0,
           EndView(c, m)
    PROVE  /\ lock' \in [Chunk -> Lock] /\ pendingFree' \in SUBSET Chunk
           /\ retired' \in SUBSET Chunk /\ frees' \in [Chunk -> Nat]
<1>1. Released(lock[c], m) \in Lock
  BY EndViewLock
<1>2. lock' \in [Chunk -> Lock]
  BY <1>1 DEF EndView, ChunksTypeOK
<1>3. pendingFree' \in SUBSET Chunk /\ retired' \in SUBSET Chunk
  BY DEF EndView, ChunksTypeOK
<1>4. frees' \in [Chunk -> Nat]
  BY DEF EndView, ChunksTypeOK
<1> QED BY <1>2, <1>3, <1>4

LEMMA TypeOKStep == LockInv /\ [ChunksNext]_chunkVars => ChunksTypeOK'
<1> SUFFICES ASSUME LockInv, [ChunksNext]_chunkVars PROVE ChunksTypeOK'
  OBVIOUS
<1>0. ChunksTypeOK
  BY DEF LockInv
<1> USE <1>0
<1>1. ASSUME NEW c \in Chunk, NEW b \in BOOLEAN, Create(c, b) PROVE ChunksTypeOK'
  BY <1>1 DEF Create, ChunksTypeOK, Handle
<1>2. ASSUME NEW c \in Chunk, NEW m \in Mode, Acquirable(c, m),
             lock' = [lock EXCEPT ![c] = Acquired(@, m)]
      PROVE  lock' \in [Chunk -> Lock]
  BY <1>2, LockAcquire DEF LockInv, ChunksTypeOK, Acquirable
<1>3. ASSUME NEW c \in Chunk, NEW m \in Mode, EnterWith(c, m) PROVE ChunksTypeOK'
  <2>1. lock' \in [Chunk -> Lock]
    BY <1>2, <1>3 DEF EnterWith
  <2>2. calls' \in Seq(Chunk \X Mode) /\ Len(calls') <= MaxDepth
    BY <1>3, MaxDepthAssumption DEF EnterWith, ChunksTypeOK
  <2> QED BY <1>3, <2>1, <2>2 DEF EnterWith, ChunksTypeOK
<1>4. ASSUME NEW c \in Chunk, NEW m \in Mode, AcquireX(c, m) PROVE ChunksTypeOK'
  <2>1. lock' \in [Chunk -> Lock]
    BY <1>2, <1>4 DEF AcquireX
  <2> QED BY <1>4, <2>1 DEF AcquireX, ChunksTypeOK
<1>5. ASSUME NEW c \in Chunk, Release(c) PROVE ChunksTypeOK'
  <2>1. held[c] \in Mode /\ ViewCount(c, held[c]) > 0 /\ EndView(c, held[c])
    BY <1>5, HeldCounted DEF Release
  <2>2. held' \in [Chunk -> Mode \cup {"none"}]
    BY <1>5 DEF Release, ChunksTypeOK
  <2> QED BY <1>5, <2>1, <2>2, EndViewType DEF Release, ChunksTypeOK
<1>6. ASSUME NEW c \in Chunk, Finalize(c) PROVE ChunksTypeOK'
  BY <1>6 DEF Finalize, ChunksTypeOK, Handle
<1>7. CASE LeaveWith
  <2> DEFINE c == calls[Len(calls)][1]
             m == calls[Len(calls)][2]
  <2>1. c \in Chunk /\ m \in Mode /\ ViewCount(c, m) > 0 /\ EndView(c, m)
    BY <1>7, TopFrameCounted DEF LeaveWith
  <2>2. calls' \in Seq(Chunk \X Mode) /\ Len(calls') <= MaxDepth
    <3>1. calls \in Seq(Chunk \X Mode) /\ calls # <<>> /\ Len(calls) <= MaxDepth
      BY <1>7 DEF LeaveWith, ChunksTypeOK
    <3>2. Popped(calls) \in Seq(Chunk \X Mode) /\ Len(Popped(calls)) = Len(calls) - 1
      BY <3>1, PositionsPop
    <3> QED BY <1>7, <3>1, <3>2, LenProperties, MaxDepthAssumption DEF LeaveWith
  <2> QED BY <1>7, <2>1, <2>2, EndViewType DEF LeaveWith, ChunksTypeOK
<1>8. CASE ChunksFree
  BY <1>8 DEF ChunksFree, ChunksTypeOK
<1>9. CASE UNCHANGED chunkVars
  BY <1>9 DEF chunkVars, ChunksTypeOK
<1> QED BY <1>1, <1>3, <1>4, <1>5, <1>6, <1>7, <1>8, <1>9 DEF ChunksNext

LEMMA LockInvStep == LockInv /\ [ChunksNext]_chunkVars => LockInv'
<1> SUFFICES ASSUME LockInv, [ChunksNext]_chunkVars PROVE LockInv'
  OBVIOUS
<1>0. ChunksTypeOK /\ ChunksTypeOK'
  BY TypeOKStep DEF LockInv
<1>1. ASSUME NEW c \in Chunk, NEW m \in Mode, EnterWith(c, m) PROVE LockInv'
  <2>1. \A d \in Chunk, n \in Mode :
          ViewCount(d, n)' = ViewCount(d, n) + (IF d = c /\ n = m THEN 1 ELSE 0)
    BY <1>0, <1>1, ViewCountEnter
  <2> QED BY <1>0, <1>1, <2>1, LockInvTake DEF EnterWith
<1>2. ASSUME NEW c \in Chunk, NEW m \in Mode, AcquireX(c, m) PROVE LockInv'
  <2>1. \A d \in Chunk, n \in Mode :
          ViewCount(d, n)' = ViewCount(d, n) +
            (IF d # c THEN 0 ELSE HeldViews(d, n)' - HeldViews(d, n))
    <3>1. calls' = calls /\ \A d \in Chunk \ {c} : held'[d] = held[d]
      BY <1>0, <1>2 DEF AcquireX, ChunksTypeOK
    <3> QED BY <1>0, <3>1, ViewCountHeld
  <2>2. \A n \in Mode : /\ HeldViews(c, n) = 0
                        /\ HeldViews(c, n)' = IF m = n THEN 1 ELSE 0
    BY <1>0, <1>2 DEF AcquireX, HeldViews, Mode, ChunksTypeOK
  <2>3. \A d \in Chunk, n \in Mode :
          ViewCount(d, n)' = ViewCount(d, n) + (IF d = c /\ n = m THEN 1 ELSE 0)
    BY <2>1, <2>2, <1>0, ViewCountType
  <2> QED BY <1>0, <1>2, <2>3, LockInvTake DEF AcquireX
<1>3. ASSUME NEW c \in Chunk, Release(c) PROVE LockInv'
  <2>1. held[c] \in Mode /\ ViewCount(c, held[c]) > 0 /\ EndView(c, held[c])
    BY <1>0, <1>3, HeldCounted DEF Release
  <2>2. \A d \in Chunk, n \in Mode :
          ViewCount(d, n)' = ViewCount(d, n) +
            (IF d # c THEN 0 ELSE HeldViews(d, n)' - HeldViews(d, n))
    <3>1. calls' = calls /\ \A d \in Chunk \ {c} : held'[d] = held[d]
      BY <1>0, <1>3 DEF Release, ChunksTypeOK
    <3> QED BY <1>0, <3>1, ViewCountHeld
  <2>3. \A n \in Mode : /\ HeldViews(c, n) = IF held[c] = n THEN 1 ELSE 0
                        /\ HeldViews(c, n)' = 0
    BY <1>0, <1>3 DEF Release, HeldViews, Mode, ChunksTypeOK
  <2>4. \A d \in Chunk, n \in Mode :
          ViewCount(d, n)' = ViewCount(d, n) - (IF d = c /\ n = held[c] THEN 1 ELSE 0)
    BY <2>2, <2>3, <1>0, ViewCountType
  <2> QED BY <1>0, <2>1, <2>4, LockInvEnd
<1>4. CASE LeaveWith
  <2> DEFINE c == calls[Len(calls)][1]
             m == calls[Len(calls)][2]
  <2>1. /\ c \in Chunk /\ m \in Mode /\ ViewCount(c, m) > 0 /\ EndView(c, m)
        /\ calls[Len(calls)] = <<c, m>>
    BY <1>0, <1>4, TopFrameCounted DEF LeaveWith
  <2>2. \A d \in Chunk, n \in Mode :
          ViewCount(d, n)' =
            ViewCount(d, n) - (IF <<d, n>> = calls[Len(calls)] THEN 1 ELSE 0)
    BY <1>0, <1>4, ViewCountLeave
  <2> HIDE DEF c, m
  <2>3. \A d \in Chunk, n \in Mode :
          ViewCount(d, n)' = ViewCount(d, n) - (IF d = c /\ n = m THEN 1 ELSE 0)
    BY <2>1, <2>2
  <2> QED BY <1>0, <2>1, <2>3, LockInvEnd
<1>5. CASE UNCHANGED <<lock, held, calls>>
  BY <1>0, <1>5, LockInvStable
<1>6. ASSUME NEW c \in Chunk, NEW b \in BOOLEAN, Create(c, b) PROVE LockInv'
  BY <1>5, <1>6 DEF Create
<1>7. ASSUME NEW c \in Chunk, Finalize(c) PROVE LockInv'
  BY <1>5, <1>7 DEF Finalize
<1>8. CASE ChunksFree
  BY <1>5, <1>8 DEF ChunksFree
<1>9. CASE UNCHANGED chunkVars
  BY <1>5, <1>9 DEF chunkVars
<1> QED BY <1>1, <1>2, <1>3, <1>4, <1>6, <1>7, <1>8, <1>9 DEF ChunksNext

-----------------------------------------------------------------------------
(* MemInv is inductive once scripts keep the chunks they have acquired.    *)

LEMMA NoViewNotBusy ==
    ASSUME LockInv, NEW c \in Chunk
    PROVE  (\A m \in Mode : ViewCount(c, m) = 0) <=> ~Busy(lock[c])
<1>1. lock[c].exclusive \in {0, 1} /\ lock[c].shared \in Nat
  BY DEF LockInv, ChunksTypeOK, Lock
<1> QED BY <1>1 DEF LockInv, LockMatchesViews, Mode, Busy

(* Taking a view frees nothing, and is possible only of a live chunk. *)
LEMMA MemInvTake ==
    ASSUME LockInv, MemInv, NEW c \in Chunk, NEW m \in Mode,
           handle[c] = "alive", Acquirable(c, m),
           lock' = [lock EXCEPT ![c] = Acquired(@, m)],
           UNCHANGED <<handle, borrowed, pendingFree, retired, frees>>
    PROVE  MemInv'
<1>1. Busy(Acquired(lock[c], m))
  BY LockAcquire DEF LockInv, ChunksTypeOK, Acquirable
<1>2. \A d \in Chunk : lock'[d] = IF d = c THEN Acquired(lock[c], m) ELSE lock[d]
  BY DEF LockInv, ChunksTypeOK
<1>3. \A d \in Chunk : (d = c => Busy(lock[d]')) /\ (d # c => lock[d]' = lock[d])
  BY <1>1, <1>2
<1>4. c \notin retired
  BY DEF Acquirable
<1>5. pendingFree \in SUBSET Chunk
  BY DEF LockInv, ChunksTypeOK
<1> QED BY <1>3, <1>4, <1>5 DEF MemInv, FreedExactlyOnce, DeferralHasReason

(* Ending a view performs the free that waited for it, once. *)
LEMMA MemInvEnd ==
    ASSUME LockInv, MemInv, NEW c \in Chunk, NEW m \in Mode,
           handle[c] = "alive", EndView(c, m), UNCHANGED <<handle, borrowed>>
    PROVE  MemInv'
<1> DEFINE r == Released(lock[c], m)
           due == IF Busy(r) THEN {} ELSE pendingFree \cap {c}
<1>1. \A d \in Chunk : lock'[d] = IF d = c THEN r ELSE lock[d]
  BY DEF LockInv, ChunksTypeOK, EndView
<1>2. pendingFree' = pendingFree \ due /\ retired' = retired \cup due
  BY DEF EndView
<1>3. \A d \in Chunk : frees'[d] = IF d \in due THEN frees[d] + 1 ELSE frees[d]
  BY DEF LockInv, ChunksTypeOK, EndView
<1>4. pendingFree \in SUBSET Chunk /\ borrowed \in SUBSET Chunk
      /\ \A d \in Chunk : frees[d] \in Nat
  BY DEF LockInv, ChunksTypeOK
<1>5. \A d \in due : d = c /\ d \in pendingFree /\ ~Busy(r)
                    /\ d \notin retired /\ frees[d] = 0
  BY <1>4 DEF MemInv, DeferralHasReason, FreedExactlyOnce
<1>6. c \in pendingFree \ due => Busy(r)
  OBVIOUS
<1>7. c \in retired => ~Busy(r)
  <2>1. ASSUME c \in retired PROVE lock[c].exclusive = 0 /\ lock[c].shared = 0
    BY <2>1 DEF MemInv, Busy, LockInv, ChunksTypeOK, Lock
  <2> QED BY <2>1 DEF Released, Busy, LockInv, ChunksTypeOK, Lock, Mode
<1> HIDE DEF r, due
<1>8. DeferralHasReason'
  BY <1>1, <1>2, <1>4, <1>5, <1>6 DEF MemInv, DeferralHasReason
<1>9. FreedExactlyOnce'
  BY <1>2, <1>3, <1>5 DEF MemInv, FreedExactlyOnce
<1>10. \A d \in Chunk : d \in retired' \/ handle'[d] # "alive" => ~Busy(lock'[d])
  BY <1>1, <1>2, <1>5, <1>7 DEF MemInv
<1>11. \A d \in Chunk : handle'[d] = "absent" => frees'[d] = 0 /\ d \notin retired'
  BY <1>2, <1>3, <1>5 DEF MemInv
<1>12. \A d \in borrowed' : handle'[d] = "alive" /\ d \notin retired'
  BY <1>2, <1>4, <1>5 DEF MemInv, DeferralHasReason
<1> QED BY <1>8, <1>9, <1>10, <1>11, <1>12 DEF MemInv

LEMMA MemInvStep ==
    ASSUME ScriptDropsHeld = FALSE, LockInv, LockInv', MemInv, [ChunksNext]_chunkVars
    PROVE  MemInv'
<1>0. ChunksTypeOK
  BY DEF LockInv
<1>1. ASSUME NEW c \in Chunk, NEW b \in BOOLEAN, Create(c, b) PROVE MemInv'
  <2>1. ~Busy(lock[c]) /\ c \notin retired /\ frees[c] = 0 /\ c \notin pendingFree
    BY <1>0, <1>1 DEF Create, MemInv, DeferralHasReason
  <2>2. \A d \in Chunk : handle'[d] = IF d = c THEN "alive" ELSE handle[d]
    BY <1>0, <1>1 DEF Create, ChunksTypeOK
  <2>3. pendingFree \in SUBSET Chunk /\ borrowed' \in SUBSET (borrowed \cup {c})
        /\ borrowed \in SUBSET Chunk
    BY <1>0, <1>1 DEF Create, ChunksTypeOK
  <2>4. UNCHANGED <<lock, pendingFree, retired, frees>>
    BY <1>1 DEF Create
  <2> QED BY <2>1, <2>2, <2>3, <2>4 DEF MemInv, FreedExactlyOnce, DeferralHasReason
<1>2. ASSUME NEW c \in Chunk, NEW m \in Mode, EnterWith(c, m) PROVE MemInv'
  BY <1>2, MemInvTake DEF EnterWith
<1>3. ASSUME NEW c \in Chunk, NEW m \in Mode, AcquireX(c, m) PROVE MemInv'
  BY <1>3, MemInvTake DEF AcquireX
<1>4. ASSUME NEW c \in Chunk, Release(c) PROVE MemInv'
  BY <1>0, <1>4, HeldCounted, MemInvEnd DEF Release
<1>5. CASE LeaveWith
  <2> DEFINE c == calls[Len(calls)][1]
             m == calls[Len(calls)][2]
  <2>1. c \in Chunk /\ m \in Mode /\ ViewCount(c, m) > 0 /\ EndView(c, m)
    BY <1>0, <1>5, TopFrameCounted DEF LeaveWith
  <2>2. handle[c] = "alive"
    BY <2>1, NoViewNotBusy DEF MemInv
  <2> QED BY <1>5, <2>1, <2>2, MemInvEnd DEF LeaveWith
<1>6. ASSUME NEW c \in Chunk, Finalize(c) PROVE MemInv'
  <2>1. \A m \in Mode : ViewCount(c, m) = 0
    <3> TAKE m \in Mode
    <3>1. Frames(c, m) = {}
      BY <1>6 DEF Finalize, Frames, Positions
    <3>2. HeldViews(c, m) = 0
      BY <1>6 DEF Finalize, HeldViews, Mode
    <3> QED BY <3>1, <3>2, FS_EmptySet DEF ViewCount
  <2>2. ~Busy(lock[c])
    BY <2>1, NoViewNotBusy
  <2>3. c \notin pendingFree
    BY <2>2 DEF MemInv, DeferralHasReason
  <2>4. \A d \in Chunk : handle'[d] = IF d = c THEN "collected" ELSE handle[d]
    BY <1>0, <1>6 DEF Finalize, ChunksTypeOK
  <2>5. \A d \in Chunk : frees'[d] = IF d = c /\ d \notin retired THEN frees[d] + 1
                                                               ELSE frees[d]
    BY <1>0, <1>6 DEF Finalize, ChunksTypeOK
  <2>6. (c \in retired => frees[c] = 1) /\ (c \notin retired => frees[c] = 0)
    BY <1>0, <1>6 DEF Finalize, MemInv, FreedExactlyOnce, ChunksTypeOK
  <2>7. pendingFree \in SUBSET Chunk /\ borrowed' = borrowed \ {c}
        /\ borrowed \in SUBSET Chunk /\ UNCHANGED <<lock, pendingFree, retired>>
    BY <1>0, <1>6 DEF Finalize, ChunksTypeOK
  <2> QED BY <2>2, <2>3, <2>4, <2>5, <2>6, <2>7
          DEF MemInv, FreedExactlyOnce, DeferralHasReason
<1>7. CASE ChunksFree
  <2> DEFINE idle == {c \in borrowed : ~Busy(lock[c])}
  <2>1. \A c \in borrowed : handle[c] = "alive" /\ c \notin retired /\ frees[c] = 0
    BY <1>0 DEF MemInv, FreedExactlyOnce, ChunksTypeOK
  <2>2. /\ borrowed' = {} /\ retired' = retired \cup idle
        /\ pendingFree' = pendingFree \cup (borrowed \ idle)
        /\ UNCHANGED <<handle, lock>>
    BY <1>7 DEF ChunksFree
  <2>3. \A c \in Chunk : frees'[c] = IF c \in idle THEN frees[c] + 1 ELSE frees[c]
    BY <1>7 DEF ChunksFree
  <2>4. (\A c \in idle : ~Busy(lock[c]) /\ c \in borrowed)
        /\ \A c \in borrowed \ idle : Busy(lock[c])
    OBVIOUS
  <2> HIDE DEF idle
  <2>5. DeferralHasReason'
    BY <2>1, <2>2, <2>4 DEF MemInv, DeferralHasReason
  <2>6. FreedExactlyOnce'
    BY <2>1, <2>2, <2>3, <2>4 DEF MemInv, FreedExactlyOnce
  <2> QED BY <2>1, <2>2, <2>3, <2>4, <2>5, <2>6 DEF MemInv
<1>8. CASE UNCHANGED chunkVars
  BY <1>8 DEF chunkVars, MemInv, FreedExactlyOnce, DeferralHasReason
<1> QED BY <1>1, <1>2, <1>3, <1>4, <1>5, <1>6, <1>7, <1>8 DEF ChunksNext

-----------------------------------------------------------------------------
(* The types of the lock, the memory and the views are kept.               *)
THEOREM TypeCorrect == ChunksSpec => []ChunksTypeOK
<1>1. LockInv => ChunksTypeOK
  BY DEF LockInv
<1> QED BY <1>1, LockInvInit, LockInvStep, PTL DEF ChunksSpec

(* sxn_borrow_*: the flag and the counter count the attached views.        *)
THEOREM LockCountsViews == ChunksSpec => []LockMatchesViews
<1>1. LockInv => LockMatchesViews
  BY DEF LockInv
<1> QED BY <1>1, LockInvInit, LockInvStep, PTL DEF ChunksSpec

(* A view that may write is the only one, whatever the script does.        *)
THEOREM ExclusiveBorrowIsAlone == ChunksSpec => []ExclusiveIsAlone
<1>1. ASSUME LockInv PROVE ExclusiveIsAlone
  <2>1. \A c \in Chunk : lock[c].exclusive \in {0, 1} /\ lock[c].shared \in Nat
    BY <1>1 DEF LockInv, ChunksTypeOK, Lock
  <2> QED BY <1>1, <2>1 DEF LockInv, LockMatchesViews, ExclusiveIsAlone
<1> QED BY <1>1, LockInvInit, LockInvStep, PTL DEF ChunksSpec

(* The lock of a chunk says which views of it are attached, and one that   *)
(* may write is the only one, for any chunks and any nesting.              *)
THEOREM BorrowsAreCounted == ChunksSpec => []BorrowsCounted
<1>1. ChunksTypeOK /\ LockMatchesViews /\ ExclusiveIsAlone => BorrowsCounted
  BY DEF BorrowsCounted
<1> QED BY <1>1, TypeCorrect, LockCountsViews, ExclusiveBorrowIsAlone, PTL

LEMMA MemInvInit == ChunksInit => MemInv
<1> SUFFICES ASSUME ChunksInit PROVE MemInv
  OBVIOUS
<1>1. \A c \in Chunk : ~Busy(lock[c])
  BY DEF ChunksInit, Unlocked, Busy
<1> QED BY <1>1 DEF ChunksInit, MemInv, FreedExactlyOnce, DeferralHasReason

LEMMA NoDangling == LockInv /\ MemInv => NoDanglingView
<1> SUFFICES ASSUME LockInv, MemInv, NEW c \in Chunk, frees[c] > 0
             PROVE  ViewCount(c, "shared") + ViewCount(c, "exclusive") = 0
  BY DEF NoDanglingView
<1>1. handle[c] # "alive" \/ c \in retired
  BY DEF MemInv, FreedExactlyOnce, LockInv, ChunksTypeOK
<1>2. ~Busy(lock[c])
  BY <1>1 DEF MemInv
<1> QED BY <1>2, NoViewNotBusy DEF Mode

(* Stream teardown, release() and the finalizer free a chunk once between  *)
(* them, never under an attached view, and defer only while one is         *)
(* attached, for scripts that keep a chunk they have acquired.             *)
THEOREM MemorySafe ==
    ASSUME ScriptDropsHeld = FALSE
    PROVE  ChunksSpec => [](FreedExactlyOnce /\ DeferralHasReason /\ NoDanglingView)
<1>1. ChunksInit => LockInv /\ MemInv
  BY LockInvInit, MemInvInit
<1>2. LockInv /\ MemInv /\ [ChunksNext]_chunkVars => (LockInv /\ MemInv)'
  BY LockInvStep, MemInvStep
<1>3. LockInv /\ MemInv => FreedExactlyOnce /\ DeferralHasReason /\ NoDanglingView
  BY NoDangling DEF MemInv
<1> QED BY <1>1, <1>2, <1>3, PTL DEF ChunksSpec

(* The bytes under an attached view are never freed (sxn_chunkview_finalizer, *)
(* fetch_chunks_free), while scripts keep what they acquired; so sxn_borrow_* *)
(* and the release agree with the readers whichever way they nest.            *)
THEOREM ViewsStayBacked ==
    ASSUME ScriptDropsHeld = FALSE
    PROVE  ChunksSpec => []NoDanglingView
<1> QED BY MemorySafe, PTL

-----------------------------------------------------------------------------
(* The FetchState is freed when neither libcurl nor the stream object can   *)
(* reach it, the response carries one header block, and every field stays   *)
(* in its range (fetch_state_decref, fetch_header_cb).                      *)
THEOREM HeadAndOwnersAreKept == Spec => []HeadAndOwnersKept
<1>1. ASSUME IInv, ChunksTypeOK PROVE TypeOK
    <2>1. refcount \in 0..2 /\ pairs \subseteq 0..MaxHops
        BY <1>1, HopsAssumption DEF IInv, OwnersOK, FreedWithItsOwners, HeadOK
    <2> QED BY <1>1, <2>1 DEF IInv, Flags, HeadOK, ReadsOK, QueueOK, TypeOK
<1>2. IInv => FreedWithItsOwners /\ HeadIsLastBlock
    BY DEF IInv, OwnersOK, HeadOK
<1>3. IInv /\ ChunksTypeOK => HeadAndOwnersKept
    BY <1>1, <1>2 DEF HeadAndOwnersKept
<1> QED BY <1>3, Invariant, UsesTheLock, TypeCorrect, PTL

-----------------------------------------------------------------------------
(* Cancel, abort and the last share settle every lent chunk.               *)

(* Nothing waits for its view before the stream is thrown away, and a chunk *)
(* nobody was lent is nobody's.                                             *)
LentInv ==
    /\ LentIsSettled
    /\ ~Discarded => retired = {} /\ pendingFree = {}
    /\ \A c \in Chunk : handle[c] = "absent" => c \notin borrowed \cup pendingFree /\ frees[c] = 0

(* What a script does with chunks: a view that ends may run the free that   *)
(* waited for it, and a collected chunk is nobody's any more.               *)
LEMMA LentUse ==
    ASSUME ChunksTypeOK, LentInv, UseChunk \/ LeaveCallback
    PROVE  LentInv'
<1>1. Discarded' <=> Discarded
  BY DEF UseChunk, LeaveCallback, fsVars, obsVars, Discarded
<1>2. ASSUME NEW c, NEW m, EndView(c, m), UNCHANGED <<handle, borrowed>>
      PROVE  LentInv'
  <2>1. /\ pendingFree' \subseteq pendingFree
        /\ retired \cup pendingFree = retired' \cup pendingFree'
    BY <1>2 DEF EndView
  <2>2. \A d \in Chunk : d \notin pendingFree => frees'[d] = frees[d]
    BY <1>2 DEF EndView, ChunksTypeOK
  <2> QED BY <1>1, <1>2, <2>1, <2>2 DEF LentInv, LentIsSettled
<1>3. ASSUME NEW c \in Chunk, NEW m \in Mode, EnterWith(c, m) \/ AcquireX(c, m)
      PROVE  LentInv'
  BY <1>1, <1>3 DEF EnterWith, AcquireX, LentInv, LentIsSettled
<1>4. ASSUME NEW c \in Chunk, Release(c) PROVE LentInv'
  BY <1>2, <1>4 DEF Release
<1>5. ASSUME NEW c \in Chunk, Finalize(c) PROVE LentInv'
  BY <1>1, <1>5 DEF Finalize, LentInv, LentIsSettled, ChunksTypeOK
<1>6. CASE LeaveCallback
  BY <1>2, <1>6 DEF LeaveCallback, LeaveWith
<1> QED BY <1>3, <1>4, <1>5, <1>6 DEF UseChunk

(* What the fetch does with them: it lends one while the stream is there,   *)
(* lets go of all when the stream is thrown away, or leaves them alone.     *)
LEMMA LentByFetch ==
    ASSUME ChunksTypeOK, LentInv,
           \/ UNCHANGED chunkVars /\ (Discarded' <=> Discarded)
           \/ ChunksFree /\ Discarded'
           \/ ~Discarded' /\ ~Discarded /\ \E c \in Chunk : Create(c, TRUE)
    PROVE  LentInv'
<1>1. CASE UNCHANGED chunkVars /\ (Discarded' <=> Discarded)
  BY <1>1 DEF chunkVars, LentInv, LentIsSettled
<1>2. CASE ChunksFree /\ Discarded'
  <2>1. borrowed' = {} /\ handle' = handle
    BY <1>2 DEF ChunksFree
  <2>2. /\ borrowed \cup retired \cup pendingFree = retired' \cup pendingFree'
        /\ \A c \in Chunk : c \notin borrowed => frees'[c] = frees[c]
        /\ pendingFree' \subseteq pendingFree \cup borrowed
    BY <1>2 DEF ChunksFree
  <2> QED BY <1>2, <2>1, <2>2 DEF LentInv, LentIsSettled
<1>3. ASSUME NEW c \in Chunk, ~Discarded', ~Discarded, Create(c, TRUE) PROVE LentInv'
  BY <1>3 DEF Create, LentInv, LentIsSettled, ChunksTypeOK
<1> QED BY <1>1, <1>2, <1>3

LEMMA LentStep ==
    ASSUME IInv, ChunksTypeOK, LentInv, [Next]_vars
    PROVE  LentInv'
<1>1. CASE WriteData
  <2>1. easy /\ arrived' \in Chunk /\ UNCHANGED <<cancelled, aborted, refcount>>
    BY <1>1, NumChunksAssumption, ChunksAreNumbered DEF IInv, QueueOK, WriteData, FromLoop
  <2>2. ~Discarded /\ ~Discarded'
    BY <2>1 DEF IInv, OwnersOK, FreedWithItsOwners, Discarded
  <2> QED BY <1>1, <2>1, <2>2, LentByFetch DEF WriteData
<1>2. ASSUME NEW r \in Read, NEW lend \in BOOLEAN, StreamRead(r, lend) PROVE LentInv'
  <2>1. Discarded' <=> Discarded
    BY <1>2 DEF StreamRead, ReadVars, Discarded
  <2>2. queue # <<>> => Head(queue) \in Chunk /\ ~Discarded
    BY HeadTailProperties DEF IInv, QueueOK
  <2> QED BY <1>2, <2>1, <2>2, LentByFetch DEF StreamRead
<1>3. CASE HeaderStart \/ HeaderLine \/ UNCHANGED vars
  <2>1. UNCHANGED chunkVars /\ UNCHANGED <<cancelled, aborted, refcount>>
    BY <1>3 DEF HeaderStart, HeaderLine, vars, fsVars, obsVars
  <2>2. Discarded' <=> Discarded
    BY <2>1 DEF Discarded
  <2> QED BY <2>1, <2>2, LentByFetch
<1>4. ASSUME refcount # 0, refcount' = refcount - 1, AfterDecref, UNCHANGED <<cancelled, aborted>>
      PROVE  LentInv'
  <2>1. refcount' = 0 => ChunksFree /\ Discarded'
    BY <1>4 DEF AfterDecref, DropChunks, Discarded
  <2>2. refcount' # 0 => UNCHANGED chunkVars /\ (Discarded' <=> Discarded)
    BY <1>4 DEF AfterDecref, KeepChunks, Discarded
  <2> QED BY <2>1, <2>2, LentByFetch
<1>5. ASSUME NEW ok \in BOOLEAN, Complete(ok) PROVE LentInv'
  BY <1>4, <1>5 DEF Complete, FromLoop, TeardownCurl, IInv, OwnersOK, FreedWithItsOwners
<1>6. CASE CollectStream
  BY <1>4, <1>6 DEF CollectStream, obsVars, IInv, OwnersOK, FreedWithItsOwners
<1>7. CASE StreamCancel \/ Abort
  BY <1>7, LentByFetch DEF StreamCancel, Abort, DropChunks, Discarded
<1> QED BY <1>1, <1>2, <1>3, <1>5, <1>6, <1>7, LentUse DEF Next, Network, Script

(* fetch_chunks_free: whatever was lent is freed or waits for its view once *)
(* the stream is cancelled, aborted or freed, and is the script's until     *)
(* then; no read, callback or late data lends a chunk afterwards.           *)
THEOREM LentIsAlwaysSettled == Spec => []LentIsSettled
<1>1. Init => LentInv
  BY DEF Init, ChunksInit, LentInv, LentIsSettled, Discarded
<1>2. LentInv => LentIsSettled
  BY DEF LentInv
<1>3. IInv /\ ChunksTypeOK /\ LentInv /\ [Next]_vars => LentInv'
  BY LentStep
<1> QED BY <1>1, <1>2, <1>3, Invariant, UsesTheLock, TypeCorrect, PTL DEF Spec

-----------------------------------------------------------------------------
(* Both at once: however network callbacks, reads, aborts and collections   *)
(* of a fetch meet the borrows of its chunks, the lock counts the views, no *)
(* view looks at freed memory and every chunk is freed once.                *)
THEOREM FetchedBytesAreSafe ==
    ASSUME ScriptDropsHeld = FALSE
    PROVE  Spec => [](BorrowsCounted /\ FreedExactlyOnce /\ NoDanglingView)
<1>1. Spec => ChunksSpec
  BY UsesTheLock
<1>2. ChunksSpec => [](FreedExactlyOnce /\ DeferralHasReason /\ NoDanglingView)
  BY MemorySafe
<1> QED BY <1>1, <1>2, BorrowsAreCounted, PTL
=============================================================================
