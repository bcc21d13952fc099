--------------------------- MODULE BorrowedChunk ---------------------------
(***************************************************************************)
(* The borrow lock over a chunk of native memory handed to JavaScript      *)
(* without a copy (src/network.c): SxnBorrow, ChunkNode and the            *)
(* BorrowedChunk object a script holds.                                    *)
(*                                                                         *)
(* A script reaches the bytes only through a view: one per running         *)
(* with*Borrow callback (the stack `calls`; the body copy in conn_deliver  *)
(* is a shared frame of the same shape) and at most one per chunk taken    *)
(* with acquireShared/acquireExclusive (`held`).  Cancelling the stream    *)
(* the chunk came from wants the bytes freed at once (ChunksFree) and has  *)
(* to wait for the views.                                                  *)
(***************************************************************************)
EXTENDS Integers, Sequences, FiniteSets

CONSTANTS
    Chunk,              \* chunk nodes: each is created at most once
    MaxDepth,           \* bound: nested with*Borrow callbacks
    ScriptDropsHeld     \* may a script drop a chunk it has acquired?

ASSUME ChunkAssumption == IsFiniteSet(Chunk)
ASSUME MaxDepthAssumption == MaxDepth \in Nat
ASSUME DropAssumption == ScriptDropsHeld \in BOOLEAN

VARIABLES
    handle,     \* the BorrowedChunk object: "absent", "alive", "collected"
    lock,       \* ChunkNode.borrow: the exclusive flag and shared_count
    borrowed,   \* chunks a stream tracks: FetchState.borrowed, ChunkNode.owner
    pendingFree,\* chunks with ChunkNode.pending_free set
    retired,    \* chunks with ChunkNode.retired set
    frees,      \* how often free(node->data) has run
    held,       \* the view acquire*() handed out: "none", "shared", "exclusive"
    calls       \* running with*Borrow callbacks, innermost last

chunkVars == <<handle, lock, borrowed, pendingFree, retired, frees, held, calls>>

Mode == {"shared", "exclusive"}
Handle == {"absent", "alive", "collected"}
Lock == [exclusive : {0, 1}, shared : Nat]
Unlocked == [exclusive |-> 0, shared |-> 0]

ChunksTypeOK ==
    /\ handle \in [Chunk -> Handle]
    /\ lock \in [Chunk -> Lock]
    /\ borrowed \in SUBSET Chunk
    /\ pendingFree \in SUBSET Chunk
    /\ retired \in SUBSET Chunk
    /\ frees \in [Chunk -> Nat]
    /\ held \in [Chunk -> Mode \cup {"none"}]
    /\ calls \in Seq(Chunk \X Mode)
    /\ Len(calls) <= MaxDepth

ChunksInit ==
    /\ handle = [c \in Chunk |-> "absent"]
    /\ lock = [c \in Chunk |-> Unlocked]
    /\ borrowed = {}
    /\ pendingFree = {}
    /\ retired = {}
    /\ frees = [c \in Chunk |-> 0]
    /\ held = [c \in Chunk |-> "none"]
    /\ calls = <<>>

-----------------------------------------------------------------------------
(* The lock: sxn_borrow_*.                                                 *)

Busy(l) == l.exclusive = 1 \/ l.shared > 0
CanAcquire(l, m) == IF m = "exclusive" THEN ~Busy(l) ELSE l.exclusive = 0
Acquired(l, m) ==
    IF m = "exclusive" THEN [l EXCEPT !.exclusive = 1]
                       ELSE [l EXCEPT !.shared = @ + 1]
Released_AllReaders(l, m) ==
    IF m = "exclusive" THEN [l EXCEPT !.exclusive = 0] ELSE [l EXCEPT !.shared = 0]
Released(l, m) ==
    CASE m = "exclusive" -> [l EXCEPT !.exclusive = 0]
      [] m = "shared"    -> [l EXCEPT !.shared = IF @ > 0 THEN @ - 1 ELSE @]

(* A view of mode m of chunk c can be made: sxn_chunkview_acquire.          *)
Acquirable(c, m) == c \notin retired /\ CanAcquire(lock[c], m)

EndView_NotRetired(c, m) ==
    LET l == Released(lock[c], m)
        due == IF Busy(l) THEN {} ELSE pendingFree \cap {c}
    IN  /\ lock' = [lock EXCEPT ![c] = l]
        /\ pendingFree' = pendingFree \ due
        /\ frees' = [frees EXCEPT ![c] = IF c \in due THEN @ + 1 ELSE @]
        /\ UNCHANGED retired

(* A view of mode m of chunk c ends; a free that waited for it runs now:    *)
(* sxn_borrow_release_* and sxn_chunkview_release_common.                   *)
EndView(c, m) ==
    LET l == Released(lock[c], m)
        due == IF Busy(l) THEN {} ELSE pendingFree \cap {c}
    IN  /\ lock' = [lock EXCEPT ![c] = l]
        /\ pendingFree' = pendingFree \ due
        /\ retired' = retired \cup due
        /\ frees' = [frees EXCEPT ![c] = IF c \in due THEN @ + 1 ELSE @]

-----------------------------------------------------------------------------
(* readBorrowed() hands a chunk over.  One from a fetch body stays          *)
(* registered with its stream, one read from a file has no owner.           *)
Create(c, tracked) ==
    /\ handle[c] = "absent"
    /\ handle' = [handle EXCEPT ![c] = "alive"]
    /\ borrowed' = IF tracked THEN borrowed \cup {c} ELSE borrowed
    /\ UNCHANGED <<lock, pendingFree, retired, frees, held, calls>>

(* withSharedBorrow/withExclusiveBorrow up to the callback.                 *)
EnterWith(c, m) ==
    /\ handle[c] = "alive"
    /\ Len(calls) < MaxDepth
    /\ Acquirable(c, m)
    /\ lock' = [lock EXCEPT ![c] = Acquired(@, m)]
    /\ calls' = Append(calls, <<c, m>>)
    /\ UNCHANGED <<handle, borrowed, pendingFree, retired, frees, held>>

Popped(s) == [i \in 1..(Len(s) - 1) |-> s[i]]

(* The innermost callback returns or throws: its view is detached.          *)
LeaveWith ==
    /\ calls # <<>>
    /\ EndView(calls[Len(calls)][1], calls[Len(calls)][2])
    /\ calls' = Popped(calls)
    /\ UNCHANGED <<handle, borrowed, held>>

(* acquireShared()/acquireExclusive().                                      *)
AcquireX(c, m) ==
    /\ handle[c] = "alive"
    /\ held[c] = "none"
    /\ Acquirable(c, m)
    /\ lock' = [lock EXCEPT ![c] = Acquired(@, m)]
    /\ held' = [held EXCEPT ![c] = m]
    /\ UNCHANGED <<handle, borrowed, pendingFree, retired, frees, calls>>

(* release().                                                               *)
Release(c) ==
    /\ handle[c] = "alive"
    /\ held[c] # "none"
    /\ EndView(c, held[c])
    /\ held' = [held EXCEPT ![c] = "none"]
    /\ UNCHANGED <<handle, borrowed, calls>>

ChunksFree_Eager ==
    /\ borrowed' = {}
    /\ retired' = retired \cup borrowed
    /\ frees' = [c \in Chunk |-> IF c \in borrowed THEN frees[c] + 1 ELSE frees[c]]
    /\ UNCHANGED <<handle, lock, pendingFree, held, calls>>

(* The stream lets go of every chunk it handed out, the second half of      *)
(* fetch_chunks_free: an idle chunk is freed, a borrowed one waits.         *)
ChunksFree ==
    LET idle == {c \in borrowed : ~Busy(lock[c])}
    IN  /\ borrowed' = {}
        /\ pendingFree' = pendingFree \cup (borrowed \ idle)
        /\ retired' = retired \cup idle
        /\ frees' = [c \in Chunk |-> IF c \in idle THEN frees[c] + 1 ELSE frees[c]]
        /\ UNCHANGED <<handle, lock, held, calls>>

(* The collector finalizes a BorrowedChunk nothing references any more.  A  *)
(* running with*Borrow references it; a view from acquire*() does not.      *)
Finalize(c) ==
    /\ handle[c] = "alive"
    /\ \A i \in DOMAIN calls : calls[i][1] # c
    /\ ScriptDropsHeld \/ held[c] = "none"
    /\ handle' = [handle EXCEPT ![c] = "collected"]
    /\ borrowed' = borrowed \ {c}
    /\ frees' = [frees EXCEPT ![c] = IF c \in retired THEN @ ELSE @ + 1]
    /\ UNCHANGED <<lock, pendingFree, retired, held, calls>>

ChunksNext ==
    \/ \E c \in Chunk, b \in BOOLEAN : Create(c, b)
    \/ \E c \in Chunk, m \in Mode : EnterWith(c, m) \/ AcquireX(c, m)
    \/ \E c \in Chunk : Release(c) \/ Finalize(c)
    \/ LeaveWith
    \/ ChunksFree

ChunksSpec == ChunksInit /\ [][ChunksNext]_chunkVars

-----------------------------------------------------------------------------
(* The views of a chunk that are attached to its memory.                    *)

Positions(s, x) == {i \in DOMAIN s : s[i] = x}
Frames(c, m) == Positions(calls, <<c, m>>)
HeldViews(c, m) == IF held[c] = m THEN 1 ELSE 0
ViewCount(c, m) == Cardinality(Frames(c, m)) + HeldViews(c, m)

(* The lock counts the views: however acquires, callbacks, releases and     *)
(* cancellations nest, the flag and the counter of a chunk say exactly      *)
(* which views of it are attached, so no view is forgotten and none is      *)
(* counted after it ended.                                                  *)
LockMatchesViews ==
    \A c \in Chunk :
        /\ lock[c].shared = ViewCount(c, "shared")
        /\ lock[c].exclusive = ViewCount(c, "exclusive")

(* An exclusive view is the only view: nobody reads bytes another view may  *)
(* write.                                                                   *)
ExclusiveIsAlone ==
    \A c \in Chunk : ViewCount(c, "exclusive") > 0 =>
        ViewCount(c, "exclusive") + ViewCount(c, "shared") = 1

(* No view of a chunk is forgotten, counted after it ended, or beside one   *)
(* that may write: what sxn_borrow_* decides on is what is attached.        *)
BorrowsCounted == ChunksTypeOK /\ LockMatchesViews /\ ExclusiveIsAlone

(* "A borrow can never be outstanding here" (sxn_chunkview_finalizer), and  *)
(* fetch_chunks_free defers: the bytes under an attached view are not freed.*)
NoDanglingView ==
    \A c \in Chunk : frees[c] > 0 =>
        ViewCount(c, "shared") + ViewCount(c, "exclusive") = 0

(* Stream teardown, the last release and the finalizer agree on who frees:  *)
(* the bytes are freed at most once, and have been freed once the object is *)
(* gone.                                                                    *)
FreedExactlyOnce ==
    \A c \in Chunk :
        /\ frees[c] <= 1
        /\ handle[c] = "collected" => frees[c] = 1
        /\ handle[c] = "alive" => (frees[c] = 1 <=> c \in retired)

(* A free is deferred only while a view is attached: the release that ends  *)
(* the last view also performs it, and an ownerless chunk is left to the    *)
(* finalizer.                                                               *)
DeferralHasReason ==
    \A c \in pendingFree : Busy(lock[c]) /\ c \notin retired \cup borrowed

=============================================================================
