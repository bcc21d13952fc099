---------------------------- MODULE EventEmitter ----------------------------
(***************************************************************************)
(* node:events' EventEmitter (src/node.c): the compact listener store (a   *)
(* function for one listener, an array for more), the memo of the last     *)
(* resolution that emit() looks at before the store, the in-place or       *)
(* copying removal that off() chooses by the number of emits on the stack, *)
(* and emits that nest inside the listeners they call.                     *)
(*                                                                         *)
(* An array is freed, <<>> in "arrays" again, when no store and no emit    *)
(* refers to it any more.  The memo is valid while sxn_ee_memo_gen =       *)
(* sxn_ee_gen; every change of a store bumps the latter, so here it        *)
(* empties the memo.  The 32-bit counter is taken not to come round        *)
(* between two emits, event names are strings (a symbol never uses the     *)
(* memo), and scripts leave _events alone.                                 *)
(***************************************************************************)
EXTENDS ListenerList, FiniteSets, FiniteSetsExt

CONSTANTS
    Emitters, Types,
    Limits,         \* the values setMaxListeners() is given; 0 is no limit
    NoFunction,     \* the store's place for a function when it has none
    Arrays,         \* bound: the arrays that exist at a time
    NoArray,
    MaxRegistered,  \* bound: functions in the lists at a time
    MaxDepth        \* bound: emits on the stack

ASSUME EmitterAssumption ==
    /\ Limits \subseteq Nat
    /\ NoArray \notin Arrays
    /\ MaxRegistered \in Nat
    /\ MaxDepth \in Nat
    /\ NoFunction \notin Functions

Events == Emitters \X Types

VARIABLES
    store,      \* _events of every emitter, by event
    arrays,     \* the listener arrays
    memo,       \* sxn_ee_memo_*: empty, or the last event and its entry
    stack,      \* the emits under way, the innermost last
    depth,      \* sxn_ee_emit_depth
    limit,      \* _maxListeners or the default
    warned      \* _warnedEvents

vars == <<store, arrays, memo, stack, depth, limit, warned>>

(* What a store has for an event: nothing, a function or an array.         *)
Entries == [function : Functions \cup {NoFunction}, array : Arrays \cup {NoArray}]
Nothing == [function |-> NoFunction, array |-> NoArray]
One(v) == [function |-> v, array |-> NoArray]
Many(a) == [function |-> NoFunction, array |-> a]

ListIn(entry, arrs) ==
    IF entry.array # NoArray THEN arrs[entry.array]
    ELSE IF entry.function # NoFunction THEN <<entry.function>>
    ELSE <<>>
ListOf(entry) == ListIn(entry, arrays)

Memos == [event : Events, entry : Entries]

(* An emit on the stack: the entry it walks, how many listeners that had   *)
(* when it began (n) and how many of them it has called (i).               *)
Emits == [event : Events, entry : Entries, n : Nat, i : Nat]

TypeOK ==
    /\ store \in [Events -> Entries]
    /\ arrays \in [Arrays -> Seq(Functions)]
    /\ memo \in SUBSET Memos
    /\ stack \in Seq(Emits)
    /\ depth \in Nat
    /\ limit \in [Emitters -> Limits]
    /\ warned \in SUBSET Events

Init ==
    /\ store = [e \in Events |-> Nothing]
    /\ arrays = [a \in Arrays |-> <<>>]
    /\ memo = {}
    /\ stack = <<>>
    /\ depth = 0
    /\ limit \in [Emitters -> Limits]
    /\ warned = {}

(* Reference counting: an array nothing refers to is freed.                *)
Referred(a, st, stk) ==
    \/ \E e \in Events : st[e].array = a
    \/ \E k \in DOMAIN stk : stk[k].entry.array = a
Freed(arrs, st, stk) ==
    [a \in Arrays |-> IF Referred(a, st, stk) THEN arrs[a] ELSE <<>>]

Unused == {a \in Arrays : arrays[a] = <<>>}
NewArray == CHOOSE a \in Unused : TRUE

-----------------------------------------------------------------------------
(* on(): the first listener is stored as it is, the second promotes the    *)
(* entry to an array, the others are appended to that array.               *)
Added(e, v) ==
    IF store[e] = Nothing THEN [st |-> [store EXCEPT ![e] = One(v)], arrs |-> arrays]
    ELSE IF store[e].array = NoArray
    THEN [st |-> [store EXCEPT ![e] = Many(NewArray)],
          arrs |-> [arrays EXCEPT ![NewArray] = <<store[e].function, v>>]]
    ELSE [st |-> store, arrs |-> [arrays EXCEPT ![store[e].array] = Append(@, v)]]

(* sxn_ee_check_max_listeners                                              *)
Warned(e, count) ==
    IF limit[e[1]] > 0 /\ count > limit[e[1]] THEN warned \cup {e} ELSE warned

Room == MapThenSumSet(LAMBDA k : Len(ListOf(store[k])), Events) < MaxRegistered
Adds(e, v) ==
    LET added == Added(e, v) IN
    /\ Room
    /\ store[e] # Nothing /\ store[e].array = NoArray => Unused # {}
    /\ store' = added.st
    /\ arrays' = added.arrs
    /\ memo' = {}
    /\ warned' = Warned(e, Len(ListOf(store[e])) + 1)
    /\ UNCHANGED <<stack, depth, limit>>

On(e, l) == Adds(e, Plain(l))

(* once() makes a new wrapper and hands it to on().                        *)
InUse(w) ==
    \/ \E e \in Events : store[e].function \in Functions /\ store[e].function.wrapper = w
    \/ \E a \in Arrays : \E i \in DOMAIN arrays[a] : arrays[a][i].wrapper = w
    \/ \E k \in DOMAIN stack :
           stack[k].entry.function \in Functions /\ stack[k].entry.function.wrapper = w
FreeWrappers == {w \in 1..MaxOnce : ~InUse(w)}
Once(e, l) ==
    /\ FreeWrappers # {}
    /\ Adds(e, [wrapper |-> CHOOSE w \in FreeWrappers : TRUE, original |-> l])

-----------------------------------------------------------------------------
(* off(): a function entry goes if it matches.  An array is closed up in   *)
(* place or, when an emit may be walking it, replaced by a copy (even if   *)
(* nothing matches), and becomes a function entry again when one listener  *)
(* is left.  d is the depth off() sees.                                    *)
Untouched(e, arg, d) ==
    /\ FirstMatches(ListOf(store[e]), arg) = {}
    /\ store[e].array = NoArray \/ d = 0
Taken(e, arg, d) ==
    LET list == Removed(ListOf(store[e]), arg)
        array == IF d > 0 THEN NewArray ELSE store[e].array
    IN IF Untouched(e, arg, d) THEN [st |-> store, arrs |-> arrays]
       ELSE IF store[e].array = NoArray THEN [st |-> [store EXCEPT ![e] = Nothing], arrs |-> arrays]
       ELSE IF Len(list) = 1
       THEN [st |-> [store EXCEPT ![e] = One(list[1])],
             arrs |-> IF d > 0 THEN arrays ELSE [arrays EXCEPT ![store[e].array] = list]]
       ELSE [st |-> [store EXCEPT ![e] = Many(array)], arrs |-> [arrays EXCEPT ![array] = list]]

Off_TrustsMemo(e, l) ==
    LET taken == Taken(e, Plain(l), depth) IN
    /\ depth > 0 => Unused # {}
    /\ store' = taken.st
    /\ arrays' = Freed(taken.arrs, taken.st, stack)
    /\ UNCHANGED <<memo, stack, depth, limit, warned>>

Off(e, l) ==
    LET taken == Taken(e, Plain(l), depth) IN
    /\ depth > 0 => Unused # {}
    /\ store' = taken.st
    /\ arrays' = Freed(taken.arrs, taken.st, stack)
    /\ memo' = {}
    /\ UNCHANGED <<stack, depth, limit, warned>>

(* removeAllListeners(type) and removeAllListeners().                      *)
RemoveAll(E) ==
    /\ store' = [e \in Events |-> IF e \in E THEN Nothing ELSE store[e]]
    /\ arrays' = Freed(arrays, store', stack)
    /\ memo' = {}
    /\ UNCHANGED <<stack, depth, limit, warned>>

SetMaxListeners(em, n) ==
    /\ limit' = [limit EXCEPT ![em] = n]
    /\ UNCHANGED <<store, arrays, memo, stack, depth, warned>>

-----------------------------------------------------------------------------
(* emit() calls v for event e with stk the emits then on the stack and d   *)
(* the depth: a wrapper calls off() for itself before its listener.        *)
Calls(e, v, stk, d, mem) ==
    LET taken == IF IsOnce(v) THEN Taken(e, v, d) ELSE [st |-> store, arrs |-> arrays] IN
    /\ IsOnce(v) /\ d > 0 => Unused # {}
    /\ store' = taken.st
    /\ arrays' = Freed(taken.arrs, taken.st, stk)
    /\ memo' = IF IsOnce(v) THEN {} ELSE mem
    /\ stack' = stk
    /\ depth' = d

(* How emit() finds the event's entry.                                     *)
Hits(e) == {m \in memo : m.event = e}
Resolved(e) == IF Hits(e) = {} THEN store[e] ELSE (CHOOSE m \in Hits(e) : TRUE).entry
Remembered(e) == {[event |-> e, entry |-> Resolved(e)]}

Walks(entry) == entry.array # NoArray

(* An event without listeners: emit() answers false or, for "error",       *)
(* throws to its caller.                                                   *)
EmitToNobody(e) ==
    /\ ListOf(Resolved(e)) = <<>>
    /\ memo' = Remembered(e)
    /\ UNCHANGED <<store, arrays, stack, depth, limit, warned>>

Emit(e) ==
    LET entry == Resolved(e)
        list == ListOf(entry)
    IN /\ list # <<>>
       /\ Len(stack) < MaxDepth
       /\ Calls(e, list[1],
                Append(stack, [event |-> e, entry |-> entry, n |-> Len(list), i |-> 1]),
                IF Walks(entry) THEN depth + 1 ELSE depth,
                Remembered(e))
       /\ UNCHANGED <<limit, warned>>

Top == stack[Len(stack)]
Outer == [k \in 1..(Len(stack) - 1) |-> stack[k]]
Left == IF Walks(Top.entry) THEN depth - 1 ELSE depth

(* The listener returns to an emit that has more to call.  The array is    *)
(* looked at again for every listener.                                     *)
More == Top.i < Top.n /\ Top.i < Len(ListOf(Top.entry))
Return ==
    /\ stack # <<>>
    /\ More
    /\ Calls(Top.event, ListOf(Top.entry)[Top.i + 1],
             [stack EXCEPT ![Len(stack)].i = @ + 1], depth, memo)
    /\ UNCHANGED <<limit, warned>>

(* The last listener returns, or one throws.                               *)
Leaves ==
    /\ stack' = Outer
    /\ depth' = Left
    /\ arrays' = Freed(arrays, store, Outer)
    /\ UNCHANGED <<store, memo, limit, warned>>
Finish == stack # <<>> /\ ~More /\ Leaves
Throw_KeepsDepth ==
    /\ stack # <<>>
    /\ stack' = Outer
    /\ arrays' = Freed(arrays, store, Outer)
    /\ UNCHANGED <<store, memo, depth, limit, warned>>
Throw == stack # <<>> /\ Leaves

Next ==
    \/ \E e \in Events, l \in Listeners : On(e, l) \/ Once(e, l) \/ Off(e, l)
    \/ \E e \in Events : RemoveAll({e})
    \/ \E em \in Emitters : RemoveAll({em} \X Types)
    \/ \E em \in Emitters, n \in Limits : SetMaxListeners(em, n)
    \/ \E e \in Events : EmitToNobody(e) \/ Emit(e)
    \/ Return
    \/ Finish
    \/ Throw

Spec == Init /\ [][Next]_vars
-----------------------------------------------------------------------------
(* The leak warning: a list that grows past its emitter's limit has been   *)
(* reported, whatever shape its entry had, a list within the limit is not, *)
(* and no report is repeated.                                              *)
LeakIsReported ==
    [][/\ warned \subseteq warned'
       /\ \A e \in Events :
              Len(ListOf(store[e])') > Len(ListOf(store[e])) /\ e \notin warned =>
                  (e \in warned' <=> limit[e[1]] \in 1..Len(ListOf(store[e])))]_vars

(* The depth off() looks at is the number of emits under way that walk an  *)
(* array: one too few and a removal closes the array up under an emit, one *)
(* too many and every removal copies from then on.                         *)
DepthIsCounted == depth = Cardinality({k \in DOMAIN stack : Walks(stack[k].entry)})

(* The counts the emitter keeps beside its lists, of emits under way and of *)
(* reports made, stay right when listeners throw and lists change shape.    *)
CountsKept == [](TypeOK /\ DepthIsCounted) /\ LeakIsReported

(* The emitter keeps the promise of Emitter: its compact store holds the   *)
(* lists, and every emit on the stack still sees the listeners it began    *)
(* with, through every promotion, removal, nested emit and memo hit.       *)
Begun(f) ==
    [event |-> f.event, list |-> [j \in 1..f.n |-> ListOf(f.entry)[j]], called |-> f.i]
Abstract == INSTANCE Emitter WITH
    listeners <- [e \in Events |-> ListOf(store[e])],
    emits <- [k \in DOMAIN stack |-> Begun(stack[k])]
ImplementsEmitter == Abstract!EmitterSpec
=============================================================================
