------------------------------- MODULE Emitter -------------------------------
(***************************************************************************)
(* What an EventEmitter promises: each event has a list of listeners in    *)
(* the order they were registered, and an emit calls the listeners the     *)
(* event had when it began, each once and in order, whatever they register *)
(* or remove, and whatever they emit, while it goes on.                    *)
(***************************************************************************)
EXTENDS ListenerList

CONSTANTS Emitters, Types

Events == Emitters \X Types

VARIABLES
    listeners,  \* the list of each event
    emits       \* the emits under way, the innermost last: the event, the
                \* listeners it began with and how many it has called

emitterVars == <<listeners, emits>>

EmitterInit ==
    /\ listeners = [e \in Events |-> <<>>]
    /\ emits = <<>>

Registers(e, v) ==
    /\ listeners' = [listeners EXCEPT ![e] = Append(@, v)]
    /\ UNCHANGED emits

Unregisters(e, l) ==
    /\ listeners' = [listeners EXCEPT ![e] = Removed(@, Plain(l))]
    /\ UNCHANGED emits

Clears(E) ==
    /\ listeners' = [e \in Events |-> IF e \in E THEN <<>> ELSE listeners[e]]
    /\ UNCHANGED emits

(* A function is called; a wrapper takes itself out of the list first.     *)
Called(e, v) ==
    listeners' = IF IsOnce(v) THEN [listeners EXCEPT ![e] = Removed(@, v)] ELSE listeners

Begins(e) ==
    /\ listeners[e] # <<>>
    /\ Called(e, listeners[e][1])
    /\ emits' = Append(emits, [event |-> e, list |-> listeners[e], called |-> 1])

Innermost == emits[Len(emits)]
Outer == [k \in 1..(Len(emits) - 1) |-> emits[k]]

Continues ==
    /\ emits # <<>>
    /\ Innermost.called < Len(Innermost.list)
    /\ Called(Innermost.event, Innermost.list[Innermost.called + 1])
    /\ emits' = [emits EXCEPT ![Len(emits)].called = @ + 1]

Finishes ==
    /\ emits # <<>>
    /\ Innermost.called = Len(Innermost.list)
    /\ emits' = Outer
    /\ UNCHANGED listeners

(* A listener throws, and with it the emit that called it.                 *)
Throws ==
    /\ emits # <<>>
    /\ emits' = Outer
    /\ UNCHANGED listeners

EmitterNext ==
    \/ \E e \in Events, v \in Functions : Registers(e, v)
    \/ \E e \in Events, l \in Listeners : Unregisters(e, l)
    \/ \E E \in SUBSET Events : Clears(E)
    \/ \E e \in Events : Begins(e)
    \/ Continues
    \/ Finishes
    \/ Throws

EmitterSpec == EmitterInit /\ [][EmitterNext]_emitterVars
=============================================================================
