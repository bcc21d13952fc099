----------------------------- MODULE EventTarget -----------------------------
(***************************************************************************)
(* EventTarget and AbortSignal (src/bootstrap.js), with the promise of     *)
(* events.once and the channels of diagnostics_channel                     *)
(* (src/node_compat.js).                                                   *)
(*                                                                         *)
(* A target walks its list live, by index; an AbortSignal and a Channel    *)
(* walk a copy and swallow what their listeners throw.  A listener is the  *)
(* script's: it adds, removes, dispatches, publishes, aborts, returns or   *)
(* throws.  "stack" has the walks under way, the innermost last.           *)
(***************************************************************************)
EXTENDS Integers, Sequences, SequencesExt

CONSTANTS
    Callbacks,    \* functions a script registers
    Scripts,      \* the scripts explored: sets of operations
    MaxListeners, \* bound: registrations made by the script
    MaxWalks      \* bound: dispatches and publications

Operations == {"add", "once", "cut", "remove", "dispatch", "stop", "throw", "signal", "channel", "publish",
               "abort", "wait", "emit", "post", "handler", "close"}

ASSUME TargetAssumption == MaxListeners \in Nat /\ MaxWalks \in Nat /\ Scripts \subseteq SUBSET Operations

VARIABLES
    script,   \* what the script does
    entries,  \* the target's list: who is called, whether once, by which signal
    subs,     \* the lists of the AbortSignal and of the Channel
    aborted,
    waiter,   \* the promise of events.once and what it has registered
    stack,
    log       \* registrations, walks, and who was called how often

targetVars == <<script, entries, subs, aborted, waiter, stack, log>>

Lists == {"signal", "channel"}
Walks == {"target"} \cup Lists
Walk(over, list) ==
    [over |-> over, list |-> list, at |-> 1, calling |-> FALSE, stop |-> FALSE, seen |-> <<>>, cut |-> FALSE]

TargetInit ==
    /\ script \in Scripts
    /\ entries = <<>>
    /\ subs = [l \in Lists |-> <<>>]
    /\ aborted = FALSE
    /\ waiter = [state |-> "idle", on |-> {}]
    /\ stack = <<>>
    /\ log = [made |-> 0, walks |-> 0, once |-> {}, calls |-> [n \in 1..MaxListeners |-> 0]]

Top == stack[Len(stack)]
OnTop(w) == [stack EXCEPT ![Len(stack)] = w]
ScriptRuns == stack # <<>> => Top.calling
Does(operation) == operation \in script /\ ScriptRuns
Walking(over) == stack # <<>> /\ Top.over = over /\ ~Top.calling

(* A walk that has passed entry i skips one when i goes: it is marked.     *)
CutAt(frames, i) ==
    [k \in DOMAIN frames |->
        IF frames[k].over = "target" /\ i < frames[k].at THEN [frames[k] EXCEPT !.cut = TRUE] ELSE frames[k]]
At(n) == {i \in DOMAIN entries : entries[i].n = n}

-----------------------------------------------------------------------------
(* addEventListener: a duplicate, or a signal that is aborted, is ignored. *)
Adds(fn, once, withSignal) ==
    /\ Does("add") /\ log.made < MaxListeners
    /\ (once => Does("once")) /\ (withSignal => Does("cut"))
    /\ \A i \in DOMAIN entries : entries[i].fn # fn
    /\ ~(withSignal /\ aborted)
    /\ LET n == log.made + 1
       IN  /\ entries' = Append(entries, [fn |-> fn, once |-> once, cut |-> withSignal, n |-> n])
           /\ subs' = IF withSignal THEN [subs EXCEPT !["signal"] = Append(@, [do |-> "remove", n |-> n])] ELSE subs
           /\ log' = [log EXCEPT !.made = n, !.once = IF once THEN @ \cup {n} ELSE @]
    /\ UNCHANGED <<script, aborted, waiter, stack>>

Removes(fn) ==
    /\ Does("remove")
    /\ \E i \in DOMAIN entries :
           /\ entries[i].fn = fn
           /\ entries' = RemoveAt(entries, i)
           /\ stack' = CutAt(stack, i)
    /\ UNCHANGED <<script, subs, aborted, waiter, log>>

MayWalk == log.walks < MaxWalks
Counted == [log EXCEPT !.walks = @ + 1]

Dispatches ==
    /\ Does("dispatch") /\ MayWalk
    /\ stack' = Append(stack, Walk("target", <<>>))
    /\ log' = Counted
    /\ UNCHANGED <<script, entries, subs, aborted, waiter>>

(* One turn of the loop of dispatchEvent: a once entry goes before it is   *)
(* called, and the index stays.                                            *)
After_Always(once, i) == i + 1
After(once, i) == IF once THEN i ELSE i + 1
Kept(e, i) == IF e.once THEN RemoveAt(entries, i) ELSE entries
AtEnd == Top.at > Len(entries)

CallsListener ==
    /\ Walking("target") /\ ~Top.stop /\ ~AtEnd
    /\ LET e == entries[Top.at]
       IN  /\ entries' = Kept(e, Top.at)
           /\ stack' = OnTop([Top EXCEPT !.at = After(e.once, Top.at), !.calling = TRUE,
                                         !.seen = Append(@, e.n)])
           /\ log' = [log EXCEPT !.calls[e.n] = @ + 1]
    /\ UNCHANGED <<script, subs, aborted, waiter>>

DispatchEnds ==
    /\ Walking("target") /\ (~Top.stop => AtEnd)
    /\ stack' = Front(stack)
    /\ UNCHANGED <<script, entries, subs, aborted, waiter, log>>

(* stopImmediatePropagation by the listener that runs.                     *)
Stops ==
    /\ stack # <<>> /\ Does("stop") /\ Top.over = "target" /\ ~Top.stop
    /\ stack' = OnTop([Top EXCEPT !.stop = TRUE])
    /\ UNCHANGED <<script, entries, subs, aborted, waiter, log>>

Returned == OnTop([Top EXCEPT !.calling = FALSE])

ListenerReturns ==
    /\ stack # <<>> /\ Top.calling /\ Top.over \in Walks
    /\ stack' = Returned
    /\ UNCHANGED <<script, entries, subs, aborted, waiter, log>>

(* A listener throws: dispatchEvent is left, where its caller may catch    *)
(* it or throw on; a signal and a channel go on with the next one.         *)
Thrown(w) == IF w.over \in Lists THEN Returned ELSE Front(stack)

ListenerThrows ==
    /\ stack # <<>> /\ Does("throw")
    /\ stack' = Thrown(Top)
    /\ UNCHANGED <<script, entries, subs, aborted, waiter, log>>

-----------------------------------------------------------------------------
(* Listeners of the signal and subscribers of the channel, by the script.  *)
Subscribes(list) ==
    /\ Does(list) /\ log.made < MaxListeners
    /\ subs' = [subs EXCEPT ![list] = Append(@, [do |-> "script", n |-> log.made + 1])]
    /\ log' = [log EXCEPT !.made = @ + 1]
    /\ UNCHANGED <<script, entries, aborted, waiter, stack>>

Unsubscribes(list) ==
    /\ Does("remove")
    /\ \E i \in DOMAIN subs[list] :
           subs[list][i].do = "script" /\ subs' = [subs EXCEPT ![list] = RemoveAt(@, i)]
    /\ UNCHANGED <<script, entries, aborted, waiter, stack, log>>

Publishes ==
    /\ Does("publish") /\ MayWalk
    /\ stack' = Append(stack, Walk("channel", subs["channel"]))
    /\ log' = Counted
    /\ UNCHANGED <<script, entries, subs, aborted, waiter>>

(* _doAbort, once.                                                         *)
Aborts ==
    /\ Does("abort") /\ ~aborted
    /\ aborted' = TRUE
    /\ stack' = Append(stack, Walk("signal", subs["signal"]))
    /\ UNCHANGED <<script, entries, subs, waiter, log>>

(* cleanup() of events.once, then resolve or reject: the first one counts. *)
Unwatched(list) ==
    LET at == {i \in DOMAIN list : list[i].do = "settle"}
    IN  IF at = {} THEN list ELSE RemoveAt(list, CHOOSE i \in at : TRUE)
CleanedUp_KeepsOther(how) ==
    /\ waiter' = [state |-> IF waiter.state = "waiting" THEN how ELSE waiter.state,
                  on |-> IF how = "resolved" THEN waiter.on \ {"event"} ELSE {}]
    /\ subs' = [subs EXCEPT !["signal"] = Unwatched(@)]
CleanedUp(how) ==
    /\ waiter' = [state |-> IF waiter.state = "waiting" THEN how ELSE waiter.state, on |-> {}]
    /\ subs' = [subs EXCEPT !["signal"] = Unwatched(@)]

(* One turn of the loop over the copy: the listener of an entry's signal   *)
(* takes the entry off, that of events.once rejects, or the script runs.   *)
CallsSubscriber ==
    /\ \E l \in Lists : Walking(l)
    /\ Top.at <= Len(Top.list)
    /\ LET s == Top.list[Top.at]
           next == [Top EXCEPT !.at = @ + 1, !.calling = s.do = "script"]
       IN  /\ IF s.do = "remove" /\ At(s.n) # {}
              THEN \E i \in At(s.n) : entries' = RemoveAt(entries, i) /\ stack' = CutAt(OnTop(next), i)
              ELSE entries' = entries /\ stack' = OnTop(next)
           /\ IF s.do = "settle" THEN CleanedUp("rejected") ELSE UNCHANGED <<waiter, subs>>
    /\ UNCHANGED <<script, aborted, log>>

WalkEnds ==
    /\ \E l \in Lists : Walking(l)
    /\ Top.at > Len(Top.list)
    /\ stack' = Front(stack)
    /\ UNCHANGED <<script, entries, subs, aborted, waiter, log>>

-----------------------------------------------------------------------------
(* events.once(emitter, name, {signal}), and the emitter's two events.     *)
Waits ==
    /\ Does("wait") /\ waiter.state = "idle"
    /\ IF aborted
       THEN waiter' = [state |-> "rejected", on |-> {}] /\ UNCHANGED subs
       ELSE /\ waiter' = [state |-> "waiting", on |-> {"event", "error"}]
            /\ subs' = [subs EXCEPT !["signal"] = Append(@, [do |-> "settle", n |-> 0])]
    /\ UNCHANGED <<script, entries, aborted, stack, log>>

EmitterEmits(event) ==
    /\ Does("emit") /\ event \in waiter.on
    /\ CleanedUp(IF event = "event" THEN "resolved" ELSE "rejected")
    /\ UNCHANGED <<script, entries, aborted, stack, log>>

TargetCode == CallsListener \/ DispatchEnds \/ CallsSubscriber \/ WalkEnds
TargetScript ==
    \/ \E fn \in Callbacks : Removes(fn) \/ \E once, withSignal \in BOOLEAN : Adds(fn, once, withSignal)
    \/ Dispatches \/ Stops \/ ListenerThrows
    \/ \E l \in Lists : Subscribes(l) \/ Unsubscribes(l)
    \/ Publishes \/ Aborts \/ Waits
    \/ \E event \in {"event", "error"} : EmitterEmits(event)
TargetNext == TargetCode \/ TargetScript \/ ListenerReturns

-----------------------------------------------------------------------------
(* A once listener is called once at most, however its target is           *)
(* dispatched to from inside its listeners.                                *)
OnceIsOnce == \A n \in log.once : log.calls[n] <= 1

(* A dispatch that comes to its end has called every listener on the list, *)
(* once and no other twice, those added meanwhile too -- unless a listener *)
(* it had called was taken off under it.                                   *)
DispatchReachesAll ==
    /\ \A k \in DOMAIN stack : IsInjective(stack[k].seen)
    /\ Walking("target") /\ AtEnd /\ ~Top.stop /\ ~Top.cut =>
           \A i \in DOMAIN entries : entries[i].n \in ToSet(Top.seen)

(* Each registration is what the code makes of it, no function is on the   *)
(* list twice, and walks are inside each other.                            *)
TypeOK ==
    /\ \A i \in DOMAIN entries :
           entries[i] \in [fn : Callbacks, once : BOOLEAN, cut : BOOLEAN, n : 1..log.made]
    /\ \A i, j \in DOMAIN entries : entries[i].fn = entries[j].fn => i = j
    /\ \A k \in DOMAIN stack : k < Len(stack) => stack[k].calling
    /\ waiter \in [state : {"idle", "waiting", "resolved", "rejected"}, on : SUBSET {"event", "error"}]

(* All three, through adding, removing and dispatching inside listeners.   *)
EachIsCalled == TypeOK /\ OnceIsOnce /\ DispatchReachesAll

(* An abort that is over has done all it was for: no listener registered   *)
(* with the signal is on the list, and events.once waits for nothing; one  *)
(* that has settled has left no listener behind, on emitter or signal.     *)
AbortIsComplete ==
    /\ aborted /\ (\A k \in DOMAIN stack : stack[k].over # "signal") =>
           /\ \A i \in DOMAIN entries : ~entries[i].cut
           /\ waiter.state # "waiting"
    /\ waiter.state # "waiting" =>
           waiter.on = {} /\ \A i \in DOMAIN subs["signal"] : subs["signal"][i].do # "settle"
=============================================================================
