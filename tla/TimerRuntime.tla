---------------------------- MODULE TimerRuntime ----------------------------
(***************************************************************************)
(* Timers as the runtime keeps them (SxnTimer, src/network.c), over any    *)
(* loop that honours the contract of include/sxn_loop.h: fire is called    *)
(* for a handle only while it is armed, a one-shot handle is armed until   *)
(* it fires, and timer_stop disarms for good.                              *)
(*                                                                         *)
(* A SxnTimer is freed by sxn_timer_release.  Who calls it depends on      *)
(* whether the timer is cleared from outside, from inside its own          *)
(* callback, or ends by itself after a one-shot fired.                     *)
(***************************************************************************)
EXTENDS Integers

Timer == Nat \ {0}      \* ids: sxn_timer_next_id starts at 1
None == 0               \* no callback is running

VARIABLES
    nextId,     \* sxn_timer_next_id
    active,     \* the list at sxn_timers_head: timers clearTimeout can find
    repeating,  \* timers with repeat set
    running,    \* the timer whose callback runs: its `firing` is 1
    stopped,    \* timers with stopped set
    released,   \* timers sxn_timer_release has freed
    refreed,    \* timers it freed again
    armed       \* the handles the loop may still fire

runtimeVars == <<nextId, active, repeating, running, stopped, released, refreed>>
vars == <<runtimeVars, armed>>

TypeOK ==
    /\ nextId \in Timer
    /\ active \in SUBSET Timer
    /\ repeating \in SUBSET Timer
    /\ running \in Timer \cup {None}
    /\ stopped \in SUBSET Timer
    /\ released \in SUBSET Timer
    /\ refreed \in SUBSET Timer
    /\ armed \in SUBSET Timer

RuntimeInit ==
    /\ nextId = 1
    /\ active = {} /\ repeating = {} /\ stopped = {}
    /\ running = None
    /\ released = {} /\ refreed = {}

Init == RuntimeInit /\ armed = {}

-----------------------------------------------------------------------------
(* What each call does to the runtime's own structures.                     *)

(* sxn_set_timer.                                                           *)
NewStruct(rep) ==
    /\ nextId' = nextId + 1
    /\ active' = active \cup {nextId}
    /\ repeating' = IF rep THEN repeating \cup {nextId} ELSE repeating
    /\ UNCHANGED <<running, stopped, released, refreed>>

(* sxn_timer_release.                                                       *)
Releases(t) ==
    /\ released' = released \cup {t}
    /\ refreed' = refreed \cup (released \cap {t})
ReleasesNone == UNCHANGED <<released, refreed>>

(* sxn_timer_stop, reached from clearTimeout/clearInterval: a timer inside  *)
(* its own callback is only marked.                                         *)
ClearStruct(t) ==
    /\ t \in active
    /\ active' = active \ {t}
    /\ IF running = t
       THEN stopped' = stopped \cup {t} /\ ReleasesNone
       ELSE Releases(t) /\ UNCHANGED stopped
    /\ UNCHANGED <<nextId, repeating, running>>

(* sxn_timer_cb up to JS_Call.                                              *)
EnterCallback(t) ==
    /\ running = None
    /\ running' = t
    /\ UNCHANGED <<nextId, active, repeating, stopped, released, refreed>>

(* The timer is over: it was cleared in its callback, or it was a one-shot. *)
EndsWith(t) == t \in stopped \/ t \notin repeating

(* sxn_timer_cb from JS_Call on, whether the callback returned or threw.    *)
LeaveCallback_StopsAgain ==
    /\ running # None
    /\ active' = IF EndsWith(running) THEN active \ {running} ELSE active
    /\ released' = released \cup (IF EndsWith(running) THEN {running} ELSE {})
    /\ refreed' = IF running \in stopped /\ running \notin repeating
                  THEN refreed \cup {running} ELSE refreed
    /\ running' = None
    /\ UNCHANGED <<nextId, repeating, stopped>>
LeaveCallback ==
    /\ running # None
    /\ active' = IF EndsWith(running) THEN active \ {running} ELSE active
    /\ IF EndsWith(running) THEN Releases(running) ELSE ReleasesNone
    /\ running' = None
    /\ UNCHANGED <<nextId, repeating, stopped>>

-----------------------------------------------------------------------------
(* The same calls with the loop behind them, as its contract has it.        *)

SetTimer(rep) == NewStruct(rep) /\ armed' = armed \cup {nextId}

ClearTimer(t) == ClearStruct(t) /\ armed' = armed \ {t}

Fire(t) ==
    /\ t \in armed
    /\ EnterCallback(t)
    /\ armed' = IF t \in repeating THEN armed ELSE armed \ {t}

Return == LeaveCallback /\ armed' = armed \cap active'

Next ==
    \/ \E rep \in BOOLEAN : SetTimer(rep)
    \/ \E t \in active : ClearTimer(t)
    \/ \E t \in armed : Fire(t)
    \/ Return

Spec == Init /\ [][Next]_vars

-----------------------------------------------------------------------------
(* A SxnTimer is freed once, and exactly when neither the list nor a        *)
(* running callback can still reach it: clearing a timer from inside its    *)
(* own callback neither frees it under sxn_timer_cb nor leaks it.           *)
ReleasedWhenUnreachable ==
    /\ released = {t \in 1..(nextId - 1) : t \notin active /\ running # t}
    /\ refreed = {}

(* The loop never holds a handle for a timer the program has cleared, or a  *)
(* one-shot that has fired: sxn_timer_cb is never entered with a freed      *)
(* SxnTimer.                                                                *)
ArmedIsReachable ==
    /\ armed \subseteq active
    /\ \A t \in active \ armed : running = t /\ t \notin repeating

=============================================================================
