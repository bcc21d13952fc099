----------------------------- MODULE BuiltinLoop -----------------------------
(***************************************************************************)
(* The loop backend with no libuv in it (src/loop_builtin.c), driving the  *)
(* timers of TimerRuntime: the delay-sorted list, the walk that fires what *)
(* is due, and what a callback may do to the list meanwhile.               *)
(*                                                                         *)
(* Time is the time a record has left; it may pass between any two steps,  *)
(* so a callback may take as long as it likes.                             *)
(***************************************************************************)
EXTENDS Integers, Sequences, SequencesExt, FiniteSetsExt

CONSTANTS
    MaxTimers,      \* bound: timers set in one run
    MaxDelay        \* bound: delays; bootstrap.js never asks for less than 1 ms

ASSUME BoundsAssumption == MaxTimers \in Nat /\ MaxDelay \in Nat \ {0}

Timer == 1..MaxTimers
None == 0

VARIABLES nextId, active, repeating, running, stopped, released, refreed
runtimeVars == <<nextId, active, repeating, running, stopped, released, refreed>>

VARIABLES
    delay,      \* the delay each timer was set with: period_ns of a repeating one
    queue,      \* the list at sxn_bt_head
    left,       \* due_ns - now; 0 is due
    dead,       \* records with `dead` set
    allocated,  \* records not freed yet
    phase,      \* "script", "walking" (sxn_bt_walking) or "exited"
    fired       \* one-shot timers whose callback has been entered

loopVars == <<delay, queue, left, dead, allocated, phase, fired>>
vars == <<runtimeVars, loopVars>>

(* Handles that may still fire: a one-shot leaves the list when it fires.   *)
Live == ToSet(queue) \ dead

Runtime == INSTANCE TimerRuntime WITH armed <- Live

TypeOK ==
    /\ Runtime!TypeOK
    /\ delay \in [Timer -> 0..MaxDelay]
    /\ queue \in Seq(Timer) /\ IsInjective(queue)
    /\ left \in [Timer -> 0..MaxDelay]
    /\ dead \subseteq Timer /\ allocated \subseteq Timer
    /\ phase \in {"script", "walking", "exited"}
    /\ fired \subseteq Timer \ repeating

Init ==
    /\ Runtime!RuntimeInit
    /\ delay = [t \in Timer |-> 0]
    /\ queue = <<>>
    /\ left = [t \in Timer |-> 0]
    /\ dead = {} /\ allocated = {}
    /\ phase = "script"
    /\ fired = {}

-----------------------------------------------------------------------------
(* sxn_bt_insert: before the first record that is due later.                *)
Inserted(q, lf, t) ==
    LET later == {i \in DOMAIN q : lf[q[i]] > lf[t]}
    IN  InsertAt(q, IF later = {} THEN Len(q) + 1 ELSE Min(later), t)

(* sxn_bt_unlink.                                                           *)
Unlinked(t) ==
    LET at == {i \in DOMAIN queue : queue[i] = t}
    IN  IF at = {} THEN queue ELSE RemoveAt(queue, CHOOSE i \in at : TRUE)

(* The first record that is not dead, as the walk sees the list.            *)
Heads == {i \in DOMAIN queue : queue[i] \notin dead /\ \A j \in 1..(i-1) : queue[j] \in dead}
Due == {queue[i] : i \in Heads} \cap {t \in Timer : left[t] = 0}

(* sxn_builtin_timer_stop.                                                  *)
BackendStop_Deaf(t) ==
    /\ UNCHANGED dead
    /\ IF phase = "walking"
       THEN UNCHANGED <<queue, allocated>>
       ELSE queue' = Unlinked(t) /\ allocated' = allocated \ {t}
BackendStop(t) ==
    /\ dead' = dead \cup {t}
    /\ IF phase = "walking"
       THEN UNCHANGED <<queue, allocated>>
       ELSE queue' = Unlinked(t) /\ allocated' = allocated \ {t}

(* Scripts run between polls and inside the callback a poll is making.      *)
ScriptRuns == phase = "script" \/ running # None

-----------------------------------------------------------------------------
(* setTimeout/setInterval, down to sxn_builtin_timer_start.                 *)
SetTimer(rep, d) ==
    /\ ScriptRuns
    /\ nextId <= MaxTimers
    /\ Runtime!NewStruct(rep)
    /\ delay' = [delay EXCEPT ![nextId] = d]
    /\ left' = [left EXCEPT ![nextId] = d]
    /\ queue' = Inserted(queue, left', nextId)
    /\ allocated' = allocated \cup {nextId}
    /\ UNCHANGED <<dead, phase, fired>>

(* clearTimeout/clearInterval; an id that is not in the list is ignored.    *)
ClearTimer(t) ==
    /\ ScriptRuns
    /\ Runtime!ClearStruct(t)
    /\ BackendStop(t)
    /\ UNCHANGED <<delay, left, phase, fired>>

(* sxn_builtin_poll begins its walk.                                        *)
PollBegin ==
    /\ phase = "script"
    /\ phase' = "walking"
    /\ UNCHANGED <<runtimeVars, delay, queue, left, dead, allocated, fired>>

(* "Re-arm from now, not from the deadline".                                *)
Relinked_Forgets(t) == queue' = Unlinked(t) /\ UNCHANGED left
Relinked(t) ==
    /\ left' = [left EXCEPT ![t] = delay[t]]
    /\ queue' = Inserted(Unlinked(t), left', t)

(* One turn of the walk: unlink, re-arm, call fire.                         *)
FireNext ==
    /\ phase = "walking"
    /\ \E t \in Due :
        /\ Runtime!EnterCallback(t)
        /\ IF t \in repeating
           THEN Relinked(t) /\ UNCHANGED fired
           ELSE /\ queue' = Unlinked(t)
                /\ fired' = fired \cup {t}
                /\ UNCHANGED left
    /\ UNCHANGED <<delay, dead, allocated, phase>>

(* The callback returns; a one-shot timer stops itself, which marks its     *)
(* record dead, and the walk frees a one-shot record that is not.           *)
Return ==
    /\ phase = "walking"
    /\ Runtime!LeaveCallback
    /\ IF running \in active /\ running \notin repeating
       THEN BackendStop(running)
       ELSE UNCHANGED <<dead, queue, allocated>>
    /\ UNCHANGED <<delay, left, phase, fired>>

(* sxn_bt_reap: the records that are not dead stay, in the order they had.  *)
Reap ==
    /\ LET alive == {i \in DOMAIN queue : queue[i] \notin dead}
       IN  \E n \in 0..Len(queue) : \E at \in [1..n -> alive] :
               /\ \A i \in alive : \E k \in 1..n : at[k] = i
               /\ \A k, l \in 1..n : k < l => at[k] < at[l]
               /\ queue' = [k \in 1..n |-> queue[at[k]]]
    /\ allocated' = allocated \ (ToSet(queue) \cap dead)

(* Nothing more is due: the walk ends, the dead records go, and the program *)
(* is over unless a timer or a transfer is left.                            *)
PollEnd ==
    /\ phase = "walking" /\ running = None
    /\ Due = {}
    /\ Reap
    /\ \E transfers \in BOOLEAN :
        phase' = IF Live # {} \/ transfers THEN "script" ELSE "exited"
    /\ UNCHANGED <<runtimeVars, delay, left, dead, fired>>

Tick ==
    /\ phase # "exited"
    /\ \E t \in Live : left[t] > 0
    /\ left' = [t \in Timer |-> IF left[t] > 0 THEN left[t] - 1 ELSE 0]
    /\ UNCHANGED <<runtimeVars, delay, queue, dead, allocated, phase, fired>>

Next ==
    \/ \E rep \in BOOLEAN, d \in 1..MaxDelay : SetTimer(rep, d)
    \/ \E t \in Timer : ClearTimer(t)
    \/ PollBegin \/ FireNext \/ Return \/ PollEnd \/ Tick

Spec == Init /\ [][Next]_vars

(* Time passes, callbacks return and the loop keeps turning.                *)
FairSpec ==
    /\ Spec
    /\ WF_vars(Tick) /\ WF_vars(Return) /\ WF_vars(FireNext)
    /\ WF_vars(PollBegin) /\ WF_vars(PollEnd)

-----------------------------------------------------------------------------
(* The guarantees of TimerRuntime, checked here with this loop behind it.   *)
(* A SxnTimer is freed once and when nothing reaches it any more; the loop  *)
(* fires no handle of a timer that was cleared or that has fired.           *)
ReleasedWhenUnreachable == Runtime!ReleasedWhenUnreachable

(* This loop keeps the contract of sxn_loop.h, so what TimerRuntime proves  *)
(* holds with it: in particular a handle never fires once it is stopped.    *)
KeepsContract == Runtime!Spec

(* A one-shot fires after every one-shot set before it with no longer a     *)
(* delay, unless that one was cleared.                                      *)
SetOrderKept ==
    \A s, t \in Timer \ repeating :
        (s < t /\ delay[s] <= delay[t] /\ t \in fired) => s \in fired \/ s \notin active

(* Between polls the list holds the records of the timers the program still *)
(* has and no others, each allocated: the loop neither exits with a timer   *)
(* pending nor stays alive for one that is gone, and no handle dangles.     *)
LoopKnowsTimers ==
    /\ active \subseteq allocated
    /\ phase # "walking" => ToSet(queue) = active
    /\ phase = "exited" => active = {}

(* Whatever callbacks set, clear and re-arm while the walk is in the list:  *)
(* order, the list's records and the SxnTimers behind them stay right.      *)
TimersKept == TypeOK /\ SetOrderKept /\ LoopKnowsTimers /\ ReleasedWhenUnreachable

(* A timer that is set fires or is cleared, however often others fire.      *)
EveryTimerFires == \A t \in Timer : t \in active ~> (running = t \/ t \notin active)

=============================================================================
