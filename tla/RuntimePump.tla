----------------------------- MODULE RuntimePump -----------------------------
(***************************************************************************)
(* The runtime pump (src/network.c) and the report of rejections nothing   *)
(* handled (src/main.c, src/bootstrap.js).                                 *)
(*                                                                         *)
(* A program runs through three loops: sxn_await_with_loop while its       *)
(* module awaits, js_std_loop, and sxn_run_event_loop, which calls         *)
(* sxn_runtime_tick: jobs, report, poll.  Script code runs inside the      *)
(* module, jobs, the loop's callbacks and event listeners; while it runs   *)
(* the pump stands still.                                                  *)
(***************************************************************************)
EXTENDS Integers, Sequences, SequencesExt, FiniteSetsExt

CONSTANTS
    Promise,        \* promises a script may reject and may handle
    MaxJobs,        \* bound: jobs enqueued in one run
    MaxHandles      \* bound: timers, transfers and sockets opened in one run

ASSUME PumpBoundsAssumption == MaxJobs \in Nat /\ MaxHandles \in Nat

VARIABLES
    stage,      \* "await", "await_poll", "std", "drain", "flush", "poll", "exited", "failed"
    script,     \* what script code runs: "none", "module", "job", "callback", "listener"
    main,       \* the module's promise: "pending", "fulfilled", "rejected"
    jobs,       \* pending jobs
    made,       \* jobs ever enqueued
    handles,    \* what the loop waits for
    opened,     \* handles ever opened
    rejected,   \* rejected promises
    handled,    \* promises with a reaction
    raised,     \* sxn_rejections_pending
    pending,    \* pendingRejections
    reported,   \* reportedRejections
    events      \* the events fired: <<type, promise>>

scriptVars == <<jobs, made, handles, opened, rejected, handled, raised, pending, reported, events>>
pumpVars == <<stage, script, main, scriptVars>>

Pumping == {"await", "await_poll", "std", "drain", "flush", "poll"}

PumpTypeOK ==
    /\ stage \in Pumping \cup {"exited", "failed"}
    /\ script \in {"none", "module", "job", "callback", "listener"}
    /\ main \in {"pending", "fulfilled", "rejected"}
    /\ jobs \in 0..made /\ made \in 0..MaxJobs
    /\ handles \in 0..opened /\ opened \in 0..MaxHandles
    /\ rejected \subseteq Promise /\ handled \subseteq Promise
    /\ raised \in BOOLEAN
    /\ pending \in Seq(Promise) /\ IsInjective(pending)
    /\ reported \subseteq Promise
    /\ events \in Seq({"unhandledrejection", "rejectionhandled"} \X Promise)

PumpInit ==
    /\ stage = "await" /\ script = "module"
    /\ main = "pending"
    /\ jobs = 0 /\ made = 0 /\ handles = 0 /\ opened = 0
    /\ rejected = {} /\ handled = {}
    /\ raised = FALSE
    /\ pending = <<>> /\ reported = {} /\ events = <<>>

-----------------------------------------------------------------------------
(* What script code does.                                                   *)

(* A reaction is a job.                                                     *)
Enqueued(n) ==
    /\ made + n <= MaxJobs
    /\ jobs' = jobs + n /\ made' = made + n

(* sxn_rejection_tracker, is_handled false, with __sxnRejectionRaised.      *)
Raised_OnlyWhenQuiet(p) ==
    /\ raised' = TRUE
    /\ pending' = IF raised THEN pending ELSE Append(pending, p)
Raised_NoFlag(p) ==
    /\ UNCHANGED raised
    /\ pending' = IF p \in ToSet(pending) THEN pending ELSE Append(pending, p)
Raised(p) ==
    /\ raised' = TRUE
    /\ pending' = IF p \in ToSet(pending) THEN pending ELSE Append(pending, p)

(* findIndex and splice.                                                    *)
Without(s, p) ==
    IF p \in ToSet(s) THEN RemoveAt(s, CHOOSE i \in DOMAIN s : s[i] = p) ELSE s

(* sxn_rejection_tracker, is_handled true, with __sxnRejectionHandled.      *)
NowHandled_KeepsReported(p) ==
    /\ pending' = Without(pending, p)
    /\ UNCHANGED reported
    /\ events' = IF p \in reported THEN Append(events, <<"rejectionhandled", p>>) ELSE events
NowHandled(p) ==
    /\ pending' = Without(pending, p)
    /\ reported' = reported \ {p}
    /\ events' = IF p \in reported THEN Append(events, <<"rejectionhandled", p>>) ELSE events

Reject(p) ==
    /\ script # "none"
    /\ p \notin rejected
    /\ rejected' = rejected \cup {p}
    /\ IF p \in handled
       THEN Enqueued(1) /\ UNCHANGED <<raised, pending>>
       ELSE Raised(p) /\ UNCHANGED <<jobs, made>>
    /\ UNCHANGED <<stage, script, main, handles, opened, handled, reported, events>>

Handle(p) ==
    /\ script # "none"
    /\ p \notin handled
    /\ handled' = handled \cup {p}
    /\ IF p \in rejected
       THEN Enqueued(1) /\ NowHandled(p)
       ELSE UNCHANGED <<jobs, made, pending, reported, events>>
    /\ UNCHANGED <<stage, script, main, handles, opened, rejected, raised>>

(* queueMicrotask, or a reaction of some other promise.                     *)
EnqueueJob ==
    /\ script # "none"
    /\ Enqueued(1)
    /\ UNCHANGED <<stage, script, main, handles, opened, rejected, handled, raised,
                   pending, reported, events>>

(* A timer, a transfer, a file read, a server.                              *)
OpenHandle ==
    /\ script # "none"
    /\ opened < MaxHandles
    /\ handles' = handles + 1 /\ opened' = opened + 1
    /\ UNCHANGED <<stage, script, main, jobs, made, rejected, handled, raised, pending,
                   reported, events>>

(* A module that awaits ends in a job that resumes it.                      *)
ModuleSettles ==
    /\ script = "job" /\ main = "pending" /\ stage = "await"
    /\ main' \in {"fulfilled", "rejected"}
    /\ UNCHANGED <<stage, script, scriptVars>>

-----------------------------------------------------------------------------
(* The pump.                                                                *)

(* JS_EvalFunction returns: the module ended, threw or awaits.              *)
ModuleReturns ==
    /\ script = "module"
    /\ script' = "none"
    /\ main' \in {"pending", "fulfilled", "rejected"}
    /\ UNCHANGED <<stage, scriptVars>>

(* A callback reports what it threw; a listener's exception is dropped.     *)
ScriptReturns ==
    /\ script \in {"callback", "listener"}
    /\ script' = "none"
    /\ UNCHANGED <<stage, main, scriptVars>>

(* JS_ExecutePendingJob.                                                    *)
RunJob ==
    /\ script = "none" /\ jobs > 0
    /\ \/ stage = "await" /\ main = "pending"
       \/ stage \in {"std", "drain"}
    /\ script' = "job" /\ jobs' = jobs - 1
    /\ UNCHANGED <<stage, main, made, handles, opened, rejected, handled, raised, pending,
                   reported, events>>

JobReturns ==
    /\ script = "job"
    /\ script' = "none"
    /\ UNCHANGED <<stage, main, scriptVars>>

(* Only a microtask of queueMicrotask throws out of its job: the await loop *)
(* prints it and goes on, the others end the program.                       *)
JobThrows ==
    /\ script = "job"
    /\ script' = "none"
    /\ stage' = IF stage = "await" THEN stage ELSE "failed"
    /\ UNCHANGED <<main, scriptVars>>

(* sxn_await_with_loop: the promise settled, or only the loop can settle it.*)
AwaitEnds ==
    /\ stage = "await" /\ script = "none"
    /\ main # "pending"
    /\ stage' = IF main = "fulfilled" THEN "std" ELSE "failed"
    /\ UNCHANGED <<script, main, scriptVars>>

AwaitPolls ==
    /\ stage = "await" /\ script = "none"
    /\ main = "pending" /\ jobs = 0
    /\ stage' = "await_poll"
    /\ UNCHANGED <<script, main, scriptVars>>

(* The poll made progress, or nothing is left that could settle the promise.*)
AwaitPolled ==
    /\ stage = "await_poll" /\ script = "none"
    /\ stage' = IF handles > 0 \/ jobs > 0 THEN "await" ELSE "std"
    /\ UNCHANGED <<script, main, scriptVars>>

(* js_std_loop, with no handle of quickjs-libc's own.                       *)
StdEnds ==
    /\ stage = "std" /\ script = "none" /\ jobs = 0
    /\ stage' = "drain"
    /\ UNCHANGED <<script, main, scriptVars>>

(* sxn_runtime_tick after its last job: into sxn_flush_rejections.          *)
DrainEnds ==
    /\ stage = "drain" /\ script = "none" /\ jobs = 0
    /\ stage' = IF raised THEN "flush" ELSE "poll"
    /\ raised' = FALSE
    /\ UNCHANGED <<script, main, jobs, made, handles, opened, rejected, handled, pending,
                   reported, events>>

(* __sxnFlushRejections reports one rejection.                              *)
ReportOne ==
    /\ stage = "flush" /\ script = "none"
    /\ pending # <<>>
    /\ pending' = Tail(pending)
    /\ reported' = reported \cup {Head(pending)}
    /\ events' = Append(events, <<"unhandledrejection", Head(pending)>>)
    /\ script' = "listener"
    /\ UNCHANGED <<stage, main, jobs, made, handles, opened, rejected, handled, raised>>

FlushEnds_AfterOne ==
    /\ stage = "flush" /\ script = "none"
    /\ stage' = "poll"
    /\ UNCHANGED <<script, main, scriptVars>>
FlushEnds ==
    /\ stage = "flush" /\ script = "none"
    /\ pending = <<>>
    /\ stage' = "poll"
    /\ UNCHANGED <<script, main, scriptVars>>

(* sxn_loop_poll calls back into a script; the handle may be done with.     *)
Callback ==
    /\ stage \in {"poll", "await_poll"} /\ script = "none"
    /\ handles > 0
    /\ \E done \in BOOLEAN : handles' = IF done THEN handles - 1 ELSE handles
    /\ script' = "callback"
    /\ UNCHANGED <<stage, main, jobs, made, opened, rejected, handled, raised, pending,
                   reported, events>>

(* sxn_runtime_tick returns: another turn, or the program is over.          *)
Polled ==
    /\ stage = "poll" /\ script = "none"
    /\ stage' = IF handles > 0 \/ jobs > 0 THEN "drain" ELSE "exited"
    /\ UNCHANGED <<script, main, scriptVars>>

PumpNext ==
    \/ \E p \in Promise : Reject(p) \/ Handle(p)
    \/ EnqueueJob \/ OpenHandle \/ ModuleSettles
    \/ ModuleReturns \/ ScriptReturns \/ RunJob \/ JobReturns \/ JobThrows
    \/ AwaitEnds \/ AwaitPolls \/ AwaitPolled \/ StdEnds
    \/ DrainEnds \/ ReportOne \/ FlushEnds \/ Callback \/ Polled

PumpSpec == PumpInit /\ [][PumpNext]_pumpVars

(* Script code returns and the pump's own steps are taken; that the loop    *)
(* has anything to call back for is not assumed.                            *)
FairPumpSpec ==
    /\ PumpSpec
    /\ WF_pumpVars(ScriptReturns) /\ WF_pumpVars(RunJob) /\ WF_pumpVars(JobReturns)
    /\ WF_pumpVars(AwaitEnds) /\ WF_pumpVars(StdEnds)
    /\ WF_pumpVars(DrainEnds) /\ WF_pumpVars(ReportOne) /\ WF_pumpVars(FlushEnds)

-----------------------------------------------------------------------------
Unhandled == rejected \ handled
Waiting == ToSet(pending)

(* Every rejection nothing handles is on exactly one of the two lists, and  *)
(* one that was handled is on neither: none is lost, whichever of reject,   *)
(* handle and report comes first and whoever does it.                       *)
EachOnOneList ==
    /\ Unhandled = Waiting \cup reported
    /\ Waiting \cap reported = {}

(* The two lists of the report stay right through jobs, callbacks, the      *)
(* await of a module and the listeners of the report itself.                *)
RejectionsKept == PumpTypeOK /\ EachOnOneList

(* The flag the loop compares never hides a rejection that is due.          *)
FlagCoversPending == pending # <<>> => raised \/ stage = "flush"

(* "reported once ...; if something handles it later, rejectionhandled      *)
(* follows": each promise gets the first event at most once, the second     *)
(* only after it, and just when it was handled too late.                    *)
Fired(type, p) == {i \in DOMAIN events : events[i] = <<type, p>>}
StoryOf(p) ==
    LET told == Fired("unhandledrejection", p)
        eased == Fired("rejectionhandled", p)
    IN  /\ \A i, j \in told : i = j
        /\ \A i, j \in eased : i = j
        /\ \A i \in told, j \in eased : i < j
        /\ told # {} <=> p \in reported \/ eased # {}
        /\ eased # {} => p \in handled \ reported
EventsTellTheStory == \A p \in Promise : StoryOf(p)

(* The runtime never begins to wait for the loop with a rejection it has    *)
(* not reported, once the module has ended.                                 *)
ReportsBeforeWaiting ==
    [][stage # "poll" /\ stage' = "poll" => pending' = <<>>]_pumpVars

(* Once the module has ended and until the program waits again, a rejection *)
(* is reported or handled in finite time, whatever jobs do meanwhile.       *)
ReportedInTime ==
    \A p \in Promise :
        (p \in Unhandled /\ stage \in {"std", "drain", "flush"}) ~>
            (p \in reported \cup handled \/ stage = "failed")

(* "A promise rejection nothing handled is reported once every job that     *)
(* could still have handled it has run": none is left when the program ends.*)
AllReportedAtExit == stage = "exited" => Unhandled \subseteq reported

=============================================================================
