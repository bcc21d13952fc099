----------------------------- MODULE MessagePort -----------------------------
(***************************************************************************)
(* MessageChannel and MessagePort (src/bootstrap.js): one port posts, the  *)
(* other delivers in a microtask, to its onmessage handler and then to the *)
(* listeners of the EventTarget it is.                                     *)
(***************************************************************************)
EXTENDS EventTarget

CONSTANT MaxMessages  \* bound: messages posted

ASSUME PortAssumption == MaxMessages \in Nat

VARIABLES
    port,   \* the receiving port: started, with a handler, and its _pending
    jobs,   \* deliveries queued as microtasks
    mail,   \* posted: how many; heard: in which order; early: see SetsHandler
    delivery \* a deliver job is "running" or not ("none"); or the loop has "ended"

portVars == <<port, jobs, mail>>
vars == <<targetVars, portVars, delivery>>

Init ==
    /\ TargetInit
    /\ port = [linked |-> TRUE, started |-> FALSE, handler |-> FALSE, pending |-> <<>>]
    /\ jobs = <<>>
    /\ mail = [posted |-> 0, heard |-> <<>>, early |-> FALSE]
    /\ delivery = "none"

(* postMessage: a port that is not started keeps the message.              *)
Delivers_ByHandler == port.handler
Delivers == port.started \/ port.handler
Posts ==
    /\ Does("post") /\ port.linked /\ mail.posted < MaxMessages
    /\ LET m == mail.posted + 1
       IN  /\ jobs' = IF Delivers THEN Append(jobs, m) ELSE jobs
           /\ port' = IF Delivers THEN port ELSE [port EXCEPT !.pending = Append(@, m)]
           /\ mail' = [mail EXCEPT !.posted = m]
    /\ UNCHANGED targetVars

Flushed_Reversed == Reverse(port.pending)
Flushed == port.pending
Starts ==
    /\ Does("post") /\ ~port.started
    /\ port' = [port EXCEPT !.started = TRUE, !.pending = <<>>]
    /\ jobs' = jobs \o Flushed
    /\ UNCHANGED <<targetVars, mail>>

(* onmessage = f does not start the port: what it keeps may be overtaken.  *)
SetsHandler(on) ==
    /\ Does("handler") /\ port.handler # on
    /\ port' = [port EXCEPT !.handler = on]
    /\ mail' = [mail EXCEPT !.early = @ \/ (on /\ ~port.started /\ port.pending # <<>>)]
    /\ UNCHANGED <<targetVars, jobs>>

(* close() of the port that posts.                                         *)
Closes ==
    /\ Does("close") /\ port.linked
    /\ port' = [port EXCEPT !.linked = FALSE]
    /\ UNCHANGED <<targetVars, jobs, mail>>

(* deliver, a microtask: the handler, then dispatchEvent, which is left out *)
(* if the handler throws.  The data is what structuredClone can copy.      *)
Deliver ==
    /\ stack = <<>> /\ jobs # <<>>
    /\ jobs' = Tail(jobs)
    /\ mail' = [mail EXCEPT !.heard = Append(@, Head(jobs))]
    /\ stack' = <<IF port.handler THEN [Walk("handler", <<>>) EXCEPT !.calling = TRUE] ELSE Walk("target", <<>>)>>
    /\ delivery' = "running"
    /\ UNCHANGED <<script, entries, subs, aborted, waiter, log, port>>

HandlerReturns ==
    /\ stack # <<>> /\ Top.calling /\ Top.over = "handler"
    /\ stack' = OnTop(Walk("target", <<>>))
    /\ UNCHANGED <<script, entries, subs, aborted, waiter, log, portVars, delivery>>

(* The job is over when its call is.  One that throws (a listener does and  *)
(* nothing is left to catch it) ends the event loop, or is dropped while    *)
(* the main module is awaited.                                              *)
DeliveryGoes ==
    LET over == delivery = "running" /\ stack' = <<>>
        after == IF Top.calling THEN {"none", "ended"} ELSE {"none"}
    IN  delivery' \in IF over THEN after ELSE {delivery}

Runs(step) == delivery # "ended" /\ step /\ DeliveryGoes /\ UNCHANGED portVars

PortScript ==
    /\ Posts \/ Starts \/ Closes \/ \E on \in BOOLEAN : SetsHandler(on)
    /\ delivery # "ended" /\ UNCHANGED delivery

Next == Runs(TargetNext) \/ (delivery # "ended" /\ Deliver) \/ HandlerReturns \/ PortScript

(* The engine runs code and jobs; a listener returns or throws.            *)
Spec ==
    /\ Init /\ [][Next]_vars
    /\ WF_vars(Runs(TargetCode)) /\ WF_vars(delivery # "ended" /\ Deliver)
    /\ WF_vars(Runs(ListenerReturns)) /\ WF_vars(HandlerReturns)
-----------------------------------------------------------------------------
(* Messages are delivered in the order they were posted, each once, from   *)
(* before the port was started to after -- unless onmessage was set on a   *)
(* port that kept messages.                                                *)
MessagesInOrder ==
    ~mail.early => mail.heard \o jobs \o port.pending = [i \in 1..mail.posted |-> i]

(* And a port that was started keeps nothing, whoever starts, closes, sets *)
(* a handler or posts from a listener.                                     *)
MailInOrder == MessagesInOrder /\ (port.started => port.pending = <<>>)

(* Every message posted to a started port or to a handler, and every one a *)
(* port kept until it was started, is delivered, whatever the listeners of *)
(* another add, remove or post, unless a delivery before it threw and took *)
(* the loop with it.  A port nobody starts keeps its messages for ever.    *)
EveryMessageHeard ==
    \A m \in 1..MaxMessages :
        mail.posted >= m /\ (m \in ToSet(port.pending) => port.started)
            ~> m \in ToSet(mail.heard) \/ delivery = "ended"
=============================================================================
