--------------------------- MODULE Delivery_proofs ---------------------------
(***************************************************************************)
(* Messages of a port are heard in the order they were posted; a dispatch  *)
(* calls the listeners on its list; an abort does all it was for: for any  *)
(* number of messages, listeners and walks, and any script.  And the calls *)
(* of a thread-safe function: none is lost or overtaken, and its memory is *)
(* freed when nobody can reach it, for any finite set of threads, any      *)
(* queue limits and any number of calls.                                   *)
(***************************************************************************)
EXTENDS MessagePort, ThreadsafeFunction, FiniteSetTheorems, SequenceTheorems, TLAPS

Shape ==
    /\ port \in [linked : BOOLEAN, started : BOOLEAN, handler : BOOLEAN, pending : Seq(Nat)]
    /\ jobs \in Seq(Nat)
    /\ mail \in [posted : Nat, heard : Seq(Nat), early : BOOLEAN]

(* A handler that was set in time finds nothing kept back.                 *)
HandlerOK == ~mail.early /\ port.handler => port.pending = <<>>

IInv == Shape /\ HandlerOK /\ MailInOrder

Posted(n) == [i \in 1..n |-> i]

LEMMA OneMore == ASSUME NEW n \in Nat PROVE Posted(n + 1) = Append(Posted(n), n + 1)
BY DEF Posted

(* Facts of the library, at the sequences met here.                        *)
LEMMA Moves ==
    /\ \A s, t \in Seq(Nat) : s \o t \in Seq(Nat)
    /\ \A s \in Seq(Nat) : s \o <<>> = s
    /\ \A s, t, u \in Seq(Nat) : (s \o t) \o u = s \o (t \o u)
BY ConcatProperties, ConcatEmptySeq, ConcatAssociative

LEMMA Ends == \A s \in Seq(Nat), e \in Nat : Append(s, e) = s \o <<e>> /\ <<e>> \in Seq(Nat)
BY AppendIsConcat

LEMMA AppendMoves ==
    ASSUME NEW s \in Seq(Nat), NEW t \in Seq(Nat), NEW e \in Nat
    PROVE  s \o Append(t, e) = Append(s \o t, e)
<1>1. s \o t \in Seq(Nat) /\ Append(t, e) = t \o <<e>> /\ <<e>> \in Seq(Nat)
    BY Moves, Ends
<1>2. Append(s \o t, e) = (s \o t) \o <<e>>
    BY <1>1, Ends
<1>3. (s \o t) \o <<e>> = s \o (t \o <<e>>)
    BY <1>1, Moves
<1> QED BY <1>1, <1>2, <1>3

LEMMA PendingMoves ==
    ASSUME NEW s \in Seq(Nat), NEW t \in Seq(Nat), NEW u \in Seq(Nat)
    PROVE  s \o (t \o u) \o <<>> = s \o t \o u
<1> DEFINE w == s \o (t \o u)
<1>1. w \in Seq(Nat) /\ w = (s \o t) \o u
    BY Moves
<1> HIDE DEF w
<1>2. w \o <<>> = w
    BY <1>1, Moves, Zenon
<1> QED BY <1>1, <1>2 DEF w

LEMMA NothingPending ==
    ASSUME NEW s \in Seq(Nat), NEW u, u = <<>> PROVE s \o u = s
BY Moves

(* The first job moves to the end of what was heard.                       *)
LEMMA HeadMoves ==
    ASSUME NEW s \in Seq(Nat), NEW t \in Seq(Nat), t # <<>>
    PROVE  /\ Head(t) \in Nat /\ Tail(t) \in Seq(Nat)
           /\ Append(s, Head(t)) \o Tail(t) = s \o t
<1>1. /\ Head(t) \in Nat /\ Tail(t) \in Seq(Nat) /\ Len(Tail(t)) = Len(t) - 1 /\ Head(t) = t[1]
      /\ \A i \in 1..Len(Tail(t)) : Tail(t)[i] = t[i + 1]
    BY HeadTailProperties
<1>2. <<Head(t)>> \in Seq(Nat) /\ Append(s, Head(t)) = s \o <<Head(t)>>
    BY <1>1, Ends
<1>3. <<Head(t)>> \o Tail(t) = t
    BY <1>1
<1>4. (s \o <<Head(t)>>) \o Tail(t) = s \o (<<Head(t)>> \o Tail(t))
    BY <1>1, <1>2, Moves
<1> QED BY <1>1, <1>2, <1>3, <1>4

LEMMA Starts0 == Init => IInv
BY DEF Init, IInv, Shape, HandlerOK, MailInOrder, MessagesInOrder

LEMMA PostsStep == ASSUME IInv, Posts PROVE IInv'
<1> DEFINE m == mail.posted + 1
<1>1. /\ mail' = [mail EXCEPT !.posted = m] /\ m \in Nat
      /\ mail.heard \in Seq(Nat) /\ jobs \in Seq(Nat) /\ port.pending \in Seq(Nat)
    BY DEF Posts, IInv, Shape
<1>2. mail'.posted = m /\ mail'.heard = mail.heard /\ mail'.early = mail.early
    BY <1>1 DEF IInv, Shape
<1>3. ~mail.early => Append(mail.heard \o jobs \o port.pending, m) = Posted(m)
    BY <1>1, OneMore DEF IInv, Shape, MailInOrder, MessagesInOrder, Posted
<1>4. CASE Delivers
    <2>1. jobs' = Append(jobs, m) /\ port' = port
        BY <1>4 DEF Posts
    <2>2. ~mail.early => port.pending = <<>>
        BY <1>4 DEF IInv, HandlerOK, MailInOrder, Delivers
    <2>3. mail.heard \o Append(jobs, m) = Append(mail.heard \o jobs, m)
        BY <1>1, AppendMoves
    <2>4. ~mail.early => mail.heard \o Append(jobs, m) \o port.pending = Posted(m)
        <3>1. mail.heard \o jobs \in Seq(Nat) /\ Append(mail.heard \o jobs, m) \in Seq(Nat)
            BY <1>1, Moves, AppendProperties
        <3> SUFFICES ASSUME ~mail.early
                     PROVE  mail.heard \o Append(jobs, m) \o port.pending = Posted(m)
            OBVIOUS
        <3>2. port.pending = <<>>
            BY <2>2
        <3>3. mail.heard \o jobs \o port.pending = mail.heard \o jobs
            BY <3>1, <3>2, NothingPending
        <3>4. (mail.heard \o Append(jobs, m)) \o port.pending = mail.heard \o Append(jobs, m)
            BY <2>3, <3>1, <3>2, NothingPending
        <3> HIDE DEF m
        <3> QED BY <1>3, <2>3, <3>3, <3>4
    <2>5. MessagesInOrder'
        BY <1>2, <2>1, <2>4 DEF MessagesInOrder, Posted
    <2>6. Shape'
        <3>1. Append(jobs, m) \in Seq(Nat)
            BY <1>1, AppendProperties
        <3> QED BY <1>1, <2>1, <3>1 DEF IInv, Shape
    <2> QED BY <1>2, <2>1, <2>5, <2>6 DEF IInv, HandlerOK, MailInOrder
<1>5. CASE ~Delivers
    <2>1. jobs' = jobs /\ port' = [port EXCEPT !.pending = Append(@, m)]
        BY <1>5 DEF Posts
    <2>2. /\ port'.pending = Append(port.pending, m) /\ port'.started = port.started
          /\ port'.handler = port.handler /\ ~port.started /\ ~port.handler
        BY <1>5, <2>1 DEF IInv, Shape, Delivers
    <2>3. mail.heard \o jobs \o Append(port.pending, m) = Append(mail.heard \o jobs \o port.pending, m)
        <3>1. mail.heard \o jobs \in Seq(Nat)
            BY <1>1, Moves
        <3> HIDE DEF m
        <3> QED BY <1>1, <3>1, AppendMoves
    <2>4. MessagesInOrder'
        BY <1>2, <1>3, <2>1, <2>2, <2>3 DEF MessagesInOrder, Posted
    <2>5. Shape'
        <3>1. Append(port.pending, m) \in Seq(Nat)
            BY <1>1, AppendProperties
        <3> QED BY <1>1, <2>1, <3>1 DEF IInv, Shape
    <2> QED BY <2>2, <2>4, <2>5 DEF IInv, HandlerOK, MailInOrder
<1> QED BY <1>4, <1>5

LEMMA StartsStep == ASSUME IInv, Starts PROVE IInv'
<1>1. mail.heard \in Seq(Nat) /\ jobs \in Seq(Nat) /\ port.pending \in Seq(Nat)
    BY DEF IInv, Shape
<1>2. port'.pending = <<>> /\ jobs' = jobs \o port.pending /\ mail' = mail /\ Shape'
    <2>1. port' = [port EXCEPT !.started = TRUE, !.pending = <<>>] /\ mail' = mail
          /\ jobs' = jobs \o port.pending
        BY DEF Starts, Flushed
    <2>2. <<>> \in Seq(Nat) /\ jobs \o port.pending \in Seq(Nat)
        BY <1>1, Moves
    <2> QED BY <2>1, <2>2 DEF IInv, Shape
<1>3. mail.heard \o (jobs \o port.pending) \o <<>> = mail.heard \o jobs \o port.pending
    BY <1>1, PendingMoves
<1>4. MessagesInOrder'
    BY <1>2, <1>3 DEF IInv, MailInOrder, MessagesInOrder
<1> QED BY <1>2, <1>4 DEF IInv, HandlerOK, MailInOrder

LEMMA SetsHandlerStep == ASSUME IInv, NEW on \in BOOLEAN, SetsHandler(on) PROVE IInv'
<1>1. /\ Shape' /\ jobs' = jobs /\ port'.pending = port.pending /\ port'.started = port.started
      /\ port'.handler = on /\ mail'.heard = mail.heard /\ mail'.posted = mail.posted
      /\ mail'.early <=> mail.early \/ (on /\ ~port.started /\ port.pending # <<>>)
    BY DEF SetsHandler, IInv, Shape
<1> QED BY <1>1 DEF IInv, HandlerOK, MailInOrder, MessagesInOrder

LEMMA ClosesStep == ASSUME IInv, Closes PROVE IInv'
BY DEF Closes, IInv, Shape, HandlerOK, MailInOrder, MessagesInOrder

LEMMA DeliverStep == ASSUME IInv, Deliver PROVE IInv'
<1>1. mail.heard \in Seq(Nat) /\ jobs \in Seq(Nat) /\ jobs # <<>> /\ port.pending \in Seq(Nat)
    BY DEF Deliver, IInv, Shape
<1>2. Head(jobs) \in Nat /\ Tail(jobs) \in Seq(Nat)
    BY <1>1, HeadMoves
<1>5. Append(mail.heard, Head(jobs)) \in Seq(Nat)
    BY <1>1, <1>2, AppendProperties
<1>3. /\ Shape' /\ jobs' = Tail(jobs) /\ port' = port /\ mail'.heard = Append(mail.heard, Head(jobs))
      /\ mail'.posted = mail.posted /\ mail'.early = mail.early
    BY <1>2, <1>5 DEF Deliver, IInv, Shape
<1>4. Append(mail.heard, Head(jobs)) \o Tail(jobs) = mail.heard \o jobs
    BY <1>1, HeadMoves
<1> QED BY <1>3, <1>4 DEF IInv, HandlerOK, MailInOrder, MessagesInOrder

LEMMA Preserved == IInv /\ [Next]_vars => IInv'
<1> SUFFICES ASSUME IInv, [Next]_vars PROVE IInv'
    OBVIOUS
<1>1. CASE UNCHANGED portVars
    BY <1>1 DEF portVars, IInv, Shape, HandlerOK, MailInOrder, MessagesInOrder
<1>2. UNCHANGED vars \/ HandlerReturns \/ Runs(TargetNext) => UNCHANGED portVars
    BY DEF vars, HandlerReturns, Runs
<1> QED BY <1>1, <1>2, PostsStep, StartsStep, SetsHandlerStep, ClosesStep, DeliverStep
        DEF Next, PortScript

(* Every message posted is heard once, in order, or still waits in its      *)
(* place, whatever the script does, as long as onmessage is not set on a    *)
(* port that keeps messages (postMessage, start and the delivery job).      *)
THEOREM MailIsInOrder == Spec => []MailInOrder
<1>1. IInv => MailInOrder
    BY DEF IInv
<1> QED BY <1>1, Starts0, Preserved, PTL DEF Spec

-----------------------------------------------------------------------------
(* The walks over listeners.                                                *)
(* The frames of the walks, and what each is.                               *)
Subscriber == [do : {"script", "remove", "settle"}, n : Nat]
Entry == [fn : Callbacks, once : BOOLEAN, cut : BOOLEAN, n : Nat]
Frame ==
    [over : Walks \cup {"handler"}, list : Seq(Subscriber), at : Nat \ {0}, calling : BOOLEAN,
     stop : BOOLEAN, seen : Seq(Nat), cut : BOOLEAN]

WaiterType == [state : {"idle", "waiting", "resolved", "rejected"}, on : SUBSET {"event", "error"}]
LogType == [made : 0..MaxListeners, walks : Nat, once : SUBSET Nat, calls : [1..MaxListeners -> Nat]]

TargetShape ==
    /\ entries \in Seq(Entry) /\ stack \in Seq(Frame)
    /\ subs \in [Lists -> Seq(Subscriber)]
    /\ aborted \in BOOLEAN
    /\ waiter \in WaiterType
    /\ log \in LogType

(* Registrations are numbered, and each is on the list at most once; one    *)
(* that is to be called once is off the list when it has been.              *)
EntriesOK ==
    /\ \A i \in DOMAIN entries : entries[i].n \in 1..log.made
    /\ \A i, j \in DOMAIN entries : entries[i].n = entries[j].n => i = j
    /\ \A i, j \in DOMAIN entries : entries[i].fn = entries[j].fn => i = j
    /\ \A i \in DOMAIN entries : entries[i].once <=> entries[i].n \in log.once
    /\ \A i \in DOMAIN entries : entries[i].once => log.calls[entries[i].n] = 0
    /\ log.once \subseteq 1..log.made /\ OnceIsOnce
    /\ \A n \in 1..MaxListeners : n > log.made => log.calls[n] = 0

(* What a walk has seen is what it has called, and it is behind it; what is *)
(* ahead it has not seen.                                                   *)
Called(w) ==
    /\ IsInjective(w.seen)
    /\ \A n \in ToSet(w.seen) : n \in 1..log.made /\ log.calls[n] > 0
    /\ \A i \in DOMAIN entries : i >= w.at => entries[i].n \notin ToSet(w.seen)
    /\ ~w.cut =>
           /\ w.at <= Len(entries) + 1
           /\ \A i \in DOMAIN entries : i < w.at => entries[i].n \in ToSet(w.seen)
SeenOK(w) == IF w.over = "target" THEN Called(w) ELSE w.seen = <<>>
WalksOK ==
    /\ \A k \in DOMAIN stack : SeenOK(stack[k])
    /\ \A k \in DOMAIN stack : k < Len(stack) => stack[k].calling

(* What an abort has to do is on the signal's list before it and ahead of   *)
(* its walk during it; after it there is nothing to do.                     *)
Due(es, waits, list, from) ==
    /\ \A i \in DOMAIN es : es[i].cut =>
           \E j \in DOMAIN list : j >= from /\ list[j].do = "remove" /\ list[j].n = es[i].n
    /\ waits => \E j \in DOMAIN list : j >= from /\ list[j].do = "settle"
Waiting == waiter.state = "waiting"
AbortGoes ==
    \E k \in DOMAIN stack : stack[k].over = "signal" /\ Due(entries, Waiting, stack[k].list, stack[k].at)
WatchOK ==
    /\ \A i, j \in DOMAIN subs["signal"] :
           subs["signal"][i].do = "settle" /\ subs["signal"][j].do = "settle" => i = j
    /\ ~Waiting => waiter.on = {} /\ \A i \in DOMAIN subs["signal"] : subs["signal"][i].do # "settle"
AbortOK ==
    /\ ~aborted => Due(entries, Waiting, subs["signal"], 1)
    /\ aborted => Due(entries, Waiting, <<>>, 1) \/ AbortGoes
    /\ WatchOK

TInv == TargetShape /\ EntriesOK /\ WalksOK /\ AbortOK

-----------------------------------------------------------------------------
(* Sequences.                                                               *)
(* What appending to a list without duplicates makes of it.                 *)
LEMMA AppendToList ==
    ASSUME NEW S, NEW s \in Seq(S), IsInjective(s), NEW p \in S, p \notin ToSet(s)
    PROVE  /\ Append(s, p) \in Seq(S)
           /\ IsInjective(Append(s, p))
           /\ ToSet(Append(s, p)) = ToSet(s) \cup {p}
<1>1. /\ Append(s, p) \in Seq(S)
      /\ Len(Append(s, p)) = Len(s) + 1
      /\ DOMAIN Append(s, p) = 1..(Len(s) + 1)
      /\ DOMAIN s = 1..Len(s) /\ Len(s) \in Nat
      /\ \A i \in 1..Len(s) : Append(s, p)[i] = s[i]
      /\ Append(s, p)[Len(s) + 1] = p
    OBVIOUS
<1>2. ToSet(Append(s, p)) = ToSet(s) \cup {p}
    BY <1>1 DEF ToSet
<1>3. IsInjective(Append(s, p))
    BY <1>1 DEF IsInjective, ToSet
<1> QED BY <1>1, <1>2, <1>3

(* What RemoveAt makes of a sequence.                                       *)
LEMMA RemoveAtPosition ==
    ASSUME NEW S, NEW s \in Seq(S), NEW k \in 1..Len(s)
    PROVE  /\ RemoveAt(s, k) \in Seq(S)
           /\ DOMAIN RemoveAt(s, k) = 1..(Len(s) - 1)
           /\ \A i \in 1..(k - 1) : RemoveAt(s, k)[i] = s[i]
           /\ \A i \in k..(Len(s) - 1) : RemoveAt(s, k)[i] = s[i + 1]
<1> DEFINE a == SubSeq(s, 1, k - 1)
           b == SubSeq(s, k + 1, Len(s))
           n == Len(s)
<1>1. n \in Nat /\ k \in Int /\ 1 <= k /\ k <= n /\ \A i \in 1..n : s[i] \in S
    OBVIOUS
<1> HIDE DEF n
<1>2. /\ a \in Seq(S) /\ Len(a) = k - 1
      /\ \A i \in 1..(k - 1) : a[i] = s[i]
    BY <1>1 DEF n
<1>3. /\ b \in Seq(S)
      /\ Len(b) = IF k + 1 <= n THEN n - (k + 1) + 1 ELSE 0
      /\ \A i \in 1..(n - (k + 1) + 1) : b[i] = s[(k + 1) + i - 1]
  <2>1. /\ k + 1 \in Int /\ n \in Int
        /\ \A i \in (k + 1)..n : s[i] \in S
      BY <1>1
  <2> QED BY <2>1, SubSeqProperties DEF n
<1>4. RemoveAt(s, k) = a \o b
    BY DEF RemoveAt
<1> HIDE DEF a, b
<1>5. Len(b) = n - k
    BY <1>1, <1>3
<1>6. /\ a \o b \in Seq(S)
      /\ Len(a \o b) = n - 1
      /\ \A i \in 1..(n - 1) : (a \o b)[i] = IF i <= k - 1 THEN a[i] ELSE b[i - (k - 1)]
  <2>1. Len(a) + Len(b) = n - 1
      BY <1>1, <1>2, <1>5
  <2> QED BY <1>2, <1>3, <2>1, ConcatProperties
<1>7. DOMAIN (a \o b) = 1..(n - 1)
    BY <1>6
<1>8. \A i \in 1..(k - 1) : (a \o b)[i] = s[i]
    BY <1>1, <1>2, <1>6
<1>9. \A i \in k..(n - 1) : (a \o b)[i] = s[i + 1]
  <2> SUFFICES ASSUME NEW i \in k..(n - 1)
               PROVE  (a \o b)[i] = s[i + 1]
      OBVIOUS
  <2>1. /\ i \in 1..(n - 1) /\ ~(i <= k - 1)
        /\ i - (k - 1) \in 1..(n - (k + 1) + 1)
        /\ (k + 1) + (i - (k - 1)) - 1 = i + 1
      BY <1>1
  <2>2. (a \o b)[i] = b[i - (k - 1)]
      BY <1>6, <2>1
  <2>3. b[i - (k - 1)] = s[(k + 1) + (i - (k - 1)) - 1]
      BY <1>3, <2>1
  <2> QED BY <2>1, <2>2, <2>3
<1> QED BY <1>4, <1>6, <1>7, <1>8, <1>9 DEF n

LEMMA FrontOf ==
    ASSUME NEW S, NEW s \in Seq(S), s # <<>>
    PROVE  /\ Front(s) \in Seq(S) /\ Len(Front(s)) = Len(s) - 1
           /\ Len(s) \in Nat /\ Len(s) > 0 /\ DOMAIN Front(s) = 1..(Len(s) - 1)
           /\ \A i \in 1..(Len(s) - 1) : Front(s)[i] = s[i]
<1> DEFINE n == Len(s) - 1
           t == SubSeq(s, 1, n)
<1>1. n \in Nat /\ Len(s) = n + 1 /\ Len(s) \in Nat /\ \A i \in 1..(n + 1) : s[i] \in S
    OBVIOUS
<1>2. Front(s) = t
    BY DEF Front
<1> HIDE DEF n
<1>3. t \in Seq(S) /\ Len(t) = n /\ \A i \in 1..n : t[i] = s[i]
    BY <1>1
<1> HIDE DEF t
<1>4. DOMAIN t = 1..n
    BY <1>1, <1>3
<1> QED BY <1>1, <1>2, <1>3, <1>4 DEF n

(* Frames: a fresh one, and one with the fields the walks change.           *)
LEMMA FreshFrame ==
    ASSUME NEW over \in Walks \cup {"handler"}, NEW list \in Seq(Subscriber)
    PROVE  /\ Walk(over, list) \in Frame
           /\ Walk(over, list).over = over /\ Walk(over, list).list = list
           /\ Walk(over, list).at = 1 /\ Walk(over, list).seen = <<>>
           /\ Walk(over, list).cut = FALSE /\ Walk(over, list).calling = FALSE
<1>1. <<>> \in Seq(Nat) /\ 1 \in Nat \ {0} /\ FALSE \in BOOLEAN
    OBVIOUS
<1> QED BY <1>1 DEF Walk, Frame

LEMMA FrameSays ==
    ASSUME NEW w \in Frame
    PROVE  /\ w.over \in Walks \cup {"handler"} /\ w.list \in Seq(Subscriber) /\ w.at \in Nat /\ w.at > 0
           /\ w.calling \in BOOLEAN /\ w.stop \in BOOLEAN /\ w.seen \in Seq(Nat) /\ w.cut \in BOOLEAN
BY DEF Frame

LEMMA FrameFlag ==
    ASSUME NEW w \in Frame, NEW b \in BOOLEAN
    PROVE  /\ [w EXCEPT !.calling = b] \in Frame /\ [w EXCEPT !.calling = b].calling = b
           /\ [w EXCEPT !.calling = b].over = w.over /\ [w EXCEPT !.calling = b].list = w.list
           /\ [w EXCEPT !.calling = b].at = w.at /\ [w EXCEPT !.calling = b].seen = w.seen
           /\ [w EXCEPT !.calling = b].cut = w.cut
           /\ [w EXCEPT !.stop = b] \in Frame /\ [w EXCEPT !.stop = b].calling = w.calling
           /\ [w EXCEPT !.stop = b].over = w.over /\ [w EXCEPT !.stop = b].list = w.list
           /\ [w EXCEPT !.stop = b].at = w.at /\ [w EXCEPT !.stop = b].seen = w.seen
           /\ [w EXCEPT !.stop = b].cut = w.cut
           /\ [w EXCEPT !.cut = b] \in Frame /\ [w EXCEPT !.cut = b].calling = w.calling
           /\ [w EXCEPT !.cut = b].over = w.over /\ [w EXCEPT !.cut = b].list = w.list
           /\ [w EXCEPT !.cut = b].at = w.at /\ [w EXCEPT !.cut = b].seen = w.seen
           /\ [w EXCEPT !.cut = b].cut = b
BY DEF Frame

(* The stack of walks.                                                      *)
LEMMA TopFrame ==
    ASSUME TargetShape
    PROVE  /\ Len(stack) \in Nat /\ DOMAIN stack = 1..Len(stack)
           /\ \A k \in 1..Len(stack) : stack[k] \in Frame
           /\ stack # <<>> => Len(stack) > 0 /\ Top \in Frame
BY DEF TargetShape, Top

LEMMA Replaced ==
    ASSUME TargetShape, stack # <<>>, NEW w \in Frame
    PROVE  /\ OnTop(w) \in Seq(Frame) /\ Len(OnTop(w)) = Len(stack)
           /\ DOMAIN OnTop(w) = 1..Len(stack) /\ OnTop(w)[Len(stack)] = w
           /\ \A k \in 1..Len(stack) : k # Len(stack) => OnTop(w)[k] = stack[k]
BY TopFrame DEF OnTop, TargetShape

LEMMA Pushed ==
    ASSUME TargetShape, NEW w \in Frame
    PROVE  /\ Append(stack, w) \in Seq(Frame) /\ Len(Append(stack, w)) = Len(stack) + 1
           /\ DOMAIN Append(stack, w) = 1..(Len(stack) + 1) /\ Append(stack, w)[Len(stack) + 1] = w
           /\ \A k \in 1..Len(stack) : Append(stack, w)[k] = stack[k]
BY DEF TargetShape

(* A walk marked as skipping one keeps everything else.                     *)
LEMMA MarkedFrames ==
    ASSUME NEW frames \in Seq(Frame), NEW i \in Nat
    PROVE  /\ CutAt(frames, i) \in Seq(Frame) /\ Len(CutAt(frames, i)) = Len(frames)
           /\ Len(frames) \in Nat /\ DOMAIN CutAt(frames, i) = 1..Len(frames)
           /\ \A k \in 1..Len(frames) :
                /\ CutAt(frames, i)[k].over = frames[k].over /\ CutAt(frames, i)[k].list = frames[k].list
                /\ CutAt(frames, i)[k].at = frames[k].at /\ CutAt(frames, i)[k].seen = frames[k].seen
                /\ CutAt(frames, i)[k].calling = frames[k].calling
                /\ CutAt(frames, i)[k].over = "target" /\ ~CutAt(frames, i)[k].cut =>
                       ~frames[k].cut /\ frames[k].at <= i
<1> DEFINE t == CutAt(frames, i)
<1>1. Len(frames) \in Nat /\ DOMAIN frames = 1..Len(frames) /\ \A k \in 1..Len(frames) : frames[k] \in Frame
    OBVIOUS
<1>2. t = [k \in 1..Len(frames) |->
             IF frames[k].over = "target" /\ i < frames[k].at THEN [frames[k] EXCEPT !.cut = TRUE] ELSE frames[k]]
    BY <1>1 DEF CutAt
<1>3. \A k \in 1..Len(frames) : [frames[k] EXCEPT !.cut = TRUE] \in Frame
    BY <1>1, FrameFlag
<1>4. \A k \in 1..Len(frames) : t[k] \in Frame
    BY <1>1, <1>2, <1>3
<1>5. t \in Seq(Frame) /\ Len(t) = Len(frames)
  <2> HIDE DEF t
  <2> QED BY <1>1, <1>2, <1>4
<1>6. ASSUME NEW k \in 1..Len(frames)
      PROVE  /\ t[k].over = frames[k].over /\ t[k].list = frames[k].list
             /\ t[k].at = frames[k].at /\ t[k].seen = frames[k].seen
             /\ t[k].calling = frames[k].calling
             /\ t[k].over = "target" /\ ~t[k].cut => ~frames[k].cut /\ frames[k].at <= i
  <2>1. frames[k] \in Frame /\ frames[k].at \in Nat
      BY <1>1, FrameSays
  <2>2. CASE frames[k].over = "target" /\ i < frames[k].at
    <3>1. t[k] = [frames[k] EXCEPT !.cut = TRUE]
        BY <1>2, <2>2
    <3> HIDE DEF t
    <3> QED BY <2>1, <3>1, FrameFlag
  <2>3. CASE ~(frames[k].over = "target" /\ i < frames[k].at)
    <3>1. t[k] = frames[k]
        BY <1>2, <2>3
    <3> QED BY <2>1, <2>3, <3>1
  <2> QED BY <2>2, <2>3
<1> QED BY <1>1, <1>2, <1>5, <1>6

-----------------------------------------------------------------------------
(* The list, and what walks have seen of it, when it stays, when a listener *)
(* is added, when one is taken off and when one is called.                  *)
LEMMA ListSays ==
    ASSUME TargetShape
    PROVE  /\ entries \in Seq(Entry) /\ Len(entries) \in Nat /\ DOMAIN entries = 1..Len(entries)
           /\ \A i \in 1..Len(entries) :
                /\ entries[i] \in Entry /\ entries[i].n \in Nat /\ entries[i].fn \in Callbacks
                /\ entries[i].once \in BOOLEAN /\ entries[i].cut \in BOOLEAN
<1>1. entries \in Seq(Entry)
    BY DEF TargetShape
<1>2. \A i \in 1..Len(entries) : entries[i] \in Entry
    BY <1>1
<1> QED BY <1>1, <1>2 DEF Entry

LEMMA LogSays ==
    ASSUME TargetShape
    PROVE  /\ log.made \in 0..MaxListeners /\ log.made \in Nat /\ log.walks \in Nat /\ log.once \in SUBSET Nat
           /\ log.calls \in [1..MaxListeners -> Nat] /\ MaxListeners \in Nat
BY TargetAssumption DEF TargetShape, LogType

SameLog ==
    /\ log'.made \in 0..MaxListeners /\ log.made <= log'.made
    /\ log'.once = log.once /\ log'.calls = log.calls

CallsOnly(n) ==
    /\ log'.made = log.made /\ log'.once = log.once /\ log'.calls \in [1..MaxListeners -> Nat]
    /\ \A m \in 1..MaxListeners : m # n => log'.calls[m] = log.calls[m]
    /\ log'.calls[n] \in {log.calls[n], log.calls[n] + 1}

LEMMA ListKept ==
    ASSUME TargetShape, EntriesOK, entries' = entries, SameLog
    PROVE  EntriesOK'
BY LogSays DEF EntriesOK, OnceIsOnce, SameLog

LEMMA SeenKept ==
    ASSUME TargetShape, NEW k, NEW l, SeenOK(stack[k]), entries' = entries, SameLog,
           stack'[l].seen = stack[k].seen, stack'[l].over = stack[k].over,
           stack[k].over = "target" => stack'[l].at = stack[k].at /\ stack'[l].cut = stack[k].cut
    PROVE  SeenOK(stack[l])'
BY LogSays DEF SeenOK, Called, SameLog

LEMMA SeenFresh ==
    ASSUME NEW l, stack'[l].seen = <<>>, stack'[l].at = 1, Len(entries') \in Nat, DOMAIN entries' = 1..Len(entries')
    PROVE  SeenOK(stack[l])'
BY DEF SeenOK, Called, IsInjective, ToSet

(* A listener goes.                                                         *)
LEMMA Removed ==
    ASSUME TargetShape, NEW i \in 1..Len(entries), entries' = RemoveAt(entries, i)
    PROVE  /\ entries' \in Seq(Entry) /\ Len(entries') = Len(entries) - 1
           /\ DOMAIN entries' = 1..(Len(entries) - 1)
           /\ \A j \in 1..(Len(entries) - 1) :
                \/ j < i /\ j \in 1..Len(entries) /\ entries'[j] = entries[j]
                \/ j >= i /\ j + 1 \in 1..Len(entries) /\ entries'[j] = entries[j + 1]
<1>1. entries \in Seq(Entry) /\ Len(entries) \in Nat
    BY ListSays
<1>2. /\ RemoveAt(entries, i) \in Seq(Entry)
      /\ DOMAIN RemoveAt(entries, i) = 1..(Len(entries) - 1)
      /\ \A j \in 1..(i - 1) : RemoveAt(entries, i)[j] = entries[j]
      /\ \A j \in i..(Len(entries) - 1) : RemoveAt(entries, i)[j] = entries[j + 1]
    BY <1>1, RemoveAtPosition
<1>3. Len(entries') = Len(entries) - 1
    BY <1>1, <1>2
<1> QED BY <1>1, <1>2, <1>3

LEMMA ListShorter ==
    ASSUME TargetShape, EntriesOK, NEW i \in 1..Len(entries), entries' = RemoveAt(entries, i),
           CallsOnly(entries[i].n)
    PROVE  EntriesOK'
<1>1. /\ Len(entries) \in Nat /\ DOMAIN entries = 1..Len(entries) /\ DOMAIN entries' = 1..(Len(entries) - 1)
      /\ \A j \in 1..(Len(entries) - 1) :
                \/ j < i /\ j \in 1..Len(entries) /\ entries'[j] = entries[j]
                \/ j >= i /\ j + 1 \in 1..Len(entries) /\ entries'[j] = entries[j + 1]
    BY ListSays, Removed
<1>2. \A j \in DOMAIN entries' : \E m \in DOMAIN entries : entries'[j] = entries[m]
    BY <1>1
<1>3. ASSUME NEW j \in DOMAIN entries', NEW m \in DOMAIN entries',
             entries'[j].n = entries'[m].n \/ entries'[j].fn = entries'[m].fn
      PROVE  j = m
  <2>1. j \in 1..(Len(entries) - 1) /\ m \in 1..(Len(entries) - 1)
      BY <1>1
  <2>2. PICK a \in 1..Len(entries) : entries'[j] = entries[a] /\ a = (IF j < i THEN j ELSE j + 1)
      BY <1>1, <2>1
  <2>3. PICK b \in 1..Len(entries) : entries'[m] = entries[b] /\ b = (IF m < i THEN m ELSE m + 1)
      BY <1>1, <2>1
  <2>4. a = b
      BY <1>1, <1>3, <2>2, <2>3 DEF EntriesOK
  <2> QED BY <2>1, <2>2, <2>3, <2>4
<1>4. /\ \A j, m \in DOMAIN entries' : entries'[j].n = entries'[m].n => j = m
      /\ \A j, m \in DOMAIN entries' : entries'[j].fn = entries'[m].fn => j = m
    BY <1>3
<1>5. /\ log.made \in 0..MaxListeners /\ MaxListeners \in Nat /\ log.calls \in [1..MaxListeners -> Nat]
      /\ entries[i].n \in 1..log.made /\ i \in DOMAIN entries
      /\ entries[i].n \in log.once => log.calls[entries[i].n] = 0
    BY <1>1, LogSays DEF EntriesOK
<1>6. ASSUME NEW j \in DOMAIN entries' PROVE entries'[j].n # entries[i].n
  <2>1. j \in 1..(Len(entries) - 1)
      BY <1>1
  <2>2. PICK m \in 1..Len(entries) : m # i /\ entries'[j] = entries[m]
      BY <1>1, <2>1
  <2> QED BY <1>1, <2>2 DEF EntriesOK
<1>7. ASSUME NEW j \in DOMAIN entries'
      PROVE  /\ entries'[j].n \in 1..log'.made
             /\ entries'[j].once <=> entries'[j].n \in log'.once
             /\ entries'[j].once => log'.calls[entries'[j].n] = 0
  <2>1. PICK m \in DOMAIN entries : entries'[j] = entries[m]
      BY <1>2
  <2>2. /\ entries[m].n \in 1..log.made /\ entries[m].n \in 1..MaxListeners /\ entries[m].n # entries[i].n
        /\ entries[m].once <=> entries[m].n \in log.once
        /\ entries[m].once => log.calls[entries[m].n] = 0
      BY <1>5, <1>6, <2>1 DEF EntriesOK
  <2> QED BY <2>1, <2>2 DEF CallsOnly
<1>8. OnceIsOnce' /\ log'.once \subseteq 1..log'.made
  <2>1. log.once \subseteq 1..log.made /\ \A n \in log.once : log.calls[n] <= 1
      BY DEF EntriesOK, OnceIsOnce
  <2>2. ASSUME NEW n \in log'.once PROVE log'.calls[n] <= 1
    <3>1. n \in log.once /\ n \in 1..MaxListeners
        BY <1>5, <2>1, <2>2 DEF CallsOnly
    <3>2. CASE n # entries[i].n
        BY <2>1, <3>1, <3>2 DEF CallsOnly
    <3>3. CASE n = entries[i].n
      <4>1. log.calls[n] = 0 /\ log'.calls[n] \in {log.calls[n], log.calls[n] + 1}
          BY <1>5, <3>1, <3>3 DEF CallsOnly
      <4> QED BY <4>1
    <3> QED BY <3>2, <3>3
  <2> QED BY <2>1, <2>2 DEF OnceIsOnce, CallsOnly
<1>9. ASSUME NEW n \in 1..MaxListeners, n > log'.made PROVE log'.calls[n] = 0
  <2>1. log'.made = log.made /\ n # entries[i].n
      BY <1>5, <1>9 DEF CallsOnly
  <2>2. log'.calls[n] = log.calls[n]
      BY <2>1 DEF CallsOnly
  <2> QED BY <1>9, <2>1, <2>2 DEF EntriesOK
<1> QED BY <1>4, <1>7, <1>8, <1>9 DEF EntriesOK

LEMMA SeenShorter ==
    ASSUME TargetShape, EntriesOK, NEW i \in 1..Len(entries), entries' = RemoveAt(entries, i),
           NEW k \in 1..Len(stack), NEW l, SeenOK(stack[k]), CallsOnly(entries[i].n),
           stack'[l].seen = stack[k].seen, stack'[l].over = stack[k].over,
           stack[k].over = "target" =>
                /\ stack'[l].at = stack[k].at
                /\ ~stack'[l].cut => ~stack[k].cut /\ stack[k].at <= i
    PROVE  SeenOK(stack[l])'
<1>0. SUFFICES ASSUME stack[k].over = "target" PROVE Called(stack[l])'
    BY DEF SeenOK
<1> DEFINE at == stack[k].at
           seen == ToSet(stack[k].seen)
<1>1. /\ Len(entries) \in Nat /\ DOMAIN entries = 1..Len(entries) /\ DOMAIN entries' = 1..(Len(entries) - 1)
      /\ Len(entries') = Len(entries) - 1
      /\ \A j \in 1..(Len(entries) - 1) :
                \/ j < i /\ j \in 1..Len(entries) /\ entries'[j] = entries[j]
                \/ j >= i /\ j + 1 \in 1..Len(entries) /\ entries'[j] = entries[j + 1]
    BY ListSays, Removed
<1>2. at \in Nat /\ log.made \in 0..MaxListeners /\ MaxListeners \in Nat /\ log.calls \in [1..MaxListeners -> Nat]
    BY TopFrame, FrameSays, LogSays
<1>3. /\ IsInjective(stack[k].seen)
      /\ \A n \in seen : n \in 1..log.made /\ log.calls[n] > 0
      /\ \A j \in DOMAIN entries : j >= at => entries[j].n \notin seen
      /\ ~stack[k].cut =>
           /\ at <= Len(entries) + 1
           /\ \A j \in DOMAIN entries : j < at => entries[j].n \in seen
    BY <1>0 DEF SeenOK, Called
<1> HIDE DEF at, seen
<1>4. \A n \in seen : n \in 1..log'.made /\ log'.calls[n] > 0
  <2> SUFFICES ASSUME NEW n \in seen PROVE n \in 1..log'.made /\ log'.calls[n] > 0
      OBVIOUS
  <2>1. n \in 1..log.made /\ n \in 1..MaxListeners /\ log.calls[n] > 0
      BY <1>2, <1>3
  <2>2. log.calls[n] \in Nat /\ log'.calls[n] \in {log.calls[n], log.calls[n] + 1} /\ log'.made = log.made
      BY <1>2, <2>1 DEF CallsOnly
  <2> QED BY <2>1, <2>2
<1>5. ASSUME NEW j \in DOMAIN entries', j >= at
      PROVE  entries'[j].n \notin seen
  <2>1. j \in 1..(Len(entries) - 1)
      BY <1>1
  <2>2. PICK m \in 1..Len(entries) : m >= j /\ entries'[j] = entries[m]
      BY <1>1, <2>1
  <2>3. m >= at
      BY <1>2, <1>5, <2>1, <2>2
  <2> QED BY <1>1, <1>3, <2>2, <2>3
<1>6. ASSUME ~stack[k].cut, at <= i
      PROVE  /\ at <= Len(entries') + 1
             /\ \A j \in DOMAIN entries' : j < at => entries'[j].n \in seen
  <2>1. ASSUME NEW j \in DOMAIN entries', j < at
        PROVE  entries'[j].n \in seen
    <3>1. j \in 1..(Len(entries) - 1) /\ j < i
        BY <1>1, <1>2, <1>6, <2>1
    <3>2. entries'[j] = entries[j] /\ j \in DOMAIN entries
        BY <1>1, <3>1
    <3> QED BY <1>3, <1>6, <2>1, <3>2
  <2> QED BY <1>1, <1>2, <1>6, <2>1
<1> QED BY <1>0, <1>3, <1>4, <1>5, <1>6 DEF Called, at, seen

(* A listener is added, with a number no walk has seen.                     *)
LEMMA Longer ==
    ASSUME TargetShape, EntriesOK, NEW e \in Entry, entries' = Append(entries, e),
           e.n = log.made + 1, log.made < MaxListeners, \A i \in DOMAIN entries : entries[i].fn # e.fn,
           log'.made = log.made + 1, log'.calls = log.calls,
           log'.once = IF e.once THEN log.once \cup {log.made + 1} ELSE log.once
    PROVE  /\ EntriesOK'
           /\ \A k \in 1..Len(stack) : SeenOK(stack[k]) =>
                \A l : stack'[l] = stack[k] => SeenOK(stack[l])'
<1>1. /\ entries \in Seq(Entry) /\ Len(entries) \in Nat /\ DOMAIN entries = 1..Len(entries)
      /\ DOMAIN entries' = 1..(Len(entries) + 1) /\ Len(entries') = Len(entries) + 1
      /\ \A i \in 1..Len(entries) : entries'[i] = entries[i]
      /\ entries'[Len(entries) + 1] = e
    BY ListSays
<1>2. /\ log.made \in 0..MaxListeners /\ MaxListeners \in Nat /\ log.calls \in [1..MaxListeners -> Nat]
      /\ log.made \in Nat /\ log.once \subseteq 1..log.made
      /\ \A i \in DOMAIN entries : entries[i].n \in 1..log.made
    BY LogSays DEF EntriesOK
<1>3. \A i \in DOMAIN entries' :
          (i \in DOMAIN entries /\ entries'[i] = entries[i]) \/ (i = Len(entries) + 1 /\ entries'[i] = e)
    BY <1>1
<1>4. /\ \A i, j \in DOMAIN entries' : entries'[i].n = entries'[j].n => i = j
      /\ \A i, j \in DOMAIN entries' : entries'[i].fn = entries'[j].fn => i = j
    BY <1>1, <1>2, <1>3 DEF EntriesOK
<1>5. e.once \in BOOLEAN
    BY DEF Entry
<1>6. ASSUME NEW i \in DOMAIN entries'
      PROVE  /\ entries'[i].n \in 1..log'.made
             /\ entries'[i].once <=> entries'[i].n \in log'.once
             /\ entries'[i].once => log'.calls[entries'[i].n] = 0
  <2>1. CASE i \in DOMAIN entries /\ entries'[i] = entries[i]
    <3>1. /\ entries[i].n \in 1..log.made
          /\ entries[i].once <=> entries[i].n \in log.once
          /\ entries[i].once => log.calls[entries[i].n] = 0
        BY <2>1 DEF EntriesOK
    <3> QED BY <1>2, <2>1, <3>1
  <2>2. CASE entries'[i] = e
    <3>1. log.calls[log.made + 1] = 0
      <4>1. log.made + 1 \in 1..MaxListeners /\ log.made + 1 > log.made
          BY <1>2
      <4>2. \A n \in 1..MaxListeners : n > log.made => log.calls[n] = 0
          BY DEF EntriesOK
      <4> QED BY <4>1, <4>2
    <3>2. log.made + 1 \notin log.once
        BY <1>2
    <3> QED BY <1>2, <1>5, <2>2, <3>1, <3>2
  <2> QED BY <1>3, <2>1, <2>2
<1>7. OnceIsOnce' /\ log'.once \subseteq 1..log'.made
  <2>1. \A n \in log.once : log.calls[n] <= 1
      BY DEF EntriesOK, OnceIsOnce
  <2>2. log.calls[log.made + 1] = 0
      BY <1>2 DEF EntriesOK
  <2> QED BY <1>2, <2>1, <2>2 DEF OnceIsOnce
<1>8. \A n \in 1..MaxListeners : n > log'.made => log'.calls[n] = 0
    BY <1>2 DEF EntriesOK
<1>9. EntriesOK'
    BY <1>4, <1>6, <1>7, <1>8 DEF EntriesOK
<1>10. ASSUME NEW k \in 1..Len(stack), SeenOK(stack[k]), NEW l, stack'[l] = stack[k]
       PROVE  SeenOK(stack[l])'
  <2>0. SUFFICES ASSUME stack[k].over = "target" PROVE Called(stack[l])'
      BY <1>10 DEF SeenOK
  <2> DEFINE at == stack[k].at
             seen == ToSet(stack[k].seen)
  <2>1. at \in Nat
      BY TopFrame, FrameSays
  <2>2. /\ IsInjective(stack[k].seen)
        /\ \A n \in seen : n \in 1..log.made /\ log.calls[n] > 0
        /\ \A j \in DOMAIN entries : j >= at => entries[j].n \notin seen
        /\ ~stack[k].cut =>
             /\ at <= Len(entries) + 1
             /\ \A j \in DOMAIN entries : j < at => entries[j].n \in seen
      BY <1>10, <2>0 DEF SeenOK, Called
  <2> HIDE DEF at, seen
  <2>3. \A n \in seen : n \in 1..log'.made /\ log'.calls[n] > 0
      BY <1>2, <2>2
  <2>4. \A j \in DOMAIN entries' : j >= at => entries'[j].n \notin seen
      BY <1>2, <1>3, <2>2
  <2>5. ~stack[k].cut =>
             /\ at <= Len(entries') + 1
             /\ \A j \in DOMAIN entries' : j < at => entries'[j].n \in seen
      BY <1>1, <1>3, <2>1, <2>2
  <2> QED BY <1>10, <2>2, <2>3, <2>4, <2>5 DEF Called, at, seen
<1> QED BY <1>9, <1>10

-----------------------------------------------------------------------------
(* What the steps do to the walks: nothing, a walk begins, ends or changes  *)
(* without calling, a listener goes from under them, or one is called.      *)
Walked == TargetShape /\ EntriesOK /\ WalksOK

LEMMA StackKept ==
    ASSUME Walked, entries' = entries, stack' = stack, SameLog
    PROVE  EntriesOK' /\ WalksOK'
<1>1. \A k \in DOMAIN stack : SeenOK(stack[k])'
    BY SeenKept DEF Walked, WalksOK
<1> QED BY <1>1, ListKept DEF Walked, WalksOK

LEMMA StackGrows ==
    ASSUME Walked, NEW w \in Frame, w.seen = <<>>, w.at = 1, stack' = Append(stack, w), ScriptRuns,
           entries' = entries, SameLog
    PROVE  EntriesOK' /\ WalksOK'
<1>1. /\ Len(stack) \in Nat /\ DOMAIN stack = 1..Len(stack) /\ DOMAIN stack' = 1..(Len(stack) + 1)
      /\ Len(stack') = Len(stack) + 1
      /\ stack'[Len(stack) + 1] = w /\ \A k \in 1..Len(stack) : stack'[k] = stack[k]
    BY TopFrame, Pushed DEF Walked
<1>2. ASSUME NEW k \in 1..Len(stack) PROVE SeenOK(stack[k])'
    BY <1>1, SeenKept DEF Walked, WalksOK
<1>3. ASSUME NEW k, k = Len(stack) + 1 PROVE SeenOK(stack[k])'
    BY <1>1, <1>3, SeenFresh, ListSays DEF Walked
<1>4. ASSUME NEW k \in 1..(Len(stack) + 1), k < Len(stack) + 1 PROVE stack'[k].calling
  <2>1. k \in 1..Len(stack)
      BY <1>1, <1>4
  <2>2. stack[k].calling
      BY <1>1, <2>1 DEF Walked, WalksOK, ScriptRuns, Top
  <2> QED BY <1>1, <2>1, <2>2
<1>5. \A k \in 1..(Len(stack) + 1) : k \in 1..Len(stack) \/ k = Len(stack) + 1
    BY <1>1
<1>6. WalksOK'
    BY <1>1, <1>2, <1>3, <1>4, <1>5 DEF WalksOK
<1> QED BY <1>6, ListKept DEF Walked

LEMMA StackShrinks ==
    ASSUME Walked, stack # <<>>, stack' = Front(stack), entries' = entries, SameLog
    PROVE  EntriesOK' /\ WalksOK'
<1>1. /\ Len(stack) \in Nat /\ DOMAIN stack = 1..Len(stack) /\ DOMAIN stack' = 1..(Len(stack) - 1)
      /\ Len(stack') = Len(stack) - 1 /\ \A k \in 1..(Len(stack) - 1) : stack'[k] = stack[k]
    BY TopFrame, FrontOf DEF Walked, TargetShape
<1>2. ASSUME NEW k \in 1..(Len(stack) - 1)
      PROVE  SeenOK(stack[k])' /\ stack'[k].calling
  <2>1. k \in DOMAIN stack /\ k < Len(stack) /\ stack'[k] = stack[k]
      BY <1>1
  <2>2. SeenOK(stack[k]) /\ stack[k].calling
      BY <2>1 DEF Walked, WalksOK
  <2>3. SeenOK(stack[k])'
      BY <2>1, <2>2, SeenKept DEF Walked
  <2> QED BY <2>1, <2>2, <2>3
<1>3. \A k \in 1..(Len(stack) - 1) : SeenOK(stack[k])' /\ stack'[k].calling
    BY <1>2
<1>4. WalksOK'
    BY <1>1, <1>3 DEF WalksOK
<1> QED BY <1>4, ListKept DEF Walked

LEMMA TopTurns ==
    ASSUME Walked, stack # <<>>, NEW w \in Frame, stack' = OnTop(w), entries' = entries, SameLog,
           \/ w.seen = <<>> /\ w.at = 1
           \/ /\ w.over = Top.over /\ w.seen = Top.seen
              /\ w.over = "target" => w.at = Top.at /\ w.cut = Top.cut
    PROVE  EntriesOK' /\ WalksOK'
<1>1. /\ Len(stack) \in Nat /\ DOMAIN stack = 1..Len(stack) /\ DOMAIN stack' = 1..Len(stack) /\ Len(stack) > 0
      /\ Len(stack') = Len(stack)
      /\ stack'[Len(stack)] = w /\ \A k \in 1..Len(stack) : k # Len(stack) => stack'[k] = stack[k]
    BY TopFrame, Replaced DEF Walked
<1>2. ASSUME NEW k \in 1..Len(stack), k # Len(stack) PROVE SeenOK(stack[k])' /\ stack'[k].calling
  <2>0. k < Len(stack)
    <3>1. Len(stack) \in Nat
        BY <1>1
    <3> QED BY <1>2, <3>1
  <2>1. k \in DOMAIN stack /\ k < Len(stack) /\ stack'[k] = stack[k]
      BY <1>1, <1>2, <2>0, Zenon
  <2>2. SeenOK(stack[k]) /\ stack[k].calling
      BY <2>1 DEF Walked, WalksOK
  <2>3. SeenOK(stack[k])'
      BY <2>1, <2>2, SeenKept DEF Walked
  <2> QED BY <2>1, <2>2, <2>3
<1>3. ASSUME NEW k \in 1..Len(stack), k = Len(stack) PROVE SeenOK(stack[k])'
  <2>1. CASE w.seen = <<>> /\ w.at = 1
      BY <1>1, <1>3, <2>1, SeenFresh, ListSays DEF Walked
  <2>2. CASE /\ w.over = Top.over /\ w.seen = Top.seen
             /\ w.over = "target" => w.at = Top.at /\ w.cut = Top.cut
      BY <1>1, <1>3, <2>2, SeenKept DEF Walked, WalksOK, Top
  <2> QED BY <2>1, <2>2
<1>4. ASSUME NEW k \in 1..Len(stack) PROVE SeenOK(stack[k])' /\ (k < Len(stack) => stack'[k].calling)
  <2>1. CASE k # Len(stack)
      BY <1>2, <2>1, Zenon
  <2>2. CASE k = Len(stack)
    <3>1. ~(k < Len(stack))
      <4>1. Len(stack) \in Nat
          BY <1>1
      <4> QED BY <2>2, <4>1
    <3> QED BY <1>3, <2>2, <3>1, Zenon
  <2> QED BY <2>1, <2>2
<1>5. WalksOK'
    BY <1>1, <1>4 DEF WalksOK
<1> QED BY <1>5, ListKept DEF Walked

LEMMA ListenerGoes ==
    ASSUME Walked, NEW i \in 1..Len(entries), entries' = RemoveAt(entries, i), log' = log,
           NEW frames \in Seq(Frame), stack' = CutAt(frames, i), Len(frames) = Len(stack),
           \A k \in 1..Len(stack) :
               /\ frames[k].over = stack[k].over /\ frames[k].seen = stack[k].seen
               /\ stack[k].over = "target" => frames[k].at = stack[k].at /\ frames[k].cut = stack[k].cut
               /\ k < Len(stack) => frames[k].calling = stack[k].calling
    PROVE  EntriesOK' /\ WalksOK'
<1>1. Len(stack) \in Nat /\ DOMAIN stack = 1..Len(stack) /\ i \in Nat
    BY TopFrame, ListSays DEF Walked
<1>2. /\ DOMAIN stack' = 1..Len(stack) /\ Len(stack') = Len(stack)
      /\ \A k \in 1..Len(stack) :
            /\ stack'[k].over = frames[k].over /\ stack'[k].at = frames[k].at /\ stack'[k].seen = frames[k].seen
            /\ stack'[k].calling = frames[k].calling
            /\ stack'[k].over = "target" /\ ~stack'[k].cut => ~frames[k].cut /\ frames[k].at <= i
    BY <1>1, MarkedFrames
<1>3. CallsOnly(entries[i].n)
    BY LogSays DEF CallsOnly, Walked
<1>4. ASSUME NEW k \in 1..Len(stack) PROVE SeenOK(stack[k])' /\ (k < Len(stack) => stack'[k].calling)
  <2>1. /\ stack'[k].over = stack[k].over /\ stack'[k].seen = stack[k].seen
        /\ stack[k].over = "target" =>
                /\ stack'[k].at = stack[k].at
                /\ ~stack'[k].cut => ~stack[k].cut /\ stack[k].at <= i
        /\ k < Len(stack) => stack'[k].calling = stack[k].calling
      BY <1>2
  <2>2. SeenOK(stack[k]) /\ (k < Len(stack) => stack[k].calling)
      BY <1>1 DEF Walked, WalksOK
  <2>3. SeenOK(stack[k])'
      BY <1>3, <2>1, <2>2, SeenShorter DEF Walked
  <2> QED BY <2>1, <2>2, <2>3
<1>5. WalksOK'
    BY <1>2, <1>4 DEF WalksOK
<1> QED BY <1>3, <1>5, ListShorter DEF Walked

(* A listener that stays on the list is called again.                       *)
LEMMA ListCalled ==
    ASSUME TargetShape, EntriesOK, entries' = entries, NEW n \in 1..log.made, n \notin log.once, CallsOnly(n)
    PROVE  EntriesOK'
<1>1. /\ log.made \in 0..MaxListeners /\ MaxListeners \in Nat /\ log.calls \in [1..MaxListeners -> Nat]
      /\ log'.made = log.made /\ log'.once = log.once /\ log.once \subseteq 1..log.made
      /\ \A m \in 1..MaxListeners : m # n => log'.calls[m] = log.calls[m]
    BY LogSays DEF CallsOnly, EntriesOK
<1>2. \A m \in log.once : m \in 1..MaxListeners /\ log'.calls[m] = log.calls[m]
    BY <1>1
<1>3. \A m \in 1..MaxListeners : m > log.made => log'.calls[m] = log.calls[m]
    BY <1>1
<1>4. OnceIsOnce' /\ (\A m \in 1..MaxListeners : m > log'.made => log'.calls[m] = 0)
    BY <1>1, <1>2, <1>3 DEF OnceIsOnce, EntriesOK
<1>5. \A i \in DOMAIN entries : entries[i].once => log'.calls[entries[i].n] = 0
    BY <1>2 DEF EntriesOK
<1> QED BY <1>1, <1>4, <1>5 DEF EntriesOK

LEMMA SeenCalled ==
    ASSUME TargetShape, entries' = entries, NEW n \in 1..log.made, CallsOnly(n),
           NEW k, SeenOK(stack[k]), stack'[k] = stack[k]
    PROVE  SeenOK(stack[k])'
<1>0. SUFFICES ASSUME stack[k].over = "target" PROVE Called(stack[k])'
    BY DEF SeenOK
<1>1. /\ log.made \in 0..MaxListeners /\ MaxListeners \in Nat /\ log.calls \in [1..MaxListeners -> Nat]
      /\ log'.made = log.made
      /\ \A m \in 1..MaxListeners : log'.calls[m] \in {log.calls[m], log.calls[m] + 1}
    BY LogSays DEF CallsOnly
<1>2. \A m \in ToSet(stack[k].seen) : m \in 1..log'.made /\ log'.calls[m] > 0
  <2> SUFFICES ASSUME NEW m \in ToSet(stack[k].seen) PROVE m \in 1..log'.made /\ log'.calls[m] > 0
      OBVIOUS
  <2>1. m \in 1..log.made /\ log.calls[m] > 0
      BY <1>0 DEF SeenOK, Called
  <2> QED BY <1>1, <2>1
<1> QED BY <1>0, <1>1, <1>2 DEF SeenOK, Called

LEMMA ListenerIsCalled == ASSUME Walked, CallsListener PROVE EntriesOK' /\ WalksOK'
<1>1. /\ stack # <<>> /\ Top.over = "target" /\ ~Top.stop /\ ~(Top.at > Len(entries))
      /\ entries' = Kept(entries[Top.at], Top.at)
      /\ stack' = OnTop([Top EXCEPT !.at = After(entries[Top.at].once, Top.at), !.calling = TRUE,
                                    !.seen = Append(@, entries[Top.at].n)])
      /\ log' = [log EXCEPT !.calls[entries[Top.at].n] = @ + 1]
    BY DEF CallsListener, Walking, AtEnd
<1>2. /\ Len(stack) \in Nat /\ Len(stack) > 0 /\ DOMAIN stack = 1..Len(stack)
      /\ Top \in Frame /\ Top.at \in Nat /\ Top.at > 0 /\ Top.seen \in Seq(Nat) /\ Top = stack[Len(stack)]
    BY <1>1, TopFrame, FrameSays DEF Walked, Top
<1>3. PICK at \in 1..Len(entries) : at = Top.at
    BY <1>1, <1>2, ListSays DEF Walked
<1>4. PICK e \in Entry : e = entries[at]
    BY ListSays DEF Walked
<1>5. /\ entries \in Seq(Entry) /\ Len(entries) \in Nat /\ DOMAIN entries = 1..Len(entries) /\ at \in DOMAIN entries
      /\ e.once \in BOOLEAN /\ e.n \in 1..log.made /\ e.n \in Nat
      /\ e.once <=> e.n \in log.once
      /\ e.once => log.calls[e.n] = 0
      /\ \A j \in DOMAIN entries : entries[j].n = e.n => j = at
    BY <1>4, ListSays DEF Walked, EntriesOK
<1>6. CallsOnly(e.n) /\ log'.calls[e.n] = log.calls[e.n] + 1
  <2>1. log' = [log EXCEPT !.calls[e.n] = @ + 1]
      BY <1>1, <1>3, <1>4
  <2>2. /\ log \in [made : 0..MaxListeners, walks : Nat, once : SUBSET Nat, calls : [1..MaxListeners -> Nat]]
        /\ e.n \in 1..MaxListeners
      BY <1>5, LogSays DEF Walked, TargetShape, LogType
  <2>3. /\ log'.made = log.made /\ log'.once = log.once
        /\ log'.calls = [log.calls EXCEPT ![e.n] = @ + 1]
      BY <2>1, <2>2
  <2> DEFINE c == log.calls
  <2>4. c \in [1..MaxListeners -> Nat]
      BY <2>2
  <2> HIDE DEF c
  <2>5. /\ [c EXCEPT ![e.n] = @ + 1] \in [1..MaxListeners -> Nat]
        /\ [c EXCEPT ![e.n] = @ + 1][e.n] = c[e.n] + 1
        /\ \A m \in 1..MaxListeners : m # e.n => [c EXCEPT ![e.n] = @ + 1][m] = c[m]
      BY <2>2, <2>4
  <2> QED BY <2>3, <2>5 DEF CallsOnly, c
<1> DEFINE goes == After(e.once, at)
           seen == Append(Top.seen, e.n)
           w == [Top EXCEPT !.at = goes, !.calling = TRUE, !.seen = seen]
<1>7. goes \in Nat \ {0} /\ (e.once => goes = at) /\ (~e.once => goes = at + 1)
    BY <1>2, <1>3, <1>5 DEF After
<1>8. /\ IsInjective(Top.seen)
      /\ \A n \in ToSet(Top.seen) : n \in 1..log.made /\ log.calls[n] > 0
      /\ \A i \in DOMAIN entries : i >= at => entries[i].n \notin ToSet(Top.seen)
      /\ ~Top.cut => \A i \in DOMAIN entries : i < at => entries[i].n \in ToSet(Top.seen)
    BY <1>1, <1>2, <1>3 DEF Walked, WalksOK, SeenOK, Called
<1>9. e.n \notin ToSet(Top.seen)
    BY <1>4, <1>5, <1>8
<1>10. seen \in Seq(Nat) /\ IsInjective(seen) /\ ToSet(seen) = ToSet(Top.seen) \cup {e.n}
    BY <1>2, <1>5, <1>8, <1>9, AppendToList
<1>11. stack' = OnTop(w) /\ w = [Top EXCEPT !.at = goes, !.calling = TRUE, !.seen = seen]
    BY <1>1, <1>3, <1>4
<1> HIDE DEF seen, goes, w
<1>12. /\ w \in Frame /\ w.over = "target" /\ w.at = goes /\ w.calling = TRUE /\ w.seen = seen
       /\ w.cut = Top.cut
  <2>1. Top \in Frame /\ goes \in Nat \ {0} /\ seen \in Seq(Nat)
      BY <1>2, <1>7, <1>10
  <2>2. /\ w \in Frame /\ w.over = Top.over /\ w.list = Top.list /\ w.at = goes
        /\ w.calling = TRUE /\ w.seen = seen /\ w.cut = Top.cut
    <3>1. w = [Top EXCEPT !.at = goes, !.calling = TRUE, !.seen = seen]
        BY <1>11
    <3> QED BY <2>1, <3>1 DEF Frame
  <2> QED BY <1>1, <2>2
<1>13. /\ DOMAIN stack' = 1..Len(stack) /\ Len(stack') = Len(stack) /\ stack'[Len(stack)] = w
       /\ \A k \in 1..Len(stack) : k # Len(stack) => stack'[k] = stack[k]
    BY <1>1, <1>11, <1>12, Replaced DEF Walked
<1>14. ASSUME NEW k \in 1..Len(stack), k # Len(stack)
       PROVE  k < Len(stack) /\ stack'[k] = stack[k] /\ SeenOK(stack[k]) /\ stack[k].calling
  <2>1. k < Len(stack)
    <3>1. Len(stack) \in Nat
        BY <1>2
    <3> QED BY <1>14, <3>1
  <2> QED BY <1>2, <1>13, <1>14, <2>1 DEF Walked, WalksOK
<1>15. \A n \in ToSet(seen) : n \in 1..log'.made /\ log'.calls[n] > 0
  <2>1. log.made \in 0..MaxListeners /\ MaxListeners \in Nat /\ log.calls \in [1..MaxListeners -> Nat]
      BY LogSays DEF Walked
  <2>2. ASSUME NEW n \in ToSet(seen) PROVE n \in 1..log'.made /\ log'.calls[n] > 0
    <3>1. CASE n = e.n
      <4>1. log.calls[e.n] \in Nat /\ log'.made = log.made
          BY <1>5, <1>6, <2>1 DEF CallsOnly
      <4> QED BY <1>5, <1>6, <3>1, <4>1
    <3>2. CASE n # e.n
      <4>1. n \in 1..log.made /\ log.calls[n] > 0
          BY <1>8, <1>10, <2>2, <3>2
      <4>2. log'.calls[n] = log.calls[n] /\ log'.made = log.made
          BY <1>6, <2>1, <3>2, <4>1 DEF CallsOnly
      <4> QED BY <4>1, <4>2
    <3> QED BY <3>1, <3>2
  <2> QED BY <2>2
<1>16. ASSUME EntriesOK',
              \A k \in 1..Len(stack) : k # Len(stack) => SeenOK(stack[k])',
              \A i \in DOMAIN entries' : i >= goes => entries'[i].n \notin ToSet(seen),
              ~w.cut => /\ goes <= Len(entries') + 1
                        /\ \A i \in DOMAIN entries' : i < goes => entries'[i].n \in ToSet(seen)
       PROVE  EntriesOK' /\ WalksOK'
  <2>1. ASSUME NEW k \in 1..Len(stack), k = Len(stack) PROVE SeenOK(stack[k])'
    <3>1. stack'[k] = w
        BY <1>13, <2>1
    <3> QED BY <1>10, <1>12, <1>15, <1>16, <3>1 DEF SeenOK, Called
  <2>2. ASSUME NEW k \in 1..Len(stack) PROVE SeenOK(stack[k])' /\ (k < Len(stack) => stack'[k].calling)
    <3>1. CASE k # Len(stack)
        BY <1>14, <1>16, <3>1, Zenon
    <3>2. CASE k = Len(stack)
      <4>1. ~(k < Len(stack))
        <5>1. Len(stack) \in Nat
            BY <1>2
        <5> QED BY <3>2, <5>1
      <4> QED BY <2>1, <3>2, <4>1, Zenon
    <3> QED BY <3>1, <3>2
  <2>3. WalksOK'
      BY <1>13, <2>2 DEF WalksOK
  <2> QED BY <1>16, <2>3
<1>17. CASE e.once
  <2>1. entries' = RemoveAt(entries, at) /\ goes = at
      BY <1>1, <1>3, <1>4, <1>7, <1>17 DEF Kept
  <2>2. /\ Len(entries') = Len(entries) - 1 /\ DOMAIN entries' = 1..(Len(entries) - 1)
        /\ \A j \in 1..(Len(entries) - 1) :
              \/ j < at /\ j \in 1..Len(entries) /\ entries'[j] = entries[j]
              \/ j >= at /\ j + 1 \in 1..Len(entries) /\ entries'[j] = entries[j + 1]
      BY <2>1, Removed DEF Walked
  <2>3. EntriesOK'
      BY <1>4, <1>6, <2>1, ListShorter DEF Walked
  <2>4. ASSUME NEW k \in 1..Len(stack), k # Len(stack) PROVE SeenOK(stack[k])'
    <3>1. SeenOK(stack[k]) /\ stack'[k] = stack[k] /\ stack[k].at \in Nat
        BY <1>14, <2>4, TopFrame, FrameSays DEF Walked
    <3>2. ASSUME stack[k].over = "target", ~stack[k].cut PROVE stack[k].at <= at
      <4>1. e.n \notin ToSet(stack[k].seen)
        <5>1. \A n \in ToSet(stack[k].seen) : log.calls[n] > 0
            BY <3>1, <3>2 DEF SeenOK, Called
        <5> QED BY <1>5, <1>17, <5>1
      <4>2. ~(at < stack[k].at)
          BY <1>4, <1>5, <3>1, <3>2, <4>1 DEF SeenOK, Called
      <4> QED BY <3>1, <4>2
    <3> QED BY <1>4, <1>6, <2>1, <3>1, <3>2, SeenShorter DEF Walked
  <2>5. ASSUME NEW i \in DOMAIN entries', i >= goes PROVE entries'[i].n \notin ToSet(seen)
    <3>1. i + 1 \in DOMAIN entries /\ entries'[i] = entries[i + 1] /\ i + 1 >= at /\ i + 1 # at
        BY <1>5, <2>1, <2>2, <2>5
    <3> QED BY <1>5, <1>8, <1>10, <3>1
  <2>6. ASSUME ~w.cut, NEW i \in DOMAIN entries', i < goes PROVE entries'[i].n \in ToSet(seen)
    <3>1. i \in DOMAIN entries /\ entries'[i] = entries[i] /\ i < at
        BY <1>5, <2>1, <2>2, <2>6
    <3> QED BY <1>8, <1>10, <1>12, <2>6, <3>1
  <2>7. goes <= Len(entries') + 1
      BY <1>5, <2>1, <2>2
  <2> QED BY <1>16, <2>3, <2>4, <2>5, <2>6, <2>7
<1>18. CASE ~e.once
  <2>1. entries' = entries /\ goes = at + 1
      BY <1>1, <1>3, <1>4, <1>7, <1>18 DEF Kept
  <2>2. EntriesOK'
      BY <1>5, <1>6, <1>18, <2>1, ListCalled DEF Walked
  <2>3. ASSUME NEW k \in 1..Len(stack), k # Len(stack) PROVE SeenOK(stack[k])'
      BY <1>5, <1>6, <1>14, <2>1, <2>3, SeenCalled DEF Walked
  <2>4. ASSUME NEW i \in DOMAIN entries', i >= goes PROVE entries'[i].n \notin ToSet(seen)
    <3>1. i \in DOMAIN entries /\ i >= at /\ i # at
        BY <1>5, <2>1, <2>4
    <3> QED BY <1>5, <1>8, <1>10, <2>1, <3>1
  <2>5. ASSUME ~w.cut, NEW i \in DOMAIN entries', i < goes PROVE entries'[i].n \in ToSet(seen)
    <3>1. i \in DOMAIN entries /\ (i < at \/ i = at)
        BY <1>5, <2>1, <2>5
    <3> QED BY <1>4, <1>8, <1>10, <1>12, <2>1, <2>5, <3>1
  <2>6. goes <= Len(entries') + 1
      BY <1>5, <2>1
  <2> QED BY <1>16, <2>2, <2>3, <2>4, <2>5, <2>6
<1> QED BY <1>5, <1>17, <1>18

-----------------------------------------------------------------------------
(* What an abort has still to do.                                           *)
LEMMA DueMoves ==
    ASSUME NEW es, NEW waits, NEW list, NEW from, Due(es, waits, list, from),
           NEW es2, NEW waits2, NEW list2, NEW from2, waits2 => waits,
           \A i \in DOMAIN es2 : es2[i].cut => \E j \in DOMAIN es : es[j].cut /\ es[j].n = es2[i].n,
           \A j \in DOMAIN list : j >= from /\ (list[j].do = "remove" \/ (waits2 /\ list[j].do = "settle")) =>
               \E i \in DOMAIN list2 : i >= from2 /\ list2[i] = list[j]
    PROVE  Due(es2, waits2, list2, from2)
<1>1. ASSUME NEW i \in DOMAIN es2, es2[i].cut
      PROVE  \E j \in DOMAIN list2 : j >= from2 /\ list2[j].do = "remove" /\ list2[j].n = es2[i].n
  <2>1. PICK j \in DOMAIN es : es[j].cut /\ es[j].n = es2[i].n
      BY <1>1
  <2>2. PICK m \in DOMAIN list : m >= from /\ list[m].do = "remove" /\ list[m].n = es[j].n
      BY <2>1 DEF Due
  <2> QED BY <2>1, <2>2
<1>2. ASSUME waits2 PROVE \E j \in DOMAIN list2 : j >= from2 /\ list2[j].do = "settle"
  <2>1. PICK m \in DOMAIN list : m >= from /\ list[m].do = "settle"
      BY <1>2 DEF Due
  <2> QED BY <1>2, <2>1
<1> QED BY <1>1, <1>2 DEF Due

LEMMA DueDone ==
    ASSUME NEW es, NEW waits, NEW list \in Seq(Subscriber), NEW from \in Nat, from > Len(list),
           Due(es, waits, list, from)
    PROVE  Due(es, waits, <<>>, 1)
<1>1. ~\E j \in DOMAIN list : j >= from
    OBVIOUS
<1> QED BY <1>1 DEF Due

(* The entries that a signal is to take off become no more.                 *)
Fewer == \A i \in DOMAIN entries' : entries'[i].cut => \E j \in DOMAIN entries : entries[j].cut /\ entries[j].n = entries'[i].n

LEMMA FewerSame == ASSUME entries' = entries PROVE Fewer
BY DEF Fewer

LEMMA FewerRemoved ==
    ASSUME TargetShape, NEW i \in 1..Len(entries), entries' = RemoveAt(entries, i) PROVE Fewer
<1>1. /\ DOMAIN entries' = 1..(Len(entries) - 1) /\ DOMAIN entries = 1..Len(entries)
      /\ \A j \in 1..(Len(entries) - 1) :
            \/ j < i /\ j \in 1..Len(entries) /\ entries'[j] = entries[j]
            \/ j >= i /\ j + 1 \in 1..Len(entries) /\ entries'[j] = entries[j + 1]
    BY Removed, ListSays
<1>2. \A j \in DOMAIN entries' : \E m \in DOMAIN entries : entries'[j] = entries[m]
    BY <1>1
<1> QED BY <1>2 DEF Fewer

LEMMA AbortGoesOn ==
    ASSUME TargetShape, Due(entries, Waiting, <<>>, 1) \/ AbortGoes, Fewer, Waiting' => Waiting,
           \A k \in DOMAIN stack : stack[k].over = "signal" =>
               \/ stack[k].at > Len(stack[k].list)
               \/ /\ k \in DOMAIN stack' /\ stack'[k].over = "signal"
                  /\ stack'[k].list = stack[k].list /\ stack'[k].at = stack[k].at
    PROVE  Due(entries', Waiting', <<>>, 1) \/ AbortGoes'
<1>1. ASSUME NEW list, NEW from, Due(entries, Waiting, list, from)
      PROVE  Due(entries', Waiting', list, from)
    BY <1>1, DueMoves DEF Fewer
<1>2. CASE AbortGoes
  <2>1. PICK k \in DOMAIN stack : stack[k].over = "signal" /\ Due(entries, Waiting, stack[k].list, stack[k].at)
      BY <1>2 DEF AbortGoes
  <2>2. stack[k].list \in Seq(Subscriber) /\ stack[k].at \in Nat
      BY TopFrame, FrameSays
  <2>3. CASE stack[k].at > Len(stack[k].list)
      BY <1>1, <2>1, <2>2, <2>3, DueDone
  <2>4. CASE ~(stack[k].at > Len(stack[k].list))
    <3>1. k \in DOMAIN stack' /\ stack'[k].over = "signal" /\ stack'[k].list = stack[k].list /\ stack'[k].at = stack[k].at
        BY <2>1, <2>4
    <3> QED BY <1>1, <2>1, <3>1 DEF AbortGoes
  <2> QED BY <2>3, <2>4
<1> QED BY <1>1, <1>2

LEMMA AbortKept ==
    ASSUME TargetShape, AbortOK, UNCHANGED <<subs, aborted, waiter>>, Fewer,
           \A k \in DOMAIN stack : stack[k].over = "signal" =>
               \/ stack[k].at > Len(stack[k].list)
               \/ /\ k \in DOMAIN stack' /\ stack'[k].over = "signal"
                  /\ stack'[k].list = stack[k].list /\ stack'[k].at = stack[k].at
    PROVE  AbortOK'
<1>1. Waiting' = Waiting /\ WatchOK'
    BY DEF Waiting, WatchOK, AbortOK
<1>2. aborted => Due(entries', Waiting', <<>>, 1) \/ AbortGoes'
    BY <1>1, AbortGoesOn DEF AbortOK
<1>3. ~aborted => Due(entries', Waiting', subs["signal"], 1)
  <2>1. SUFFICES ASSUME Due(entries, Waiting, subs["signal"], 1)
                 PROVE  Due(entries', Waiting', subs["signal"], 1)
      BY DEF AbortOK
  <2> QED BY <1>1, <2>1, DueMoves DEF Fewer
<1> QED BY <1>1, <1>2, <1>3 DEF AbortOK

(* The list of the signal.                                                  *)
LEMMA TakenOff ==
    ASSUME NEW list \in Seq(Subscriber), NEW i \in DOMAIN list, NEW left, left = RemoveAt(list, i)
    PROVE  /\ left \in Seq(Subscriber)
           /\ \A c \in DOMAIN list : c # i => \E a \in DOMAIN left : left[a] = list[c]
           /\ \A a \in DOMAIN left : \E c \in DOMAIN list : c # i /\ left[a] = list[c]
           /\ \A a, b \in DOMAIN left : a # b => 
                \E c, d \in DOMAIN list : c # d /\ left[a] = list[c] /\ left[b] = list[d]
<1> DEFINE n == Len(list)
<1>1. n \in Nat /\ i \in 1..n /\ DOMAIN list = 1..n
    OBVIOUS
<1>2. /\ left \in Seq(Subscriber) /\ DOMAIN left = 1..(n - 1)
      /\ \A j \in 1..(i - 1) : left[j] = list[j]
      /\ \A j \in i..(n - 1) : left[j] = list[j + 1]
    BY <1>1, RemoveAtPosition
<1> HIDE DEF n
<1>3. ASSUME NEW c \in DOMAIN list, c # i PROVE \E a \in DOMAIN left : left[a] = list[c]
  <2>1. CASE c < i
    <3>1. c \in DOMAIN left /\ c \in 1..(i - 1)
        BY <1>1, <1>2, <1>3, <2>1
    <3> QED BY <1>2, <3>1
  <2>2. CASE c > i
    <3>1. c - 1 \in DOMAIN left /\ c - 1 \in i..(n - 1) /\ (c - 1) + 1 = c
        BY <1>1, <1>2, <1>3, <2>2
    <3> QED BY <1>2, <3>1
  <2> QED BY <1>1, <1>3, <2>1, <2>2
<1>4. ASSUME NEW a \in DOMAIN left
      PROVE  \E c \in DOMAIN list : c # i /\ left[a] = list[c] /\ c = IF a < i THEN a ELSE a + 1
  <2>1. CASE a < i
    <3>1. a \in DOMAIN list /\ a \in 1..(i - 1) /\ a # i
        BY <1>1, <1>2, <1>4, <2>1
    <3> QED BY <1>2, <2>1, <3>1
  <2>2. CASE ~(a < i)
    <3>1. a + 1 \in DOMAIN list /\ a \in i..(n - 1) /\ a + 1 # i
        BY <1>1, <1>2, <1>4, <2>2
    <3> QED BY <1>2, <2>2, <3>1
  <2> QED BY <2>1, <2>2
<1>5. ASSUME NEW a \in DOMAIN left, NEW b \in DOMAIN left, a # b
      PROVE  \E c, d \in DOMAIN list : c # d /\ left[a] = list[c] /\ left[b] = list[d]
  <2>1. PICK c \in DOMAIN list : left[a] = list[c] /\ c = IF a < i THEN a ELSE a + 1
      BY <1>4
  <2>2. PICK d \in DOMAIN list : left[b] = list[d] /\ d = IF b < i THEN b ELSE b + 1
      BY <1>4
  <2>3. c # d
      BY <1>1, <1>2, <1>5, <2>1, <2>2
  <2> QED BY <2>1, <2>2, <2>3
<1> QED BY <1>2, <1>3, <1>4, <1>5

OneWatch(list) == \A i, j \in DOMAIN list : list[i].do = "settle" /\ list[j].do = "settle" => i = j
NoWatch(list) == \A i \in DOMAIN list : list[i].do # "settle"
(* What a list keeps of another: everything but who waits.                  *)
KeepsRest(list, left) == \A c \in DOMAIN list : list[c].do = "remove" => \E a \in DOMAIN left : left[a] = list[c]

LEMMA UnwatchedList ==
    ASSUME NEW list \in Seq(Subscriber), OneWatch(list)
    PROVE  Unwatched(list) \in Seq(Subscriber) /\ NoWatch(Unwatched(list)) /\ KeepsRest(list, Unwatched(list))
<1> DEFINE at == {i \in DOMAIN list : list[i].do = "settle"}
<1>1. CASE at = {}
  <2>1. Unwatched(list) = list
      BY <1>1 DEF Unwatched
  <2> QED BY <1>1, <2>1 DEF NoWatch, KeepsRest
<1>2. CASE at # {}
  <2>1. PICK i \in DOMAIN list : list[i].do = "settle" /\ i = CHOOSE m \in at : TRUE
      BY <1>2
  <2>2. PICK left : left = RemoveAt(list, i)
      OBVIOUS
  <2>3. Unwatched(list) = left
      BY <1>2, <2>1, <2>2 DEF Unwatched
  <2>4. /\ left \in Seq(Subscriber)
        /\ \A c \in DOMAIN list : c # i => \E a \in DOMAIN left : left[a] = list[c]
        /\ \A a \in DOMAIN left : \E c \in DOMAIN list : c # i /\ left[a] = list[c]
      BY <2>2, TakenOff
  <2>5. NoWatch(left)
      BY <2>1, <2>4 DEF NoWatch, OneWatch
  <2>6. KeepsRest(list, left)
      BY <2>1, <2>4 DEF KeepsRest
  <2> QED BY <2>3, <2>4, <2>5, <2>6
<1> QED BY <1>1, <1>2

LEMMA SignalList ==
    ASSUME TargetShape
    PROVE  /\ \A l \in Lists : subs[l] \in Seq(Subscriber)
           /\ "signal" \in Lists /\ subs["signal"] \in Seq(Subscriber)
BY DEF TargetShape, Lists

LEMMA WatchSays ==
    WatchOK <=> OneWatch(subs["signal"]) /\ (~Waiting => waiter.on = {} /\ NoWatch(subs["signal"]))
BY DEF WatchOK, OneWatch, NoWatch

(* events.once is over: nothing of it is left on the signal.                *)
LEMMA Cleaned ==
    ASSUME TargetShape, WatchOK, NEW how \in {"resolved", "rejected"}, CleanedUp(how)
    PROVE  /\ waiter' \in WaiterType /\ subs' \in [Lists -> Seq(Subscriber)]
           /\ ~Waiting' /\ WatchOK' /\ KeepsRest(subs["signal"], subs'["signal"])
<1> DEFINE old == subs["signal"]
<1>1. old \in Seq(Subscriber) /\ OneWatch(old)
    BY SignalList, WatchSays
<1>2. Unwatched(old) \in Seq(Subscriber) /\ NoWatch(Unwatched(old)) /\ KeepsRest(old, Unwatched(old))
    BY <1>1, UnwatchedList
<1>3. subs' = [subs EXCEPT !["signal"] = Unwatched(old)]
    BY DEF CleanedUp
<1>4. subs' \in [Lists -> Seq(Subscriber)] /\ subs'["signal"] = Unwatched(old)
    BY <1>2, <1>3, SignalList DEF TargetShape
<1>5. waiter' = [state |-> IF waiter.state = "waiting" THEN how ELSE waiter.state, on |-> {}]
    BY DEF CleanedUp
<1>6. waiter' \in WaiterType /\ ~Waiting' /\ waiter'.on = {}
    BY <1>5 DEF TargetShape, WaiterType, Waiting
<1>7. NoWatch(subs'["signal"]) /\ OneWatch(subs'["signal"])
    BY <1>2, <1>4 DEF NoWatch, OneWatch
<1>8. WatchOK'
    BY <1>6, <1>7 DEF WatchOK, OneWatch, NoWatch
<1> QED BY <1>2, <1>4, <1>6, <1>8

(* Someone is put on a list: who was on the signal's list stays there.      *)
LEMMA Subscribed ==
    ASSUME TargetShape, NEW l \in Lists, NEW p \in Subscriber, subs' = [subs EXCEPT ![l] = Append(@, p)]
    PROVE  /\ subs' \in [Lists -> Seq(Subscriber)]
           /\ KeepsRest(subs["signal"], subs'["signal"])
           /\ p.do # "settle" => (OneWatch(subs["signal"]) => OneWatch(subs'["signal"]))
           /\ p.do # "settle" => (NoWatch(subs["signal"]) => NoWatch(subs'["signal"]))
           /\ NoWatch(subs["signal"]) => OneWatch(subs'["signal"])
           /\ l = "signal" => \E i \in DOMAIN subs'["signal"] : i >= 1 /\ subs'["signal"][i] = p
           /\ \A j \in DOMAIN subs["signal"] : j >= 1 =>
                \E i \in DOMAIN subs'["signal"] : i >= 1 /\ subs'["signal"][i] = subs["signal"][j]
<1>1. PICK old \in Seq(Subscriber) : old = subs["signal"]
    BY SignalList
<1>2. PICK new : new = subs'["signal"]
    OBVIOUS
<1>3. Append(subs[l], p) \in Seq(Subscriber)
    BY SignalList
<1>4. subs' \in [Lists -> Seq(Subscriber)]
    BY <1>3 DEF TargetShape
<1>5. CASE l = "signal"
  <2>1. new = Append(old, p)
      BY <1>1, <1>2, <1>5, SignalList DEF TargetShape
  <2>2. /\ Len(old) \in Nat /\ DOMAIN old = 1..Len(old) /\ DOMAIN new = 1..(Len(old) + 1) /\ new[Len(old) + 1] = p
        /\ \A i \in 1..Len(old) : new[i] = old[i]
      BY <2>1
  <2>3. /\ \A i \in DOMAIN new : (i \in DOMAIN old /\ new[i] = old[i]) \/ (i = Len(old) + 1 /\ new[i] = p)
        /\ \A i \in DOMAIN old : i \in DOMAIN new /\ new[i] = old[i] /\ i >= 1
        /\ Len(old) + 1 \in DOMAIN new /\ Len(old) + 1 >= 1
      BY <2>2
  <2>4. /\ KeepsRest(old, new)
        /\ p.do # "settle" => (OneWatch(old) => OneWatch(new))
        /\ p.do # "settle" => (NoWatch(old) => NoWatch(new))
        /\ NoWatch(old) => OneWatch(new)
      BY <2>3 DEF KeepsRest, OneWatch, NoWatch
  <2> QED BY <1>1, <1>2, <1>4, <2>2, <2>3, <2>4
<1>6. CASE l # "signal"
  <2>1. new = old
      BY <1>1, <1>2, <1>6, SignalList DEF TargetShape
  <2>2. KeepsRest(old, old) /\ (NoWatch(old) => OneWatch(old))
      BY DEF KeepsRest, OneWatch, NoWatch
  <2> QED BY <1>1, <1>2, <1>4, <1>6, <2>1, <2>2
<1> QED BY <1>5, <1>6

-----------------------------------------------------------------------------
(* Every step keeps the walks and the abort.                                *)
LEMMA LogStays == ASSUME TargetShape, log' = log PROVE SameLog
BY LogSays DEF SameLog

LEMMA LogWalks == ASSUME TargetShape, log' = Counted PROVE SameLog /\ log' \in LogType
<1>1. log \in LogType /\ log' = [log EXCEPT !.walks = @ + 1] /\ log.walks \in Nat
    BY LogSays DEF TargetShape, Counted
<1>2. log' \in LogType /\ log'.made = log.made /\ log'.once = log.once /\ log'.calls = log.calls
    BY <1>1 DEF LogType
<1> QED BY <1>2, LogSays DEF SameLog

LEMMA Quiet == ASSUME TInv, UNCHANGED targetVars PROVE TInv'
<1>1. UNCHANGED <<entries, subs, aborted, waiter, stack, log>>
    BY DEF targetVars
<1>2. TargetShape' /\ SameLog
    BY <1>1, LogStays DEF TInv, TargetShape
<1>3. EntriesOK' /\ WalksOK'
    BY <1>1, <1>2, StackKept DEF TInv, Walked
<1>4. AbortOK'
    BY <1>1 DEF TInv, AbortOK, AbortGoes, WatchOK, Waiting
<1> QED BY <1>2, <1>3, <1>4 DEF TInv

(* A walk begins, changes or ends.                                          *)
LEMMA WalkBegins ==
    ASSUME TInv, NEW w \in Frame, w.seen = <<>>, w.at = 1, ScriptRuns, stack' = Append(stack, w),
           UNCHANGED <<entries, subs, aborted, waiter>>, SameLog, log' \in LogType
    PROVE  TInv'
<1>1. TargetShape'
    BY Pushed DEF TInv, TargetShape
<1>2. EntriesOK' /\ WalksOK'
    BY StackGrows DEF TInv, Walked
<1>3. \A k \in DOMAIN stack : k \in DOMAIN stack' /\ stack'[k] = stack[k]
    BY Pushed, TopFrame DEF TInv
<1>4. AbortOK'
    BY <1>3, AbortKept, FewerSame DEF TInv
<1> QED BY <1>1, <1>2, <1>4 DEF TInv

LEMMA WalkTurns ==
    ASSUME TInv, stack # <<>>, NEW w \in Frame, stack' = OnTop(w),
           UNCHANGED <<entries, subs, aborted, waiter, log>>,
           \/ w.seen = <<>> /\ w.at = 1 /\ Top.over # "signal"
           \/ w.over = Top.over /\ w.list = Top.list /\ w.seen = Top.seen /\ w.at = Top.at /\ w.cut = Top.cut
    PROVE  TInv'
<1>1. TargetShape' /\ SameLog
    BY Replaced, LogStays DEF TInv, TargetShape
<1>2. EntriesOK' /\ WalksOK'
    BY <1>1, TopTurns DEF TInv, Walked
<1>3. /\ DOMAIN stack = 1..Len(stack) /\ DOMAIN stack' = 1..Len(stack) /\ stack'[Len(stack)] = w
      /\ \A k \in 1..Len(stack) : k # Len(stack) => stack'[k] = stack[k]
    BY Replaced, TopFrame DEF TInv
<1>4. ASSUME NEW k \in DOMAIN stack, stack[k].over = "signal"
      PROVE  /\ k \in DOMAIN stack' /\ stack'[k].over = "signal"
             /\ stack'[k].list = stack[k].list /\ stack'[k].at = stack[k].at
    BY <1>3, <1>4 DEF Top
<1>5. AbortOK'
    BY <1>4, AbortKept, FewerSame DEF TInv
<1> QED BY <1>1, <1>2, <1>5 DEF TInv

LEMMA WalkOver ==
    ASSUME TInv, stack # <<>>, stack' = Front(stack), UNCHANGED <<entries, subs, aborted, waiter, log>>,
           Top.over = "signal" => Top.at > Len(Top.list)
    PROVE  TInv'
<1>1. TargetShape' /\ SameLog
    BY FrontOf, LogStays DEF TInv, TargetShape
<1>2. EntriesOK' /\ WalksOK'
    BY <1>1, StackShrinks DEF TInv, Walked
<1>3. /\ Len(stack) \in Nat /\ DOMAIN stack = 1..Len(stack) /\ DOMAIN stack' = 1..(Len(stack) - 1)
      /\ \A k \in 1..(Len(stack) - 1) : stack'[k] = stack[k]
    BY FrontOf, TopFrame DEF TInv, TargetShape
<1>4. ASSUME NEW k \in DOMAIN stack, stack[k].over = "signal"
      PROVE  \/ stack[k].at > Len(stack[k].list)
             \/ /\ k \in DOMAIN stack' /\ stack'[k].over = "signal"
                /\ stack'[k].list = stack[k].list /\ stack'[k].at = stack[k].at
  <2>1. CASE k = Len(stack)
      BY <1>4, <2>1 DEF Top
  <2>2. CASE k # Len(stack)
    <3>1. k \in 1..(Len(stack) - 1)
      <4>1. Len(stack) \in Nat /\ k \in 1..Len(stack)
          BY <1>3
      <4> QED BY <2>2, <4>1
    <3> QED BY <1>3, <1>4, <3>1
  <2> QED BY <2>1, <2>2
<1>5. AbortOK'
    BY <1>4, AbortKept, FewerSame DEF TInv
<1> QED BY <1>1, <1>2, <1>5 DEF TInv

LEMMA DispatchesStep == ASSUME TInv, Dispatches PROVE TInv'
<1>1. "target" \in Walks \cup {"handler"} /\ <<>> \in Seq(Subscriber)
    BY DEF Walks
<1>2. PICK w \in Frame : w = Walk("target", <<>>) /\ w.seen = <<>> /\ w.at = 1
    BY <1>1, FreshFrame
<1>3. SameLog /\ log' \in LogType
    BY LogWalks DEF TInv, Dispatches
<1> QED BY <1>2, <1>3, WalkBegins DEF Dispatches, Does

LEMMA PublishesStep == ASSUME TInv, Publishes PROVE TInv'
<1>1. "channel" \in Walks \cup {"handler"} /\ subs["channel"] \in Seq(Subscriber)
    BY SignalList DEF TInv, Walks, Lists
<1>2. PICK w \in Frame : w = Walk("channel", subs["channel"]) /\ w.seen = <<>> /\ w.at = 1
    BY <1>1, FreshFrame
<1>3. SameLog /\ log' \in LogType
    BY LogWalks DEF TInv, Publishes
<1> QED BY <1>2, <1>3, WalkBegins DEF Publishes, Does

LEMMA DeliveryWalks == ASSUME TInv, Deliver PROVE TInv'
<1>1. {"target", "handler"} \subseteq Walks \cup {"handler"} /\ <<>> \in Seq(Subscriber)
    BY DEF Walks
<1>2. PICK v \in Frame : v = Walk("handler", <<>>) /\ v.seen = <<>> /\ v.at = 1
    BY <1>1, FreshFrame
<1>3. PICK t \in Frame : t = Walk("target", <<>>) /\ t.seen = <<>> /\ t.at = 1
    BY <1>1, FreshFrame
<1>4. PICK u : u = [v EXCEPT !.calling = TRUE]
    OBVIOUS
<1>5. u \in Frame /\ u.seen = <<>> /\ u.at = 1
    BY <1>2, <1>4, FrameFlag
<1>6. PICK w \in Frame : w = (IF port.handler THEN u ELSE t) /\ w.seen = <<>> /\ w.at = 1
    BY <1>3, <1>5
<1>7. stack = <<>> /\ stack' = <<w>>
    BY <1>2, <1>3, <1>4, <1>6 DEF Deliver
<1>8. stack' = Append(stack, w) /\ ScriptRuns
    BY <1>7 DEF ScriptRuns
<1>9. SameLog /\ log' \in LogType
    BY LogStays DEF TInv, Deliver, TargetShape
<1> QED BY <1>6, <1>8, <1>9, WalkBegins DEF Deliver

LEMMA HandlerWalks == ASSUME TInv, HandlerReturns PROVE TInv'
<1>1. "target" \in Walks \cup {"handler"} /\ <<>> \in Seq(Subscriber)
    BY DEF Walks
<1>2. PICK w \in Frame : w = Walk("target", <<>>) /\ w.seen = <<>> /\ w.at = 1
    BY <1>1, FreshFrame
<1> QED BY <1>2, WalkTurns DEF HandlerReturns

LEMMA StopsStep == ASSUME TInv, Stops PROVE TInv'
<1>1. stack # <<>> /\ Top \in Frame
    BY TopFrame DEF TInv, Stops
<1>2. PICK w : w = [Top EXCEPT !.stop = TRUE]
    OBVIOUS
<1>3. /\ w \in Frame /\ w.over = Top.over /\ w.list = Top.list /\ w.seen = Top.seen /\ w.at = Top.at
      /\ w.cut = Top.cut
    BY <1>1, <1>2, FrameFlag
<1> QED BY <1>1, <1>2, <1>3, WalkTurns DEF Stops

LEMMA ReturnedStep ==
    ASSUME TInv, stack # <<>>, stack' = Returned, UNCHANGED <<entries, subs, aborted, waiter, log>> PROVE TInv'
<1>1. Top \in Frame
    BY TopFrame DEF TInv
<1>2. PICK w : w = [Top EXCEPT !.calling = FALSE]
    OBVIOUS
<1>3. /\ w \in Frame /\ w.over = Top.over /\ w.list = Top.list /\ w.seen = Top.seen /\ w.at = Top.at
      /\ w.cut = Top.cut
    BY <1>1, <1>2, FrameFlag
<1> QED BY <1>1, <1>2, <1>3, WalkTurns DEF Returned

LEMMA ThrowsStep == ASSUME TInv, ListenerThrows PROVE TInv'
<1>1. stack # <<>> /\ UNCHANGED <<entries, subs, aborted, waiter, log>> /\ stack' = Thrown(Top)
    BY DEF ListenerThrows
<1>2. CASE Top.over \in Lists
    BY <1>1, <1>2, ReturnedStep DEF Thrown
<1>3. CASE Top.over \notin Lists
    BY <1>1, <1>3, WalkOver DEF Thrown, Lists
<1> QED BY <1>2, <1>3

LEMMA EndsStep == ASSUME TInv, DispatchEnds \/ WalkEnds PROVE TInv'
<1>1. CASE DispatchEnds
    BY <1>1, WalkOver DEF DispatchEnds, Walking
<1>2. CASE WalkEnds
    BY <1>2, WalkOver DEF WalkEnds, Walking
<1> QED BY <1>1, <1>2

LEMMA CallsStep == ASSUME TInv, CallsListener PROVE TInv'
<1>1. EntriesOK' /\ WalksOK'
    BY ListenerIsCalled DEF TInv, Walked
<1>2. /\ stack # <<>> /\ Top.over = "target" /\ ~(Top.at > Len(entries))
      /\ entries' = Kept(entries[Top.at], Top.at)
      /\ stack' = OnTop([Top EXCEPT !.at = After(entries[Top.at].once, Top.at), !.calling = TRUE,
                                    !.seen = Append(@, entries[Top.at].n)])
      /\ log' = [log EXCEPT !.calls[entries[Top.at].n] = @ + 1]
      /\ UNCHANGED <<subs, aborted, waiter>>
    BY DEF CallsListener, Walking, AtEnd
<1>3. /\ Top \in Frame /\ Top.at \in Nat /\ Top.at > 0 /\ Top.seen \in Seq(Nat) /\ DOMAIN stack = 1..Len(stack)
      /\ Top = stack[Len(stack)]
    BY <1>2, TopFrame, FrameSays DEF TInv, Top
<1>4. PICK at \in 1..Len(entries) : at = Top.at
    BY <1>2, <1>3, ListSays DEF TInv
<1>5. PICK e \in Entry : e = entries[at] /\ e.n \in 1..log.made /\ e.n \in Nat /\ e.once \in BOOLEAN
    BY ListSays DEF TInv, EntriesOK
<1>6. PICK w : w = [Top EXCEPT !.at = After(e.once, at), !.calling = TRUE, !.seen = Append(@, e.n)]
    OBVIOUS
<1>7. w \in Frame
  <2>1. After(e.once, at) \in Nat \ {0} /\ Append(Top.seen, e.n) \in Seq(Nat)
      BY <1>3, <1>4, <1>5 DEF After
  <2>2. w = [Top EXCEPT !.at = After(e.once, at), !.calling = TRUE, !.seen = Append(Top.seen, e.n)]
      BY <1>6
  <2> QED BY <1>3, <2>1, <2>2 DEF Frame
<1>8. stack' = OnTop(w)
    BY <1>2, <1>4, <1>5, <1>6
<1>9. entries' = entries \/ entries' = RemoveAt(entries, at)
    BY <1>2, <1>4 DEF Kept
<1>10. entries' \in Seq(Entry) /\ Fewer
    BY <1>9, FewerSame, FewerRemoved, Removed, ListSays DEF TInv
<1>11. log' \in LogType
  <2>1. log \in LogType /\ e.n \in 1..MaxListeners
      BY <1>5, LogSays DEF TInv, TargetShape
  <2>2. log' = [log EXCEPT !.calls[e.n] = @ + 1]
      BY <1>2, <1>4, <1>5
  <2>3. PICK c : c = [log.calls EXCEPT ![e.n] = @ + 1]
      OBVIOUS
  <2>4. c \in [1..MaxListeners -> Nat]
    <3>1. PICK d \in [1..MaxListeners -> Nat] : d = log.calls
        BY LogSays DEF TInv
    <3>2. c = [d EXCEPT ![e.n] = @ + 1]
        BY <2>3, <3>1
    <3>3. PICK m \in 1..MaxListeners : m = e.n
        BY <2>1
    <3>4. d[m] \in Nat /\ c = [d EXCEPT ![m] = @ + 1]
        BY <3>2, <3>3
    <3> QED BY <3>4
  <2>5. log' = [log EXCEPT !.calls = c]
      BY <2>1, <2>2, <2>3 DEF LogType
  <2> QED BY <2>1, <2>4, <2>5 DEF LogType
<1>12. TargetShape'
    BY <1>2, <1>7, <1>8, <1>10, <1>11, Replaced DEF TInv, TargetShape
<1>13. ASSUME NEW k \in DOMAIN stack, stack[k].over = "signal" PROVE k \in DOMAIN stack' /\ stack'[k] = stack[k]
  <2>1. k # Len(stack)
      BY <1>2, <1>3, <1>13
  <2> QED BY <1>2, <1>3, <1>7, <1>8, <2>1, Replaced DEF TInv
<1>14. AbortOK'
    BY <1>2, <1>10, <1>13, AbortKept DEF TInv
<1> QED BY <1>1, <1>12, <1>14 DEF TInv

LEMMA RemovesStep == ASSUME TInv, NEW fn \in Callbacks, Removes(fn) PROVE TInv'
<1>1. UNCHANGED <<subs, aborted, waiter, log>>
    BY DEF Removes
<1>2. PICK i \in 1..Len(entries) : entries' = RemoveAt(entries, i) /\ stack' = CutAt(stack, i)
    BY ListSays DEF Removes, TInv
<1>3. stack \in Seq(Frame) /\ i \in Nat /\ DOMAIN stack = 1..Len(stack)
    BY <1>2, ListSays, TopFrame DEF TInv, TargetShape
<1>4. /\ stack' \in Seq(Frame) /\ DOMAIN stack' = 1..Len(stack)
      /\ \A k \in 1..Len(stack) : stack'[k].over = stack[k].over /\ stack'[k].list = stack[k].list /\ stack'[k].at = stack[k].at
    BY <1>2, <1>3, MarkedFrames
<1>5. TargetShape'
    BY <1>1, <1>2, <1>4, Removed DEF TInv, TargetShape
<1>6. EntriesOK' /\ WalksOK'
    BY <1>1, <1>2, <1>3, ListenerGoes DEF TInv, Walked
<1>7. AbortOK'
    BY <1>1, <1>2, <1>3, <1>4, AbortKept, FewerRemoved DEF TInv
<1> QED BY <1>5, <1>6, <1>7 DEF TInv

(* The list grows, or the signal's does.                                    *)
LEMMA AddsStep ==
    ASSUME TInv, NEW fn \in Callbacks, NEW once \in BOOLEAN, NEW withSignal \in BOOLEAN, Adds(fn, once, withSignal)
    PROVE  TInv'
<1>1. /\ log.made < MaxListeners /\ \A i \in DOMAIN entries : entries[i].fn # fn
      /\ ~(withSignal /\ aborted)
      /\ entries' = Append(entries, [fn |-> fn, once |-> once, cut |-> withSignal, n |-> log.made + 1])
      /\ subs' = IF withSignal THEN [subs EXCEPT !["signal"] = Append(@, [do |-> "remove", n |-> log.made + 1])] ELSE subs
      /\ log' = [log EXCEPT !.made = log.made + 1, !.once = IF once THEN @ \cup {log.made + 1} ELSE @]
      /\ UNCHANGED <<aborted, waiter, stack>>
    BY DEF Adds
<1>2. log \in LogType /\ log.made + 1 \in 1..MaxListeners /\ log.made \in Nat /\ MaxListeners \in Nat
    BY <1>1, LogSays DEF TInv, TargetShape
<1>3. PICK e \in Entry : e = [fn |-> fn, once |-> once, cut |-> withSignal, n |-> log.made + 1]
  <2>1. log.made + 1 \in Nat
      BY <1>2
  <2>2. [fn |-> fn, once |-> once, cut |-> withSignal, n |-> log.made + 1] \in Entry
      BY <2>1 DEF Entry
  <2> QED BY <2>2
<1>4. PICK p \in Subscriber : p = [do |-> "remove", n |-> log.made + 1]
  <2>1. log.made + 1 \in Nat
      BY <1>2
  <2>2. [do |-> "remove", n |-> log.made + 1] \in Subscriber
      BY <2>1 DEF Subscriber
  <2> QED BY <2>2
<1>5. /\ log'.made = log.made + 1 /\ log'.calls = log.calls
      /\ log'.once = (IF e.once THEN log.once \cup {log.made + 1} ELSE log.once) /\ log' \in LogType
  <2>1. PICK o : o = IF once THEN log.once \cup {log.made + 1} ELSE log.once
      OBVIOUS
  <2>2. o \in SUBSET Nat
      BY <1>2, <2>1 DEF LogType
  <2>3. log' = [log EXCEPT !.made = log.made + 1, !.once = o]
      BY <1>1, <2>1
  <2>4. log'.made = log.made + 1 /\ log'.calls = log.calls /\ log'.once = o
      BY <1>2, <2>3 DEF LogType
  <2>5. log' \in LogType
    <3>1. log.made + 1 \in 0..MaxListeners
        BY <1>2
    <3> QED BY <1>2, <2>2, <2>3, <3>1 DEF LogType
  <2>6. o = IF e.once THEN log.once \cup {log.made + 1} ELSE log.once
      BY <1>3, <2>1
  <2> QED BY <2>4, <2>5, <2>6
<1>6. /\ EntriesOK'
      /\ \A k \in 1..Len(stack) : SeenOK(stack[k]) => \A l : stack'[l] = stack[k] => SeenOK(stack[l])'
    BY <1>1, <1>3, <1>5, Longer DEF TInv
<1>7. WalksOK'
    BY <1>1, <1>6, TopFrame DEF TInv, WalksOK
<1>8. "signal" \in Lists /\ (withSignal => subs' = [subs EXCEPT !["signal"] = Append(@, p)])
    BY <1>1, <1>4 DEF Lists
<1>9. subs' \in [Lists -> Seq(Subscriber)]
    BY <1>1, <1>8, Subscribed DEF TInv, TargetShape
<1>10. TargetShape'
    BY <1>1, <1>3, <1>5, <1>9 DEF TInv, TargetShape
<1>11. \A i \in DOMAIN entries' : (i \in DOMAIN entries /\ entries'[i] = entries[i]) \/ entries'[i] = e
    BY <1>1, <1>3, ListSays DEF TInv
<1>12. CASE withSignal
  <2>1. /\ ~aborted /\ p.do = "remove" /\ p.n = e.n
        /\ Due(entries, Waiting, subs["signal"], 1) /\ Waiting' = Waiting /\ waiter' = waiter
      BY <1>1, <1>3, <1>4, <1>12 DEF TInv, AbortOK, Waiting
  <2>2. /\ OneWatch(subs["signal"]) => OneWatch(subs'["signal"])
        /\ NoWatch(subs["signal"]) => NoWatch(subs'["signal"])
        /\ \E i \in DOMAIN subs'["signal"] : i >= 1 /\ subs'["signal"][i] = p
        /\ \A j \in DOMAIN subs["signal"] : j >= 1 =>
                \E i \in DOMAIN subs'["signal"] : i >= 1 /\ subs'["signal"][i] = subs["signal"][j]
    <3>1. "signal" \in Lists /\ p.do # "settle" /\ subs' = [subs EXCEPT !["signal"] = Append(@, p)]
        BY <1>8, <1>12, <2>1
    <3> QED BY <3>1, Subscribed DEF TInv
  <2>3. ASSUME NEW i \in DOMAIN entries', entries'[i].cut
        PROVE  \E j \in DOMAIN subs'["signal"] :
                   j >= 1 /\ subs'["signal"][j].do = "remove" /\ subs'["signal"][j].n = entries'[i].n
    <3>1. CASE i \in DOMAIN entries /\ entries'[i] = entries[i]
      <4>1. PICK j \in DOMAIN subs["signal"] :
                j >= 1 /\ subs["signal"][j].do = "remove" /\ subs["signal"][j].n = entries[i].n
          BY <2>1, <2>3, <3>1 DEF Due
      <4> QED BY <2>2, <3>1, <4>1
    <3>2. CASE entries'[i] = e
        BY <2>1, <2>2, <3>2
    <3> QED BY <1>11, <3>1, <3>2
  <2>4. Due(entries', Waiting', subs'["signal"], 1)
      BY <2>1, <2>2, <2>3 DEF Due
  <2>5. WatchOK'
      BY <2>1, <2>2, WatchSays DEF TInv, AbortOK, WatchOK, OneWatch, NoWatch
  <2> QED BY <1>1, <1>6, <1>7, <1>10, <2>1, <2>4, <2>5 DEF TInv, AbortOK
<1>13. CASE ~withSignal
  <2>1. subs' = subs /\ ~e.cut
      BY <1>1, <1>3, <1>13
  <2>2. Fewer
      BY <1>11, <2>1 DEF Fewer
  <2>3. AbortOK'
      BY <1>1, <2>1, <2>2, AbortKept DEF TInv
  <2> QED BY <1>6, <1>7, <1>10, <2>3 DEF TInv
<1> QED BY <1>12, <1>13

(* The list of the signal changes: the entries and the walks stay.          *)
LEMMA ListChanges ==
    ASSUME TInv, subs' \in [Lists -> Seq(Subscriber)], waiter' \in WaiterType, log' \in LogType, SameLog,
           UNCHANGED <<entries, aborted, stack>>, WatchOK',
           aborted => (Waiting' => Waiting),
           ~aborted => Due(entries, Waiting', subs'["signal"], 1)
    PROVE  TInv'
<1>1. TargetShape'
    BY DEF TInv, TargetShape
<1>2. EntriesOK' /\ WalksOK'
    BY StackKept DEF TInv, Walked
<1>3. aborted => Due(entries', Waiting', <<>>, 1) \/ AbortGoes'
  <2>1. SUFFICES ASSUME aborted PROVE Due(entries', Waiting', <<>>, 1) \/ AbortGoes'
      OBVIOUS
  <2>2. Fewer /\ (Waiting' => Waiting)
      BY <2>1, FewerSame
  <2>3. \A k \in DOMAIN stack : k \in DOMAIN stack' /\ stack'[k] = stack[k]
      OBVIOUS
  <2> QED BY <2>1, <2>2, <2>3, AbortGoesOn DEF TInv, AbortOK
<1>4. AbortOK'
    BY <1>3 DEF AbortOK
<1> QED BY <1>1, <1>2, <1>4 DEF TInv

LEMMA SubscribesStep == ASSUME TInv, NEW l \in Lists, Subscribes(l) PROVE TInv'
<1>1. /\ log.made < MaxListeners
      /\ subs' = [subs EXCEPT ![l] = Append(@, [do |-> "script", n |-> log.made + 1])]
      /\ log' = [log EXCEPT !.made = @ + 1]
      /\ UNCHANGED <<entries, aborted, waiter, stack>>
    BY DEF Subscribes
<1>2. log \in LogType /\ log.made \in Nat /\ MaxListeners \in Nat /\ log.made + 1 \in 0..MaxListeners
    BY <1>1, LogSays DEF TInv, TargetShape
<1>3. PICK p \in Subscriber : p = [do |-> "script", n |-> log.made + 1]
  <2>1. log.made + 1 \in Nat
      BY <1>2
  <2>2. [do |-> "script", n |-> log.made + 1] \in Subscriber
      BY <2>1 DEF Subscriber
  <2> QED BY <2>2
<1>4. log' \in LogType /\ SameLog
  <2>1. log' = [log EXCEPT !.made = log.made + 1]
      BY <1>1
  <2>2. log' \in LogType /\ log'.made = log.made + 1 /\ log'.once = log.once /\ log'.calls = log.calls
      BY <1>2, <2>1 DEF LogType
  <2> QED BY <1>2, <2>2 DEF SameLog
<1>5. subs' = [subs EXCEPT ![l] = Append(@, p)] /\ p.do # "settle"
    BY <1>1, <1>3
<1>6. /\ subs' \in [Lists -> Seq(Subscriber)]
      /\ OneWatch(subs["signal"]) => OneWatch(subs'["signal"])
      /\ NoWatch(subs["signal"]) => NoWatch(subs'["signal"])
      /\ \A j \in DOMAIN subs["signal"] : j >= 1 =>
             \E i \in DOMAIN subs'["signal"] : i >= 1 /\ subs'["signal"][i] = subs["signal"][j]
    BY <1>5, Subscribed DEF TInv
<1>7. WatchOK' /\ Waiting' = Waiting
    BY <1>1, <1>6, WatchSays DEF TInv, AbortOK, WatchOK, OneWatch, NoWatch, Waiting
<1>8. ~aborted => Due(entries, Waiting', subs'["signal"], 1)
    BY <1>6, <1>7, DueMoves DEF TInv, AbortOK
<1>9. waiter' \in WaiterType
    BY <1>1 DEF TInv, TargetShape
<1> QED BY <1>1, <1>4, <1>6, <1>7, <1>8, <1>9, ListChanges

LEMMA UnsubscribesStep == ASSUME TInv, NEW l \in Lists, Unsubscribes(l) PROVE TInv'
<1>1. PICK list \in Seq(Subscriber) : list = subs[l]
    BY SignalList DEF TInv
<1>2. UNCHANGED <<entries, aborted, waiter, stack, log>>
    BY DEF Unsubscribes
<1>3. PICK i \in DOMAIN list : list[i].do = "script" /\ subs' = [subs EXCEPT ![l] = RemoveAt(list, i)]
    BY <1>1 DEF Unsubscribes
<1>4. PICK left : left = RemoveAt(list, i)
    OBVIOUS
<1>5. /\ left \in Seq(Subscriber)
      /\ \A c \in DOMAIN list : c # i => \E a \in DOMAIN left : left[a] = list[c]
      /\ \A a \in DOMAIN left : \E c \in DOMAIN list : c # i /\ left[a] = list[c]
      /\ \A a, b \in DOMAIN left : a # b =>
             \E c, d \in DOMAIN list : c # d /\ left[a] = list[c] /\ left[b] = list[d]
    BY <1>4, TakenOff
<1>6. subs' = [subs EXCEPT ![l] = left]
    BY <1>3, <1>4
<1>7. /\ subs' \in [Lists -> Seq(Subscriber)] /\ subs'[l] = left
      /\ l # "signal" => subs'["signal"] = subs["signal"]
    BY <1>5, <1>6 DEF TInv, TargetShape, Lists
<1>8. /\ OneWatch(list) => OneWatch(left)
      /\ NoWatch(list) => NoWatch(left)
  <2>1. ASSUME OneWatch(list) PROVE OneWatch(left)
    <3>1. ASSUME NEW a \in DOMAIN left, NEW b \in DOMAIN left, a # b
          PROVE  ~(left[a].do = "settle" /\ left[b].do = "settle")
      <4>1. PICK c \in DOMAIN list, d \in DOMAIN list : c # d /\ left[a] = list[c] /\ left[b] = list[d]
          BY <1>5, <3>1
      <4> QED BY <2>1, <4>1 DEF OneWatch
    <3> QED BY <3>1 DEF OneWatch
  <2>2. ASSUME NoWatch(list) PROVE NoWatch(left)
      BY <1>5, <2>2 DEF NoWatch
  <2> QED BY <2>1, <2>2
<1>9. /\ OneWatch(subs["signal"]) => OneWatch(subs'["signal"])
      /\ NoWatch(subs["signal"]) => NoWatch(subs'["signal"])
    BY <1>1, <1>7, <1>8
<1>10. WatchOK' /\ Waiting' = Waiting
    BY <1>2, <1>9, WatchSays DEF TInv, AbortOK, WatchOK, OneWatch, NoWatch, Waiting
<1>11. ASSUME NEW j \in DOMAIN subs["signal"],
              subs["signal"][j].do = "remove" \/ subs["signal"][j].do = "settle"
       PROVE  \E m \in DOMAIN subs'["signal"] : m >= 1 /\ subs'["signal"][m] = subs["signal"][j]
  <2>1. subs["signal"] \in Seq(Subscriber) /\ subs'["signal"] \in Seq(Subscriber)
      BY <1>7, SignalList DEF TInv
  <2>2. \E m \in DOMAIN subs'["signal"] : subs'["signal"][m] = subs["signal"][j]
    <3>1. CASE l = "signal"
      <4>1. j # i
          BY <1>1, <1>3, <1>11, <3>1
      <4> QED BY <1>1, <1>5, <1>7, <3>1, <4>1
    <3>2. CASE l # "signal"
        BY <1>7, <3>2
    <3> QED BY <3>1, <3>2
  <2> QED BY <2>1, <2>2
<1>12. ~aborted => Due(entries, Waiting', subs'["signal"], 1)
    BY <1>10, <1>11, DueMoves DEF TInv, AbortOK
<1>13. waiter' \in WaiterType /\ log' \in LogType /\ SameLog
    BY <1>2, LogStays DEF TInv, TargetShape
<1> QED BY <1>2, <1>7, <1>10, <1>12, <1>13, ListChanges

LEMMA EmitsStep == ASSUME TInv, NEW event \in {"event", "error"}, EmitterEmits(event) PROVE TInv'
<1>1. PICK how \in {"resolved", "rejected"} : CleanedUp(how)
    BY DEF EmitterEmits
<1>2. UNCHANGED <<entries, aborted, stack, log>>
    BY DEF EmitterEmits
<1>3. /\ waiter' \in WaiterType /\ subs' \in [Lists -> Seq(Subscriber)]
      /\ ~Waiting' /\ WatchOK' /\ KeepsRest(subs["signal"], subs'["signal"])
    BY <1>1, Cleaned DEF TInv, AbortOK
<1>4. \A j \in DOMAIN subs'["signal"] : j >= 1
    BY <1>3 DEF Lists
<1>5. ~aborted => Due(entries, Waiting', subs'["signal"], 1)
    BY <1>3, <1>4, DueMoves DEF TInv, AbortOK, KeepsRest
<1>6. log' \in LogType /\ SameLog
    BY <1>2, LogStays DEF TInv, TargetShape
<1> QED BY <1>2, <1>3, <1>5, <1>6, ListChanges

LEMMA WaitsStep == ASSUME TInv, Waits PROVE TInv'
<1>1. waiter.state = "idle" /\ UNCHANGED <<entries, aborted, stack, log>>
    BY DEF Waits
<1>2. log' \in LogType /\ SameLog
    BY <1>1, LogStays DEF TInv, TargetShape
<1>3. NoWatch(subs["signal"])
    BY <1>1, WatchSays DEF TInv, AbortOK, Waiting
<1>4. CASE aborted
  <2>1. waiter' = [state |-> "rejected", on |-> {}] /\ subs' = subs
      BY <1>4 DEF Waits
  <2>2. waiter' \in WaiterType /\ ~Waiting' /\ waiter'.on = {}
      BY <2>1 DEF WaiterType, Waiting
  <2>3. WatchOK'
      BY <1>3, <2>1, <2>2 DEF WatchOK, NoWatch
  <2> QED BY <1>1, <1>2, <1>4, <2>1, <2>2, <2>3, ListChanges DEF TInv, TargetShape
<1>5. CASE ~aborted
  <2>1. /\ waiter' = [state |-> "waiting", on |-> {"event", "error"}]
        /\ subs' = [subs EXCEPT !["signal"] = Append(@, [do |-> "settle", n |-> 0])]
      BY <1>5 DEF Waits
  <2>2. waiter' \in WaiterType /\ Waiting'
      BY <2>1 DEF WaiterType, Waiting
  <2>3. PICK p \in Subscriber : p = [do |-> "settle", n |-> 0]
      BY DEF Subscriber
  <2>4. /\ subs' \in [Lists -> Seq(Subscriber)]
        /\ OneWatch(subs'["signal"])
        /\ \E i \in DOMAIN subs'["signal"] : i >= 1 /\ subs'["signal"][i] = p
        /\ \A j \in DOMAIN subs["signal"] : j >= 1 =>
             \E i \in DOMAIN subs'["signal"] : i >= 1 /\ subs'["signal"][i] = subs["signal"][j]
    <3>1. "signal" \in Lists /\ subs' = [subs EXCEPT !["signal"] = Append(@, p)]
        BY <2>1, <2>3 DEF Lists
    <3> QED BY <1>3, <3>1, Subscribed DEF TInv
  <2>5. WatchOK'
      BY <2>2, <2>4 DEF WatchOK, OneWatch
  <2>6. Due(entries, Waiting', subs'["signal"], 1)
    <3>1. ASSUME NEW i \in DOMAIN entries, entries[i].cut
          PROVE  \E j \in DOMAIN subs'["signal"] :
                     j >= 1 /\ subs'["signal"][j].do = "remove" /\ subs'["signal"][j].n = entries[i].n
      <4>1. PICK j \in DOMAIN subs["signal"] :
                j >= 1 /\ subs["signal"][j].do = "remove" /\ subs["signal"][j].n = entries[i].n
          BY <1>5, <3>1 DEF TInv, AbortOK, Due
      <4> QED BY <2>4, <4>1
    <3> QED BY <2>3, <2>4, <3>1 DEF Due
  <2> QED BY <1>1, <1>2, <1>5, <2>2, <2>4, <2>5, <2>6, ListChanges
<1> QED BY <1>4, <1>5

LEMMA AbortsStep == ASSUME TInv, Aborts PROVE TInv'
<1>1. /\ ~aborted /\ aborted' = TRUE /\ UNCHANGED <<entries, subs, waiter, log>> /\ ScriptRuns
      /\ stack' = Append(stack, Walk("signal", subs["signal"]))
    BY DEF Aborts, Does
<1>2. "signal" \in Walks \cup {"handler"} /\ subs["signal"] \in Seq(Subscriber)
    BY SignalList DEF TInv, Walks, Lists
<1>3. PICK w \in Frame : /\ w = Walk("signal", subs["signal"]) /\ w.seen = <<>> /\ w.at = 1
                         /\ w.over = "signal" /\ w.list = subs["signal"]
    BY <1>2, FreshFrame
<1>4. log' \in LogType /\ SameLog
    BY <1>1, LogStays DEF TInv, TargetShape
<1>5. stack' = Append(stack, w)
    BY <1>1, <1>3
<1>6. /\ stack' \in Seq(Frame) /\ DOMAIN stack' = 1..(Len(stack) + 1) /\ stack'[Len(stack) + 1] = w
      /\ Len(stack) \in Nat
    BY <1>5, Pushed, TopFrame DEF TInv
<1>7. TargetShape'
    BY <1>1, <1>6 DEF TInv, TargetShape
<1>8. EntriesOK' /\ WalksOK'
    BY <1>1, <1>3, <1>4, <1>5, StackGrows DEF TInv, Walked
<1>9. Due(entries, Waiting, w.list, w.at) /\ Waiting' = Waiting /\ WatchOK'
    BY <1>1, <1>3 DEF TInv, AbortOK, Waiting, WatchOK
<1>10. AbortGoes'
  <2>1. Len(stack) + 1 \in DOMAIN stack'
      BY <1>6
  <2> QED BY <1>1, <1>3, <1>6, <1>9, <2>1 DEF AbortGoes
<1>11. AbortOK'
    BY <1>1, <1>9, <1>10 DEF AbortOK
<1> QED BY <1>7, <1>8, <1>11 DEF TInv

(* A turn of the walk over a copy.                                          *)
LEMMA SubscriberStep == ASSUME TInv, CallsSubscriber PROVE TInv'
<1>1. /\ stack # <<>> /\ Top.over \in Lists /\ Top.at <= Len(Top.list) /\ UNCHANGED <<aborted, log>>
    BY DEF CallsSubscriber, Walking
<1>2. PICK f \in Frame : f = Top /\ f = stack[Len(stack)] /\ f.over \in Lists
    BY <1>1, TopFrame DEF TInv, Top
<1>3. /\ f.list \in Seq(Subscriber) /\ f.at \in Nat /\ f.at > 0 /\ f.at <= Len(f.list)
      /\ Len(stack) \in Nat /\ DOMAIN stack = 1..Len(stack) /\ Len(stack) > 0
    BY <1>1, <1>2, FrameSays, TopFrame DEF TInv
<1>4. PICK s \in Subscriber : s = f.list[f.at]
    BY <1>3
<1>5. PICK i1 \in Nat \ {0} : i1 = f.at + 1
    BY <1>3
<1>6. PICK b \in BOOLEAN : b = (s.do = "script")
    OBVIOUS
<1>7. PICK w : w = [f EXCEPT !.at = i1, !.calling = b]
    OBVIOUS
<1>8. /\ w \in Frame /\ w.over = f.over /\ w.list = f.list /\ w.at = i1 /\ w.seen = f.seen /\ w.cut = f.cut
    BY <1>7 DEF Frame
<1>9. PICK frames : frames = OnTop(w)
    OBVIOUS
<1>10. /\ frames \in Seq(Frame) /\ Len(frames) = Len(stack) /\ DOMAIN frames = 1..Len(stack)
       /\ frames[Len(stack)] = w
       /\ \A k \in 1..Len(stack) : k # Len(stack) => frames[k] = stack[k]
    BY <1>1, <1>8, <1>9, Replaced DEF TInv
<1>11. /\ IF s.do = "remove" /\ At(s.n) # {}
          THEN \E i \in At(s.n) : entries' = RemoveAt(entries, i) /\ stack' = CutAt(frames, i)
          ELSE entries' = entries /\ stack' = frames
       /\ IF s.do = "settle" THEN CleanedUp("rejected") ELSE UNCHANGED <<waiter, subs>>
  <2>1. w = [Top EXCEPT !.at = @ + 1, !.calling = s.do = "script"] /\ s = Top.list[Top.at]
      BY <1>2, <1>4, <1>5, <1>6, <1>7
  <2> QED BY <1>9, <2>1 DEF CallsSubscriber
<1>12. /\ entries' \in Seq(Entry) /\ EntriesOK' /\ WalksOK' /\ Fewer
       /\ s.do = "remove" => \A i \in DOMAIN entries' : entries'[i].n # s.n
       /\ stack' \in Seq(Frame) /\ DOMAIN stack' = 1..Len(stack)
       /\ \A k \in 1..Len(stack) :
             stack'[k].over = frames[k].over /\ stack'[k].list = frames[k].list /\ stack'[k].at = frames[k].at
  <2>1. CASE s.do = "remove" /\ At(s.n) # {}
    <3>1. PICK i \in 1..Len(entries) :
              entries[i].n = s.n /\ entries' = RemoveAt(entries, i) /\ stack' = CutAt(frames, i)
        BY <1>11, <2>1, ListSays DEF At, TInv
    <3>2. i \in 1..Len(entries) /\ i \in Nat /\ entries[i].n = s.n
        BY <3>1, ListSays DEF TInv
    <3>3. /\ entries' \in Seq(Entry) /\ DOMAIN entries' = 1..(Len(entries) - 1)
          /\ DOMAIN entries = 1..Len(entries) /\ Len(entries) \in Nat
          /\ \A j \in 1..(Len(entries) - 1) :
               \/ j < i /\ j \in 1..Len(entries) /\ entries'[j] = entries[j]
               \/ j >= i /\ j + 1 \in 1..Len(entries) /\ entries'[j] = entries[j + 1]
        BY <3>1, <3>2, Removed, ListSays DEF TInv
    <3>4. ASSUME NEW j \in DOMAIN entries' PROVE entries'[j].n # s.n
      <4>1. PICK m \in DOMAIN entries : m # i /\ entries'[j] = entries[m]
        <5>1. j \in 1..(Len(entries) - 1) /\ j \in Nat
            BY <3>3
        <5>2. CASE j < i /\ j \in 1..Len(entries) /\ entries'[j] = entries[j]
            BY <3>2, <3>3, <5>1, <5>2
        <5>3. CASE j >= i /\ j + 1 \in 1..Len(entries) /\ entries'[j] = entries[j + 1]
          <6>1. PICK m \in 1..Len(entries) : m = j + 1
              BY <5>3
          <6>2. m # i
            <7>1. i \in Nat /\ j >= i
                BY <3>2, <5>3
            <7> QED BY <5>1, <6>1, <7>1
          <6> QED BY <3>3, <5>3, <6>1, <6>2
        <5> QED BY <3>3, <5>1, <5>2, <5>3
      <4> QED BY <3>2, <3>3, <4>1 DEF TInv, EntriesOK
    <3>5. Fewer
        BY <3>1, <3>2, FewerRemoved DEF TInv
    <3>6. ASSUME NEW k \in 1..Len(stack)
          PROVE  /\ frames[k].over = stack[k].over /\ frames[k].seen = stack[k].seen
                 /\ stack[k].over = "target" => frames[k].at = stack[k].at /\ frames[k].cut = stack[k].cut
                 /\ k < Len(stack) => frames[k].calling = stack[k].calling
      <4>1. CASE k = Len(stack)
        <5>0. ~(k < Len(stack))
          <6>1. Len(stack) \in Nat
              BY <1>3
          <6> QED BY <4>1, <6>1
        <5>1. frames[k] = w /\ stack[k] = f /\ ~(k < Len(stack))
            BY <1>2, <1>10, <4>1, <5>0
        <5> QED BY <1>2, <1>8, <5>1 DEF Lists
      <4>2. CASE k # Len(stack)
          BY <1>10, <4>2
      <4> QED BY <4>1, <4>2
    <3>7. EntriesOK' /\ WalksOK'
        BY <1>1, <1>10, <3>1, <3>2, <3>6, ListenerGoes DEF TInv, Walked
    <3>8. /\ stack' \in Seq(Frame) /\ DOMAIN stack' = 1..Len(stack)
          /\ \A k \in 1..Len(stack) :
                stack'[k].over = frames[k].over /\ stack'[k].list = frames[k].list /\ stack'[k].at = frames[k].at
      <4>1. frames \in Seq(Frame) /\ i \in Nat
          BY <1>10, <3>2
      <4>2. PICK t : t = CutAt(frames, i)
          OBVIOUS
      <4>3. /\ t \in Seq(Frame) /\ DOMAIN t = 1..Len(frames)
            /\ \A k \in 1..Len(frames) : t[k].over = frames[k].over /\ t[k].list = frames[k].list /\ t[k].at = frames[k].at
          BY <4>1, <4>2, MarkedFrames
      <4>4. stack' = t /\ Len(frames) = Len(stack)
          BY <1>10, <3>1, <4>2
      <4> QED BY <4>3, <4>4
    <3> QED BY <3>3, <3>4, <3>5, <3>7, <3>8
  <2>2. CASE ~(s.do = "remove" /\ At(s.n) # {})
    <3>1. entries' = entries /\ stack' = frames
        BY <1>11, <2>2
    <3>2. s.do = "remove" => \A i \in DOMAIN entries' : entries'[i].n # s.n
        BY <2>2, <3>1 DEF At
    <3>3. EntriesOK' /\ WalksOK'
      <4>1. SameLog /\ stack' = OnTop(w) /\ w.over # "target" /\ w.over = Top.over /\ w.seen = Top.seen
          BY <1>1, <1>2, <1>8, <1>9, <3>1, LogStays DEF TInv, Lists
      <4> QED BY <1>1, <1>8, <3>1, <4>1, TopTurns DEF TInv, Walked
    <3> QED BY <1>10, <3>1, <3>2, <3>3, FewerSame DEF TInv, TargetShape
  <2> QED BY <2>1, <2>2
<1>13. /\ subs' \in [Lists -> Seq(Subscriber)] /\ waiter' \in WaiterType /\ WatchOK'
       /\ Waiting' => Waiting
       /\ s.do = "settle" => ~Waiting'
       /\ \A j \in DOMAIN subs["signal"] :
             subs["signal"][j].do = "remove" \/ (Waiting' /\ subs["signal"][j].do = "settle") =>
                 \E i \in DOMAIN subs'["signal"] : subs'["signal"][i] = subs["signal"][j]
  <2>1. CASE s.do = "settle"
    <3>1. CleanedUp("rejected")
        BY <1>11, <2>1
    <3> QED BY <3>1, Cleaned DEF TInv, AbortOK, KeepsRest
  <2>2. CASE s.do # "settle"
    <3>1. waiter' = waiter /\ subs' = subs
        BY <1>11, <2>2
    <3> QED BY <2>2, <3>1 DEF TInv, AbortOK, TargetShape, WatchOK, Waiting
  <2> QED BY <2>1, <2>2
<1>14. TargetShape'
    BY <1>1, <1>12, <1>13 DEF TInv, TargetShape
<1>15. ~aborted => Due(entries', Waiting', subs'["signal"], 1)
  <2>1. SUFFICES ASSUME Due(entries, Waiting, subs["signal"], 1)
                 PROVE  Due(entries', Waiting', subs'["signal"], 1)
      BY DEF TInv, AbortOK
  <2>2. \A i \in DOMAIN subs'["signal"] : i >= 1
      BY <1>13 DEF Lists
  <2> QED BY <1>12, <1>13, <2>1, <2>2, DueMoves DEF Fewer
<1>16. ASSUME NEW list, NEW from, Due(entries, Waiting, list, from) PROVE Due(entries', Waiting', list, from)
    BY <1>12, <1>13, <1>16, DueMoves DEF Fewer
<1>17. ASSUME AbortGoes PROVE AbortGoes'
  <2>1. PICK k \in DOMAIN stack : stack[k].over = "signal" /\ Due(entries, Waiting, stack[k].list, stack[k].at)
      BY <1>17 DEF AbortGoes
  <2>2. CASE k # Len(stack)
    <3>1. k \in DOMAIN stack' /\ stack'[k].over = "signal" /\ stack'[k].list = stack[k].list /\ stack'[k].at = stack[k].at
        BY <1>3, <1>10, <1>12, <2>1, <2>2
    <3> QED BY <1>16, <2>1, <3>1 DEF AbortGoes
  <2>3. CASE k = Len(stack)
    <3>1. /\ k \in DOMAIN stack' /\ stack'[k].over = "signal" /\ stack'[k].list = f.list /\ stack'[k].at = i1
          /\ Due(entries, Waiting, f.list, f.at)
        BY <1>2, <1>3, <1>8, <1>10, <1>12, <2>1, <2>3
    <3>2. \A m \in DOMAIN f.list : m >= f.at /\ m # f.at => m >= i1
        BY <1>3, <1>5
    <3>3. ASSUME NEW i \in DOMAIN entries', entries'[i].cut
          PROVE  \E j \in DOMAIN f.list : j >= i1 /\ f.list[j].do = "remove" /\ f.list[j].n = entries'[i].n
      <4>1. PICK j \in DOMAIN entries : entries[j].cut /\ entries[j].n = entries'[i].n
          BY <1>12, <3>3 DEF Fewer
      <4>2. PICK m \in DOMAIN f.list : m >= f.at /\ f.list[m].do = "remove" /\ f.list[m].n = entries[j].n
          BY <3>1, <4>1 DEF Due
      <4>3. m # f.at
          BY <1>4, <1>12, <4>1, <4>2
      <4> QED BY <3>2, <4>1, <4>2, <4>3
    <3>4. ASSUME Waiting' PROVE \E j \in DOMAIN f.list : j >= i1 /\ f.list[j].do = "settle"
      <4>1. PICK m \in DOMAIN f.list : m >= f.at /\ f.list[m].do = "settle"
          BY <1>13, <3>1, <3>4 DEF Due
      <4>2. m # f.at
          BY <1>4, <1>13, <3>4, <4>1
      <4> QED BY <3>2, <4>1, <4>2
    <3>5. Due(entries', Waiting', f.list, i1)
        BY <3>3, <3>4 DEF Due
    <3> QED BY <3>1, <3>5 DEF AbortGoes
  <2> QED BY <2>2, <2>3
<1>18. AbortOK'
    BY <1>1, <1>13, <1>15, <1>16, <1>17 DEF TInv, AbortOK
<1> QED BY <1>12, <1>14, <1>18 DEF TInv

-----------------------------------------------------------------------------
LEMMA Begins == Init => TInv
<1> SUFFICES ASSUME Init PROVE TInv
    OBVIOUS
<1>1. /\ entries = <<>> /\ subs = [l \in Lists |-> <<>>] /\ aborted = FALSE /\ stack = <<>>
      /\ waiter = [state |-> "idle", on |-> {}]
      /\ log = [made |-> 0, walks |-> 0, once |-> {}, calls |-> [n \in 1..MaxListeners |-> 0]]
    BY DEF Init, TargetInit
<1>2. MaxListeners \in Nat
    BY TargetAssumption
<1>3. log \in LogType
    BY <1>1, <1>2 DEF LogType
<1>4. TargetShape
  <2>1. <<>> \in Seq(Entry) /\ <<>> \in Seq(Frame) /\ <<>> \in Seq(Subscriber)
      OBVIOUS
  <2>2. subs \in [Lists -> Seq(Subscriber)]
      BY <1>1, <2>1
  <2>3. waiter \in WaiterType
      BY <1>1 DEF WaiterType
  <2> QED BY <1>1, <1>3, <2>1, <2>2, <2>3 DEF TargetShape
<1>5. EntriesOK /\ WalksOK
    BY <1>1, <1>2 DEF EntriesOK, WalksOK, OnceIsOnce
<1>6. AbortOK
    BY <1>1 DEF AbortOK, Due, WatchOK, Waiting, Lists
<1> QED BY <1>4, <1>5, <1>6 DEF TInv

LEMMA WalksGoOn == TInv /\ [Next]_vars => TInv'
<1> SUFFICES ASSUME TInv, [Next]_vars PROVE TInv'
    OBVIOUS
<1>1. CASE TargetCode
    BY <1>1, CallsStep, EndsStep, SubscriberStep DEF TargetCode
<1>2. CASE TargetScript
  <2>1. CASE \E fn \in Callbacks : Removes(fn) \/ \E once, withSignal \in BOOLEAN : Adds(fn, once, withSignal)
      BY <2>1, RemovesStep, AddsStep
  <2>2. CASE \E l \in Lists : Subscribes(l) \/ Unsubscribes(l)
      BY <2>2, SubscribesStep, UnsubscribesStep
  <2>3. CASE \E event \in {"event", "error"} : EmitterEmits(event)
      BY <2>3, EmitsStep
  <2>4. CASE Dispatches \/ Stops \/ ListenerThrows \/ Publishes \/ Aborts \/ Waits
      BY <2>4, DispatchesStep, StopsStep, ThrowsStep, PublishesStep, AbortsStep, WaitsStep
  <2> QED BY <1>2, <2>1, <2>2, <2>3, <2>4 DEF TargetScript
<1>3. CASE ListenerReturns
    BY <1>3, ReturnedStep DEF ListenerReturns
<1>4. CASE Deliver \/ HandlerReturns
    BY <1>4, DeliveryWalks, HandlerWalks
<1>5. CASE PortScript \/ UNCHANGED vars
  <2>1. UNCHANGED targetVars
      BY <1>5 DEF PortScript, Posts, Starts, Closes, SetsHandler, vars
  <2> QED BY <2>1, Quiet
<1> QED BY <1>1, <1>2, <1>3, <1>4, <1>5 DEF Next, Runs, TargetNext

(* Whatever listeners add, remove, dispatch, stop and throw inside each     *)
(* other, a once listener is called once, and a dispatch that ends has      *)
(* called whoever is on the list, each once, unless one it had called was   *)
(* taken off under it (dispatchEvent).                                      *)
THEOREM DispatchCallsEach == Spec => []EachIsCalled
<1>1. ASSUME TInv PROVE EachIsCalled
  <2>1. TypeOK
    <3>1. ASSUME NEW i \in DOMAIN entries
          PROVE  entries[i] \in [fn : Callbacks, once : BOOLEAN, cut : BOOLEAN, n : 1..log.made]
      <4>1. entries[i] \in Entry /\ entries[i].n \in 1..log.made
          BY <1>1, ListSays DEF TInv, EntriesOK
      <4> QED BY <4>1 DEF Entry
    <3> QED BY <1>1, <3>1 DEF TInv, TypeOK, TargetShape, WaiterType, EntriesOK, WalksOK
  <2>2. OnceIsOnce
      BY <1>1 DEF TInv, EntriesOK
  <2>3. \A k \in DOMAIN stack : IsInjective(stack[k].seen)
    <3>1. IsInjective(<<>>)
        BY DEF IsInjective
    <3> QED BY <1>1, <3>1 DEF TInv, WalksOK, SeenOK, Called
  <2>4. ASSUME Walking("target"), AtEnd, ~Top.cut, NEW i \in DOMAIN entries
        PROVE  entries[i].n \in ToSet(Top.seen)
    <3>1. /\ Top.over = "target" /\ Top.at \in Nat /\ Top.at > Len(entries) /\ i < Top.at
          /\ Len(stack) \in DOMAIN stack /\ Top = stack[Len(stack)]
        BY <1>1, <2>4, TopFrame, FrameSays, ListSays DEF TInv, Walking, AtEnd, Top
    <3> QED BY <1>1, <2>4, <3>1 DEF TInv, WalksOK, SeenOK, Called
  <2> QED BY <2>1, <2>2, <2>3, <2>4 DEF EachIsCalled, DispatchReachesAll
<1> QED BY <1>1, Begins, WalksGoOn, PTL DEF Spec

(* An abort that is over has left nothing of what was registered with its   *)
(* signal, and events.once settles once and cleans up after itself (_doAbort,*)
(* the signal option of addEventListener, events.once).                     *)
THEOREM AbortDoesItAll == Spec => []AbortIsComplete
<1>1. ASSUME TInv PROVE AbortIsComplete
  <2>1. ASSUME aborted, \A k \in DOMAIN stack : stack[k].over # "signal"
        PROVE  (\A i \in DOMAIN entries : ~entries[i].cut) /\ ~Waiting
    <3>1. Due(entries, Waiting, <<>>, 1)
        BY <1>1, <2>1 DEF TInv, AbortOK, AbortGoes
    <3> QED BY <3>1 DEF Due
  <2> QED BY <1>1, <2>1 DEF TInv, AbortOK, WatchOK, Waiting, AbortIsComplete
<1> QED BY <1>1, Begins, WalksGoOn, PTL DEF Spec

-----------------------------------------------------------------------------
(* The thread-safe functions of Node-API.                                  *)

(* The groups of variables the actions leave alone.                         *)
USE DEF shares, ends, items, drain, uv

(* The count is the number of threads with a share, and the function is     *)
(* closing exactly when there is none.                                      *)
SharesOK ==
    /\ thread_count = Cardinality(holders)
    /\ closing <=> holders = {}

(* A thread in the middle of a call has not given its share up.             *)
InsideOK == \A t \in Threads : pc[t] \in Calling => t \in holders

(* And it has called.                                                       *)
CalledOK == \A t \in Threads : pc[t] \in Calling => calls[t] # 0

(* The loop has an item in hand from the moment it takes one out to the     *)
(* moment JavaScript returns.                                               *)
HandOK == loop \in {"poll", "drain", "ended"} => current = <<>>

(* A handle being closed belongs to a function nobody can add items to, all *)
(* of whose items are delivered, and the drain does not run again.          *)
HandleOK ==
    handle # "open" => closing /\ queue = <<>> /\ loop \in {"poll", "ended"}

OrderOK == accepted = (delivered \o current) \o queue

TsfnInv == /\ TsfnTypeOK /\ SharesOK /\ InsideOK /\ CalledOK /\ HandOK /\ HandleOK
        /\ OrderOK

-----------------------------------------------------------------------------
LEMMA InitIInv == TsfnInit => TsfnInv
<1> SUFFICES ASSUME TsfnInit PROVE TsfnInv
    OBVIOUS
<1>1. TsfnTypeOK
  <2>1. IsFiniteSet(holders)
      BY ThreadsAssumption, FS_Subset DEF TsfnInit
  <2>2. thread_count \in Nat
      BY <2>1, FS_CardinalityType DEF TsfnInit
  <2>3. pc \in [Threads -> {"out", "undefined"} \cup Calling \cup Leaving]
      BY DEF TsfnInit
  <2>4. calls \in [Threads -> 0..MaxCalls]
      BY BoundsAssumption DEF TsfnInit
  <2>5. max_queue \in Nat /\ Len(queue) = 0 /\ queue \in Seq(Item)
      BY BoundsAssumption DEF TsfnInit
  <2>6. accepted \in Seq(Item) /\ delivered \in Seq(Item) /\ current \in
     Seq(Item)
      BY DEF TsfnInit
  <2>7. /\ tsfnAborted \in BOOLEAN /\ closing \in BOOLEAN
        /\ pending \in BOOLEAN /\ refd \in BOOLEAN
        /\ holders \subseteq Threads
        /\ handle = "open" /\ loop = "poll"
      BY DEF TsfnInit
  <2> QED BY <2>2, <2>3, <2>4, <2>5, <2>6, <2>7 DEF TsfnTypeOK
<1>2. SharesOK
  <2>1. thread_count = Cardinality(holders)
      BY DEF TsfnInit
  <2>2. closing = FALSE /\ holders # {}
      BY DEF TsfnInit
  <2> QED BY <2>1, <2>2 DEF SharesOK
<1>3. InsideOK /\ CalledOK
    BY DEF TsfnInit, InsideOK, CalledOK, Calling
<1>4. HandOK /\ HandleOK
    BY DEF TsfnInit, HandOK, HandleOK
<1>5. OrderOK
    BY ConcatEmptySeq, EmptySeq DEF TsfnInit, OrderOK
<1> QED BY <1>1, <1>2, <1>3, <1>4, <1>5 DEF TsfnInv

(* What the critical section of a call does to the types.                   *)
LEMMA Attempts ==
    ASSUME TsfnTypeOK, NEW t \in Threads, NEW item \in Item, NEW blocking \in
       BOOLEAN,
           Attempt(t, item, blocking)
    PROVE  /\ queue' \in Seq(Item)
           /\ max_queue # 0 => Len(queue') <= max_queue
           /\ accepted' \in Seq(Item)
           /\ pc' \in [Threads -> {"out", "undefined"} \cup Calling \cup
              Leaving]
<1>1. /\ queue \in Seq(Item) /\ accepted \in Seq(Item)
      /\ max_queue \in Nat
      /\ max_queue # 0 => Len(queue) <= max_queue
    BY DEF TsfnTypeOK
<1>2. pc' \in [Threads -> {"out", "undefined"} \cup Calling \cup Leaving]
    BY DEF TsfnTypeOK, Attempt, Goes, Calling, Leaving
<1>3. CASE UNCHANGED <<queue, accepted>>
    BY <1>1, <1>2, <1>3
<1>4. CASE /\ ~Full
           /\ queue' = Append(queue, item)
           /\ accepted' = Append(accepted, item)
  <2>1. queue' \in Seq(Item) /\ Len(queue') = Len(queue) + 1
      BY <1>1, <1>4
  <2>2. accepted' \in Seq(Item)
      BY <1>1, <1>4
  <2>3. Len(queue) \in Nat /\ (max_queue # 0 => Len(queue) < max_queue)
      BY <1>1, <1>4 DEF Full
  <2> QED BY <1>1, <1>2, <2>1, <2>2, <2>3
<1> QED BY <1>3, <1>4 DEF Attempt

(* Every step keeps the types and the limit of the queue.                   *)
LEMMA TypeStep ==
    ASSUME TsfnTypeOK, CalledOK, [TsfnNext]_tsfnVars
    PROVE  TsfnTypeOK'
<1>1. ASSUME NEW t \in Threads, NEW mode \in BOOLEAN, Call(t, mode)
      PROVE  TsfnTypeOK'
  <2>1. calls[t] \in 0..MaxCalls /\ calls[t] < MaxCalls
      BY <1>1 DEF TsfnTypeOK, Call
  <2>2. calls[t] + 1 \in 1..MaxCalls
      BY <2>1, BoundsAssumption
  <2>3. calls' \in [Threads -> 0..MaxCalls]
      BY <1>1, <2>2 DEF TsfnTypeOK, Call
  <2>4. Attempt(t, <<t, calls[t] + 1>>, mode)
      BY <1>1 DEF Call
  <2>5. <<t, calls[t] + 1>> \in Item
      BY <2>2 DEF Item
  <2>6. /\ queue' \in Seq(Item)
        /\ max_queue # 0 => Len(queue') <= max_queue
        /\ accepted' \in Seq(Item)
        /\ pc' \in [Threads -> {"out", "undefined"} \cup Calling \cup Leaving]
      BY <2>4, <2>5, Attempts
  <2> QED BY <1>1, <2>3, <2>6 DEF TsfnTypeOK, Call
<1>2. ASSUME NEW t \in Threads, Retry(t) PROVE TsfnTypeOK'
  <2>1. t \in Threads /\ pc[t] = "woken" /\ calls[t] \in 0..MaxCalls
      BY <1>2 DEF TsfnTypeOK, Retry
  <2>2. calls[t] \in 1..MaxCalls
      BY <2>1, BoundsAssumption DEF CalledOK, Calling
  <2>3. Attempt(t, <<t, calls[t]>>, TRUE)
      BY <1>2 DEF Retry
  <2>4. <<t, calls[t]>> \in Item
      BY <2>2 DEF Item
  <2>5. /\ queue' \in Seq(Item)
        /\ max_queue # 0 => Len(queue') <= max_queue
        /\ accepted' \in Seq(Item)
        /\ pc' \in [Threads -> {"out", "undefined"} \cup Calling \cup Leaving]
      BY <2>3, <2>4, Attempts
  <2> QED BY <1>2, <2>5 DEF TsfnTypeOK, Retry
<1>3. ASSUME NEW t \in Threads, WakeForNothing(t) PROVE TsfnTypeOK'
    BY <1>3 DEF WakeForNothing, Goes, TsfnTypeOK, Calling, Leaving
<1>4. ASSUME NEW t \in Threads, Send(t) PROVE TsfnTypeOK'
    BY <1>4 DEF Send, Goes, TsfnTypeOK, Calling, Leaving
<1>5. ASSUME NEW t \in Threads, NEW u \in Threads, Acquire(t, u) PROVE TsfnTypeOK'
    BY <1>5 DEF Acquire, Enters, TsfnTypeOK, Calling, Leaving
<1>6. ASSUME NEW t \in Threads, NEW mode \in BOOLEAN, Release(t, mode)
      PROVE  TsfnTypeOK'
    BY <1>6 DEF Release, GivesUp, Enters, Goes, TsfnTypeOK, Calling, Leaving,
       Remaining
<1>7. ASSUME NEW t \in Threads, Broadcast(t) PROVE TsfnTypeOK'
    BY <1>7 DEF Broadcast, TsfnTypeOK, Calling, Leaving
<1>8. ASSUME NEW t \in Threads, ReachFreed(t) PROVE TsfnTypeOK'
    BY <1>8 DEF ReachFreed, Goes, TsfnTypeOK, Calling, Leaving
<1>9. ASSUME NEW on \in BOOLEAN, SetRef(on) PROVE TsfnTypeOK'
    BY <1>9 DEF SetRef, TsfnTypeOK, Calling, Leaving
<1>10. ASSUME AsyncCallback PROVE TsfnTypeOK'
    BY <1>10 DEF AsyncCallback, LoopAt, TsfnTypeOK, Calling, Leaving
<1>11. ASSUME TakeItem PROVE TsfnTypeOK'
    BY <1>11 DEF TakeItem, LoopAt, TsfnTypeOK, Calling, Leaving
<1>12. ASSUME DrainEnds PROVE TsfnTypeOK'
    BY <1>12 DEF DrainEnds, LoopAt, TsfnTypeOK, Calling, Leaving
<1>13. ASSUME SignalRoom PROVE TsfnTypeOK'
    BY <1>13 DEF SignalRoom, Goes, LoopAt, TsfnTypeOK, Calling, Leaving
<1>14. ASSUME CallReturns PROVE TsfnTypeOK'
    BY <1>14 DEF CallReturns, LoopAt, TsfnTypeOK, Calling, Leaving
<1>15. ASSUME Destroy PROVE TsfnTypeOK'
    BY <1>15 DEF Destroy, LoopAt, TsfnTypeOK, Calling, Leaving
<1>16. ASSUME LoopEnds PROVE TsfnTypeOK'
    BY <1>16 DEF LoopEnds, LoopAt, TsfnTypeOK, Calling, Leaving
<1>17. CASE UNCHANGED tsfnVars
    BY <1>17 DEF tsfnVars, TsfnTypeOK, Calling, Leaving
<1> QED
    BY <1>1, <1>2, <1>3, <1>4, <1>5, <1>6, <1>7, <1>8, <1>9, <1>10, <1>11,
       <1>12,
       <1>13, <1>14, <1>15, <1>16, <1>17
    DEF TsfnNext, LoopStep

(* Acquire and release count what they do to the shares.                    *)
LEMMA SharesStep ==
    ASSUME TsfnTypeOK, SharesOK, [TsfnNext]_tsfnVars
    PROVE  SharesOK'
<1>0. IsFiniteSet(holders)
    BY ThreadsAssumption, FS_Subset DEF TsfnTypeOK
<1>1. ASSUME NEW t \in Threads, NEW mode \in BOOLEAN, Call(t, mode)
      PROVE  SharesOK'
    BY <1>1 DEF Call, Enters, Attempt, Goes, SharesOK
<1>2. ASSUME NEW t \in Threads, Retry(t) PROVE SharesOK'
    BY <1>2 DEF Retry, Attempt, Goes, SharesOK
<1>3. ASSUME NEW t \in Threads, WakeForNothing(t) PROVE SharesOK'
    BY <1>3 DEF WakeForNothing, Goes, SharesOK
<1>4. ASSUME NEW t \in Threads, Send(t) PROVE SharesOK'
    BY <1>4 DEF Send, Goes, SharesOK
<1>5. ASSUME NEW t \in Threads, NEW u \in Threads, Acquire(t, u) PROVE SharesOK'
  <2>1. Cardinality(holders \cup {u}) = Cardinality(holders) + 1
      BY <1>0, <1>5, FS_AddElement DEF Acquire
  <2>2. thread_count' = Cardinality(holders')
      BY <1>5, <2>1 DEF Acquire, SharesOK
  <2>3. closing' = FALSE /\ closing \in BOOLEAN /\ holders' # {}
      BY <1>5 DEF Acquire, TsfnTypeOK
  <2> QED BY <2>2, <2>3 DEF SharesOK
<1>6. ASSUME NEW t \in Threads, NEW mode \in BOOLEAN, Release(t, mode)
      PROVE  SharesOK'
  <2>1. t \in holders /\ holders' = holders \ {t} /\ thread_count' = Remaining
        /\ (closing' <=> closing \/ Remaining = 0)
      BY <1>6 DEF Release, GivesUp, Enters
  <2>2. /\ IsFiniteSet(holders \ {t})
        /\ Cardinality(holders \ {t}) = Cardinality(holders) - 1
      BY <1>0, <2>1, FS_RemoveElement
  <2>3. Cardinality(holders) \in Nat /\ Cardinality(holders) # 0
      BY <1>0, <2>1, FS_CardinalityType, FS_EmptySet
  <2>4. Remaining = Cardinality(holders \ {t})
      BY <2>2, <2>3 DEF SharesOK, Remaining
  <2>5. Remaining = 0 <=> holders \ {t} = {}
      BY <2>2, <2>4, FS_EmptySet
  <2>6. ~closing
      BY <2>1 DEF SharesOK
  <2> QED BY <2>1, <2>4, <2>5, <2>6 DEF SharesOK
<1>7. ASSUME NEW t \in Threads, Broadcast(t) PROVE SharesOK'
    BY <1>7 DEF Broadcast, SharesOK
<1>8. ASSUME NEW t \in Threads, ReachFreed(t) PROVE SharesOK'
    BY <1>8 DEF ReachFreed, Goes, SharesOK
<1>9. ASSUME NEW on \in BOOLEAN, SetRef(on) PROVE SharesOK'
    BY <1>9 DEF SetRef, SharesOK
<1>10. ASSUME AsyncCallback PROVE SharesOK'
    BY <1>10 DEF AsyncCallback, LoopAt, SharesOK
<1>11. ASSUME TakeItem PROVE SharesOK'
    BY <1>11 DEF TakeItem, LoopAt, SharesOK
<1>12. ASSUME DrainEnds PROVE SharesOK'
    BY <1>12 DEF DrainEnds, LoopAt, SharesOK
<1>13. ASSUME SignalRoom PROVE SharesOK'
    BY <1>13 DEF SignalRoom, Goes, LoopAt, SharesOK
<1>14. ASSUME CallReturns PROVE SharesOK'
    BY <1>14 DEF CallReturns, LoopAt, SharesOK
<1>15. ASSUME Destroy PROVE SharesOK'
    BY <1>15 DEF Destroy, LoopAt, SharesOK
<1>16. ASSUME LoopEnds PROVE SharesOK'
    BY <1>16 DEF LoopEnds, LoopAt, SharesOK
<1>17. CASE UNCHANGED tsfnVars
    BY <1>17 DEF tsfnVars, SharesOK
<1> QED
    BY <1>1, <1>2, <1>3, <1>4, <1>5, <1>6, <1>7, <1>8, <1>9, <1>10, <1>11,
       <1>12,
       <1>13, <1>14, <1>15, <1>16, <1>17
    DEF TsfnNext, LoopStep

(* A thread gives its share up only outside a call.                         *)
LEMMA InsideStep ==
    ASSUME TsfnTypeOK, InsideOK, [TsfnNext]_tsfnVars
    PROVE  InsideOK'
<1>1. ASSUME NEW t \in Threads, NEW mode \in BOOLEAN, Call(t, mode)
      PROVE  InsideOK'
    BY <1>1 DEF Call, Enters, Attempt, Goes, TsfnTypeOK, InsideOK, Calling, Leaving
<1>2. ASSUME NEW t \in Threads, Retry(t) PROVE InsideOK'
    BY <1>2 DEF Retry, Attempt, Goes, TsfnTypeOK, InsideOK, Calling, Leaving
<1>3. ASSUME NEW t \in Threads, WakeForNothing(t) PROVE InsideOK'
    BY <1>3 DEF WakeForNothing, Goes, TsfnTypeOK, InsideOK, Calling, Leaving
<1>4. ASSUME NEW t \in Threads, Send(t) PROVE InsideOK'
    BY <1>4 DEF Send, Goes, TsfnTypeOK, InsideOK, Calling, Leaving
<1>5. ASSUME NEW t \in Threads, NEW u \in Threads, Acquire(t, u) PROVE InsideOK'
    BY <1>5 DEF Acquire, Enters, TsfnTypeOK, InsideOK, Calling, Leaving
<1>6. ASSUME NEW t \in Threads, NEW mode \in BOOLEAN, Release(t, mode)
      PROVE  InsideOK'
    BY <1>6 DEF Release, GivesUp, Enters, Goes, TsfnTypeOK, InsideOK, Calling,
       Leaving
<1>7. ASSUME NEW t \in Threads, Broadcast(t) PROVE InsideOK'
    BY <1>7 DEF Broadcast, TsfnTypeOK, InsideOK, Calling, Leaving
<1>8. ASSUME NEW t \in Threads, ReachFreed(t) PROVE InsideOK'
    BY <1>8 DEF ReachFreed, Goes, TsfnTypeOK, InsideOK, Calling, Leaving
<1>9. ASSUME NEW on \in BOOLEAN, SetRef(on) PROVE InsideOK'
    BY <1>9 DEF SetRef, TsfnTypeOK, InsideOK, Calling, Leaving
<1>10. ASSUME AsyncCallback PROVE InsideOK'
    BY <1>10 DEF AsyncCallback, LoopAt, TsfnTypeOK, InsideOK, Calling, Leaving
<1>11. ASSUME TakeItem PROVE InsideOK'
    BY <1>11 DEF TakeItem, LoopAt, TsfnTypeOK, InsideOK, Calling, Leaving
<1>12. ASSUME DrainEnds PROVE InsideOK'
    BY <1>12 DEF DrainEnds, LoopAt, TsfnTypeOK, InsideOK, Calling, Leaving
<1>13. ASSUME SignalRoom PROVE InsideOK'
    BY <1>13 DEF SignalRoom, Goes, LoopAt, TsfnTypeOK, InsideOK, Calling, Leaving
<1>14. ASSUME CallReturns PROVE InsideOK'
    BY <1>14 DEF CallReturns, LoopAt, TsfnTypeOK, InsideOK, Calling, Leaving
<1>15. ASSUME Destroy PROVE InsideOK'
    BY <1>15 DEF Destroy, LoopAt, TsfnTypeOK, InsideOK, Calling, Leaving
<1>16. ASSUME LoopEnds PROVE InsideOK'
    BY <1>16 DEF LoopEnds, LoopAt, TsfnTypeOK, InsideOK, Calling, Leaving
<1>17. CASE UNCHANGED tsfnVars
    BY <1>17 DEF tsfnVars, TsfnTypeOK, InsideOK, Calling, Leaving
<1> QED
    BY <1>1, <1>2, <1>3, <1>4, <1>5, <1>6, <1>7, <1>8, <1>9, <1>10, <1>11,
       <1>12,
       <1>13, <1>14, <1>15, <1>16, <1>17
    DEF TsfnNext, LoopStep

(* A call is counted before it is made.                                     *)
LEMMA CalledStep ==
    ASSUME TsfnTypeOK, CalledOK, [TsfnNext]_tsfnVars
    PROVE  CalledOK'
<1>1. ASSUME NEW t \in Threads, NEW mode \in BOOLEAN, Call(t, mode)
      PROVE  CalledOK'
    BY <1>1 DEF Call, Enters, Attempt, Goes, TsfnTypeOK, CalledOK, Calling, Leaving
<1>2. ASSUME NEW t \in Threads, Retry(t) PROVE CalledOK'
    BY <1>2 DEF Retry, Attempt, Goes, TsfnTypeOK, CalledOK, Calling, Leaving
<1>3. ASSUME NEW t \in Threads, WakeForNothing(t) PROVE CalledOK'
    BY <1>3 DEF WakeForNothing, Goes, TsfnTypeOK, CalledOK, Calling, Leaving
<1>4. ASSUME NEW t \in Threads, Send(t) PROVE CalledOK'
    BY <1>4 DEF Send, Goes, TsfnTypeOK, CalledOK, Calling, Leaving
<1>5. ASSUME NEW t \in Threads, NEW u \in Threads, Acquire(t, u) PROVE CalledOK'
    BY <1>5 DEF Acquire, Enters, TsfnTypeOK, CalledOK, Calling, Leaving
<1>6. ASSUME NEW t \in Threads, NEW mode \in BOOLEAN, Release(t, mode)
      PROVE  CalledOK'
    BY <1>6 DEF Release, GivesUp, Enters, Goes, TsfnTypeOK, CalledOK, Calling,
       Leaving
<1>7. ASSUME NEW t \in Threads, Broadcast(t) PROVE CalledOK'
    BY <1>7 DEF Broadcast, TsfnTypeOK, CalledOK, Calling, Leaving
<1>8. ASSUME NEW t \in Threads, ReachFreed(t) PROVE CalledOK'
    BY <1>8 DEF ReachFreed, Goes, TsfnTypeOK, CalledOK, Calling, Leaving
<1>9. ASSUME NEW on \in BOOLEAN, SetRef(on) PROVE CalledOK'
    BY <1>9 DEF SetRef, TsfnTypeOK, CalledOK, Calling, Leaving
<1>10. ASSUME AsyncCallback PROVE CalledOK'
    BY <1>10 DEF AsyncCallback, LoopAt, TsfnTypeOK, CalledOK, Calling, Leaving
<1>11. ASSUME TakeItem PROVE CalledOK'
    BY <1>11 DEF TakeItem, LoopAt, TsfnTypeOK, CalledOK, Calling, Leaving
<1>12. ASSUME DrainEnds PROVE CalledOK'
    BY <1>12 DEF DrainEnds, LoopAt, TsfnTypeOK, CalledOK, Calling, Leaving
<1>13. ASSUME SignalRoom PROVE CalledOK'
    BY <1>13 DEF SignalRoom, Goes, LoopAt, TsfnTypeOK, CalledOK, Calling, Leaving
<1>14. ASSUME CallReturns PROVE CalledOK'
    BY <1>14 DEF CallReturns, LoopAt, TsfnTypeOK, CalledOK, Calling, Leaving
<1>15. ASSUME Destroy PROVE CalledOK'
    BY <1>15 DEF Destroy, LoopAt, TsfnTypeOK, CalledOK, Calling, Leaving
<1>16. ASSUME LoopEnds PROVE CalledOK'
    BY <1>16 DEF LoopEnds, LoopAt, TsfnTypeOK, CalledOK, Calling, Leaving
<1>17. CASE UNCHANGED tsfnVars
    BY <1>17 DEF tsfnVars, TsfnTypeOK, CalledOK, Calling, Leaving
<1> QED
    BY <1>1, <1>2, <1>3, <1>4, <1>5, <1>6, <1>7, <1>8, <1>9, <1>10, <1>11,
       <1>12,
       <1>13, <1>14, <1>15, <1>16, <1>17
    DEF TsfnNext, LoopStep

(* The hand is filled by TakeItem and emptied by CallReturns.               *)
LEMMA HandStep ==
    ASSUME TsfnTypeOK, HandOK, [TsfnNext]_tsfnVars
    PROVE  HandOK'
<1>1. ASSUME NEW t \in Threads, NEW mode \in BOOLEAN, Call(t, mode)
      PROVE  HandOK'
    BY <1>1 DEF Call, Enters, Attempt, Goes, HandOK
<1>2. ASSUME NEW t \in Threads, Retry(t) PROVE HandOK'
    BY <1>2 DEF Retry, Attempt, Goes, HandOK
<1>3. ASSUME NEW t \in Threads, WakeForNothing(t) PROVE HandOK'
    BY <1>3 DEF WakeForNothing, Goes, HandOK
<1>4. ASSUME NEW t \in Threads, Send(t) PROVE HandOK'
    BY <1>4 DEF Send, Goes, HandOK
<1>5. ASSUME NEW t \in Threads, NEW u \in Threads, Acquire(t, u) PROVE HandOK'
    BY <1>5 DEF Acquire, Enters, HandOK
<1>6. ASSUME NEW t \in Threads, NEW mode \in BOOLEAN, Release(t, mode)
      PROVE  HandOK'
    BY <1>6 DEF Release, GivesUp, Enters, Goes, HandOK
<1>7. ASSUME NEW t \in Threads, Broadcast(t) PROVE HandOK'
    BY <1>7 DEF Broadcast, HandOK
<1>8. ASSUME NEW t \in Threads, ReachFreed(t) PROVE HandOK'
    BY <1>8 DEF ReachFreed, Goes, HandOK
<1>9. ASSUME NEW on \in BOOLEAN, SetRef(on) PROVE HandOK'
    BY <1>9 DEF SetRef, HandOK
<1>10. ASSUME AsyncCallback PROVE HandOK'
    BY <1>10 DEF AsyncCallback, LoopAt, HandOK
<1>11. ASSUME TakeItem PROVE HandOK'
    BY <1>11 DEF TakeItem, LoopAt, HandOK
<1>12. ASSUME DrainEnds PROVE HandOK'
    BY <1>12 DEF DrainEnds, LoopAt, HandOK
<1>13. ASSUME SignalRoom PROVE HandOK'
    BY <1>13 DEF SignalRoom, Goes, LoopAt, HandOK
<1>14. ASSUME CallReturns PROVE HandOK'
    BY <1>14 DEF CallReturns, LoopAt, HandOK
<1>15. ASSUME Destroy PROVE HandOK'
    BY <1>15 DEF Destroy, LoopAt, HandOK
<1>16. ASSUME LoopEnds PROVE HandOK'
    BY <1>16 DEF LoopEnds, LoopAt, HandOK
<1>17. CASE UNCHANGED tsfnVars
    BY <1>17 DEF tsfnVars, HandOK
<1> QED
    BY <1>1, <1>2, <1>3, <1>4, <1>5, <1>6, <1>7, <1>8, <1>9, <1>10, <1>11,
       <1>12,
       <1>13, <1>14, <1>15, <1>16, <1>17
    DEF TsfnNext, LoopStep

(* A closing function takes no item and keeps closing.                      *)
LEMMA HandleStep ==
    ASSUME TsfnTypeOK, HandleOK, [TsfnNext]_tsfnVars
    PROVE  HandleOK'
<1>1. ASSUME NEW t \in Threads, NEW mode \in BOOLEAN, Call(t, mode)
      PROVE  HandleOK'
    BY <1>1 DEF Call, Enters, Attempt, Goes, TsfnTypeOK, HandleOK
<1>2. ASSUME NEW t \in Threads, Retry(t) PROVE HandleOK'
    BY <1>2 DEF Retry, Attempt, Goes, TsfnTypeOK, HandleOK
<1>3. ASSUME NEW t \in Threads, WakeForNothing(t) PROVE HandleOK'
    BY <1>3 DEF WakeForNothing, Goes, TsfnTypeOK, HandleOK
<1>4. ASSUME NEW t \in Threads, Send(t) PROVE HandleOK'
    BY <1>4 DEF Send, Goes, TsfnTypeOK, HandleOK
<1>5. ASSUME NEW t \in Threads, NEW u \in Threads, Acquire(t, u) PROVE HandleOK'
    BY <1>5 DEF Acquire, Enters, TsfnTypeOK, HandleOK
<1>6. ASSUME NEW t \in Threads, NEW mode \in BOOLEAN, Release(t, mode)
      PROVE  HandleOK'
    BY <1>6 DEF Release, GivesUp, Enters, Goes, TsfnTypeOK, HandleOK
<1>7. ASSUME NEW t \in Threads, Broadcast(t) PROVE HandleOK'
    BY <1>7 DEF Broadcast, TsfnTypeOK, HandleOK
<1>8. ASSUME NEW t \in Threads, ReachFreed(t) PROVE HandleOK'
    BY <1>8 DEF ReachFreed, Goes, TsfnTypeOK, HandleOK
<1>9. ASSUME NEW on \in BOOLEAN, SetRef(on) PROVE HandleOK'
    BY <1>9 DEF SetRef, TsfnTypeOK, HandleOK
<1>10. ASSUME AsyncCallback PROVE HandleOK'
    BY <1>10 DEF AsyncCallback, LoopAt, TsfnTypeOK, HandleOK
<1>11. ASSUME TakeItem PROVE HandleOK'
    BY <1>11 DEF TakeItem, LoopAt, TsfnTypeOK, HandleOK
<1>12. ASSUME DrainEnds PROVE HandleOK'
    BY <1>12 DEF DrainEnds, LoopAt, TsfnTypeOK, HandleOK
<1>13. ASSUME SignalRoom PROVE HandleOK'
    BY <1>13 DEF SignalRoom, Goes, LoopAt, TsfnTypeOK, HandleOK
<1>14. ASSUME CallReturns PROVE HandleOK'
    BY <1>14 DEF CallReturns, LoopAt, TsfnTypeOK, HandleOK
<1>15. ASSUME Destroy PROVE HandleOK'
    BY <1>15 DEF Destroy, LoopAt, TsfnTypeOK, HandleOK
<1>16. ASSUME LoopEnds PROVE HandleOK'
    BY <1>16 DEF LoopEnds, LoopAt, TsfnTypeOK, HandleOK
<1>17. CASE UNCHANGED tsfnVars
    BY <1>17 DEF tsfnVars, TsfnTypeOK, HandleOK
<1> QED
    BY <1>1, <1>2, <1>3, <1>4, <1>5, <1>6, <1>7, <1>8, <1>9, <1>10, <1>11,
       <1>12,
       <1>13, <1>14, <1>15, <1>16, <1>17
    DEF TsfnNext, LoopStep

(* A call's critical section adds the item to both ends alike.              *)
LEMMA AttemptOrder ==
    ASSUME NEW d \in Seq(Item), queue \in Seq(Item), accepted = d \o queue,
           NEW t, NEW item, NEW blocking, Attempt(t, item, blocking), item \in
              Item
    PROVE  accepted' = d \o queue'
<1>1. CASE UNCHANGED <<queue, accepted>>
    BY <1>1
<1>2. CASE queue' = Append(queue, item) /\ accepted' = Append(accepted, item)
  <2>1. <<item>> \in Seq(Item) /\ d \in Seq(Item) /\ queue \in Seq(Item)
      OBVIOUS
  <2>2. d \o queue \in Seq(Item)
      BY <2>1, ConcatProperties
  <2>3. Append(d \o queue, item) = (d \o queue) \o <<item>>
      BY <2>2
  <2>4. Append(queue, item) = queue \o <<item>>
      BY <2>1
  <2>5. (d \o queue) \o <<item>> = d \o (queue \o <<item>>)
      BY <2>1, ConcatAssociative
  <2> QED BY <1>2, <2>3, <2>4, <2>5
<1> QED BY <1>1, <1>2 DEF Attempt

(* An item moves from the queue to the hand to what is delivered.           *)
LEMMA OrderStep ==
    ASSUME TsfnTypeOK, CalledOK, HandOK, OrderOK, [TsfnNext]_tsfnVars
    PROVE  OrderOK'
<1> DEFINE Gone == delivered \o current
<1>0. /\ Gone \in Seq(Item) /\ queue \in Seq(Item) /\ current \in Seq(Item)
      /\ delivered \in Seq(Item)
    BY ConcatProperties DEF TsfnTypeOK
<1>1. ASSUME NEW t \in Threads, NEW mode \in BOOLEAN, Call(t, mode)
      PROVE  OrderOK'
  <2>1. Attempt(t, <<t, calls[t] + 1>>, mode) /\ UNCHANGED <<delivered,
     current>>
      BY <1>1 DEF Call
  <2>2. <<t, calls[t] + 1>> \in Item
      BY <1>1, BoundsAssumption DEF Call, TsfnTypeOK, Item
  <2>3. accepted = Gone \o queue
      BY DEF OrderOK
  <2>4. accepted' = Gone \o queue'
      BY <1>0, <2>1, <2>2, <2>3, AttemptOrder
  <2> QED BY <2>1, <2>4 DEF OrderOK
<1>2. ASSUME NEW t \in Threads, Retry(t) PROVE OrderOK'
  <2>1. Attempt(t, <<t, calls[t]>>, TRUE) /\ UNCHANGED <<delivered, current>>
      BY <1>2 DEF Retry
  <2>2. <<t, calls[t]>> \in Item
      BY <1>2, BoundsAssumption DEF Retry, TsfnTypeOK, CalledOK, Calling, Item
  <2>3. accepted = Gone \o queue
      BY DEF OrderOK
  <2>4. accepted' = Gone \o queue'
      BY <1>0, <2>1, <2>2, <2>3, AttemptOrder
  <2> QED BY <2>1, <2>4 DEF OrderOK
<1>3. ASSUME NEW t \in Threads, WakeForNothing(t) PROVE OrderOK'
    BY <1>3 DEF WakeForNothing, Goes, TsfnTypeOK, OrderOK
<1>4. ASSUME NEW t \in Threads, Send(t) PROVE OrderOK'
    BY <1>4 DEF Send, Goes, TsfnTypeOK, OrderOK
<1>5. ASSUME NEW t \in Threads, NEW u \in Threads, Acquire(t, u) PROVE OrderOK'
    BY <1>5 DEF Acquire, Enters, TsfnTypeOK, OrderOK
<1>6. ASSUME NEW t \in Threads, NEW mode \in BOOLEAN, Release(t, mode)
      PROVE  OrderOK'
    BY <1>6 DEF Release, GivesUp, Enters, Goes, TsfnTypeOK, OrderOK
<1>7. ASSUME NEW t \in Threads, Broadcast(t) PROVE OrderOK'
    BY <1>7 DEF Broadcast, TsfnTypeOK, OrderOK
<1>8. ASSUME NEW t \in Threads, ReachFreed(t) PROVE OrderOK'
    BY <1>8 DEF ReachFreed, Goes, TsfnTypeOK, OrderOK
<1>9. ASSUME NEW on \in BOOLEAN, SetRef(on) PROVE OrderOK'
    BY <1>9 DEF SetRef, TsfnTypeOK, OrderOK
<1>10. ASSUME AsyncCallback PROVE OrderOK'
    BY <1>10 DEF AsyncCallback, LoopAt, TsfnTypeOK, OrderOK
<1>11. ASSUME TakeItem PROVE OrderOK'
  <2>1. /\ current = <<>> /\ queue # <<>>
        /\ current' = <<Head(queue)>> /\ queue' = Tail(queue)
        /\ UNCHANGED <<accepted, delivered>>
      BY <1>11 DEF TakeItem, LoopAt, HandOK
  <2>2. Head(queue) \in Item /\ Tail(queue) \in Seq(Item)
      BY <1>0, <2>1
  <2>3. queue = <<Head(queue)>> \o Tail(queue)
      BY <1>0, <2>1, <2>2
  <2>4. accepted = delivered \o queue
      BY <1>0, <2>1, ConcatEmptySeq DEF OrderOK
  <2>5. delivered \o (<<Head(queue)>> \o Tail(queue)) = (delivered \o
     <<Head(queue)>>) \o Tail(queue)
    <3>1. <<Head(queue)>> \in Seq(Item)
        BY <2>2
    <3> QED BY <1>0, <2>2, <3>1, ConcatAssociative
  <2> QED BY <2>1, <2>3, <2>4, <2>5 DEF OrderOK
<1>12. ASSUME DrainEnds PROVE OrderOK'
    BY <1>12 DEF DrainEnds, LoopAt, TsfnTypeOK, OrderOK
<1>13. ASSUME SignalRoom PROVE OrderOK'
    BY <1>13 DEF SignalRoom, Goes, LoopAt, TsfnTypeOK, OrderOK
<1>14. ASSUME CallReturns PROVE OrderOK'
    BY <1>14 DEF CallReturns, LoopAt, TsfnTypeOK, OrderOK
<1>15. ASSUME Destroy PROVE OrderOK'
    BY <1>15 DEF Destroy, LoopAt, TsfnTypeOK, OrderOK
<1>16. ASSUME LoopEnds PROVE OrderOK'
    BY <1>16 DEF LoopEnds, LoopAt, TsfnTypeOK, OrderOK
<1>17. CASE UNCHANGED tsfnVars
    BY <1>17 DEF tsfnVars, TsfnTypeOK, OrderOK
<1> QED
    BY <1>1, <1>2, <1>3, <1>4, <1>5, <1>6, <1>7, <1>8, <1>9, <1>10, <1>11,
       <1>12,
       <1>13, <1>14, <1>15, <1>16, <1>17
    DEF TsfnNext, LoopStep

LEMMA Inductive == TsfnInv /\ [TsfnNext]_tsfnVars => TsfnInv'
BY TypeStep, SharesStep, InsideStep, CalledStep, HandStep, HandleStep,
   OrderStep DEF TsfnInv

(* The inductive invariant of napi_*_threadsafe_function and the drain      *)
(* always holds.                                                            *)
THEOREM Invariant == TsfnSpec => []TsfnInv
<1>1. TsfnInit => TsfnInv
    BY InitIInv
<1>2. TsfnInv /\ [TsfnNext]_tsfnVars => TsfnInv'
    BY Inductive
<1> QED BY <1>1, <1>2, PTL DEF TsfnSpec

(* The queue keeps to its limit and everything keeps its type               *)
(* (napi.c:1413-1423).                                                      *)
THEOREM TypeCorrect == TsfnSpec => []TsfnTypeOK
BY Invariant, PTL DEF TsfnInv

(* Whatever the threads, the limit and the moment of the abort or of the    *)
(* last release, the items a call was answered napi_ok for are delivered,   *)
(* in hand or queued, in the order of the answers, and all delivered before *)
(* the handle is closed (napi.c:1342-1371, 1407-1426).                      *)
THEOREM ItemsKept == TsfnSpec => []NothingLostOrOvertaken
<1>1. ASSUME TsfnInv PROVE NothingLostOrOvertaken
  <2>1. ASSUME handle # "open" PROVE delivered = accepted
    <3>1. queue = <<>> /\ current = <<>>
        BY <1>1, <2>1 DEF TsfnInv, HandleOK, HandOK
    <3>2. delivered \in Seq(Item) /\ accepted = (delivered \o <<>>) \o <<>>
        BY <1>1, <3>1 DEF TsfnInv, TsfnTypeOK, OrderOK
    <3> QED BY <3>2, ConcatEmptySeq
  <2> QED BY <1>1, <2>1 DEF TsfnInv, OrderOK, NothingLostOrOvertaken
<1> QED BY <1>1, Invariant, PTL

(* When the memory of a function is freed, no thread is left inside a call  *)
(* or with a share: only the way out of napi_release can reach it           *)
(* (napi.c:1333-1340, 1439-1453).                                           *)
THEOREM FreedWhenUnused == TsfnSpec => []FreedBehindReleaseOnly
<1>1. ASSUME TsfnInv PROVE FreedBehindReleaseOnly
  <2>1. SUFFICES ASSUME handle = "freed"
                 PROVE  /\ holders = {}
                        /\ \A t \in Threads : pc[t] \in {"out", "undefined"}
                           \cup Leaving
      BY DEF FreedBehindReleaseOnly
  <2>2. holders = {}
      BY <1>1, <2>1 DEF TsfnInv, HandleOK, SharesOK
  <2>3. ASSUME NEW t \in Threads PROVE pc[t] \in {"out", "undefined"} \cup
     Leaving
      BY <1>1, <2>2 DEF TsfnInv, TsfnTypeOK, InsideOK
  <2> QED BY <2>2, <2>3
<1> QED BY <1>1, Invariant, PTL

(* Both, for any threads, limits and calls.                                 *)
THEOREM LimitAndMemoryAreKept == TsfnSpec => []LimitAndMemoryKept
<1>1. TsfnTypeOK /\ FreedBehindReleaseOnly => LimitAndMemoryKept
    BY DEF LimitAndMemoryKept
<1> QED BY <1>1, TypeCorrect, FreedWhenUnused, PTL
=============================================================================
