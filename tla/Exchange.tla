------------------------------ MODULE Exchange ------------------------------
(***************************************************************************)
(* A fetch() and the handler of Sxn.serve that answers it (src/bootstrap.js): *)
(* the script's URL and its searchParams, the Request and what of its body *)
(* gets to the handler, the Headers of the handler's Response and what of  *)
(* them gets back, and the body that follows (Bodies).                     *)
(***************************************************************************)
EXTENDS Bodies, UrlParams

CONSTANTS
    Names,     \* names a script gives to params, in the order sort() puts them
    Values,    \* values a script gives to params
    Queries,   \* queries a script writes into a URL
    MaxEdits   \* bound: changes made to URL, params and headers

(* Names has every name once that a script or a query gives, so that sort()  *)
(* has a place for each.                                                   *)
ASSUME ExchangeAssumption ==
    /\ MaxEdits \in Nat /\ Values \subseteq Texts /\ Queries \subseteq Seq(QueryChars)
    /\ Names \in Seq(Texts) /\ IsInjective(Names)
    /\ \A query \in Queries : Malformed(query) \/ \A i \in DOMAIN Parsed(query) : Parsed(query)[i][1] \in ToSet(Names)

VARIABLES
    url,       \* its search, its _searchParamsObj (0: none), torn: a throw left the two apart
    objects,   \* the pairs of every URLSearchParams got from it
    request,   \* the body: given to fetch(), on the wire, held by the handler's Request, read
    headers,   \* the handler's list, what its calls came to, what fetch got
    form,      \* a FormData: its entries, and what the calls came to
    client,    \* an http.ClientRequest: chunks written, the event it has emitted
    edits

exchangeVars == <<url, objects, request, headers, form, client, edits>>
allVars == <<vars, exchangeVars>>

BodyKinds == {"none", "text", "bytes"}

Nothing == [n \in ToSet(HeaderNames) |-> <<>>]

ExchangeInit ==
    /\ Init
    /\ url = [search |-> <<>>, object |-> 0, torn |-> FALSE] /\ objects = <<>>
    /\ request \in [given : IF Does("send") THEN BodyKinds ELSE {"none"}, wire : {"none"}, held : {"none"}, read : {"none"}]
    /\ headers = [list |-> <<>>, meant |-> Nothing, got |-> <<>>]
    /\ form = [list |-> <<>>, meant |-> Nothing]
    /\ client = [chunks |-> 0, event |-> "none"]
    /\ edits = 0

Edits(what) == Does(what) /\ edits < MaxEdits /\ edits' = edits + 1

-----------------------------------------------------------------------------
(* url.searchParams: made once, until href is set.                         *)
GetsParams ==
    /\ Does("url") /\ url.object = 0 /\ ~Malformed(url.search)
    /\ objects' = Append(objects, Parsed(url.search))
    /\ url' = [url EXCEPT !.object = Len(objects')]
    /\ UNCHANGED <<vars, request, headers, form, client, edits>>

(* A change of any params object the script holds writes the search of the *)
(* URL from the one it has now; without one, _onchange throws, and so it   *)
(* does with a text that cannot be encoded: the pairs have changed by then.*)
Shown_Own(o) == o
Shown(o) == url.object
ChangesParams(o) ==
    /\ Edits("url") /\ o \in DOMAIN objects
    /\ \E name \in ToSet(Names), value \in Values :
           objects' \in {[objects EXCEPT ![o] = pairs] :
               pairs \in {Append(objects[o], <<name, value>>), SetPair(objects[o], name, value),
                          DeletedPairs(objects[o], name), DeletedPair(objects[o], name, value),
                          SortedPairs(objects[o], Names)}}
    /\ url' = IF url.object = 0 THEN url
              ELSE IF Encodes(objects'[Shown(o)])
              THEN [url EXCEPT !.search = Serialized(objects'[Shown(o)]), !.torn = FALSE]
              ELSE [url EXCEPT !.torn = @ \/ objects'[url.object] # objects[url.object]]
    /\ UNCHANGED <<vars, request, headers, form, client>>

(* url.search = query, which throws halfway if the query does not decode.  *)
SetsSearch(query) ==
    /\ Edits("url")
    /\ url' = [url EXCEPT !.search = query, !.torn = url.object # 0 /\ Malformed(query)]
    /\ objects' = IF url.object = 0 \/ Malformed(query) THEN objects
                  ELSE [objects EXCEPT ![url.object] = Parsed(query)]
    /\ UNCHANGED <<vars, request, headers, form, client>>

(* url.href = ...: the params object is left to whoever holds it.          *)
SetsHref(query) ==
    /\ Edits("url")
    /\ url' = [search |-> query, object |-> 0, torn |-> FALSE]
    /\ UNCHANGED <<vars, objects, request, headers, form, client>>

-----------------------------------------------------------------------------
(* fetch(): String() of a body that is not a string is not the body.       *)
Sent(kind) == IF kind \in {"none", "text"} THEN kind ELSE "garbled"
Fetches ==
    /\ FetchCalls
    /\ request' = IF call'.state = "asked" THEN [request EXCEPT !.wire = Sent(request.given)] ELSE request
    /\ UNCHANGED <<url, objects, headers, form, client, edits>>

(* Sxn.serve calls its handler with a Request of what came, which the      *)
(* handler reads as text(), json() or arrayBuffer(), as often as it likes. *)
HandlerCalled ==
    /\ call.state = "asked" /\ request.held = "none" /\ (Does("send") \/ Does("headers"))
    /\ request' = [request EXCEPT !.held = IF request.wire = "none" THEN "nothing" ELSE request.wire]
    /\ UNCHANGED <<vars, url, objects, headers, form, client, edits>>

RequestReads ==
    /\ request.held # "none" /\ request.read = "none"
    /\ request' = [request EXCEPT !.read = request.held]
    /\ UNCHANGED <<vars, url, objects, headers, form, client, edits>>

(* The handler puts the headers of its Response together, then hands it    *)
(* over: toNative() has the lines before the head goes out.                *)
EditsHeaders(name) ==
    /\ Edits("headers") /\ call.state = "asked" /\ request.held # "none"
    /\ LET value == <<edits'>>
       IN  \/ headers' = [headers EXCEPT !.list = AppendedHeader(@, name, value), !.meant[name] = @ \o value]
           \/ headers' = [headers EXCEPT !.list = SetHeader(@, name, value), !.meant[name] = value]
           \/ headers' = [headers EXCEPT !.list = DeletedHeader(@, name), !.meant[name] = <<>>]
    /\ UNCHANGED <<vars, url, objects, request, form, client>>

(* The head of the answer makes the client's Response.                     *)
Responds ==
    /\ HeadHeard
    /\ headers' = [headers EXCEPT !.got = FromLines(Lines(headers.list))]
    /\ UNCHANGED <<url, objects, request, form, client, edits>>

EditsForm(name) ==
    /\ Edits("form")
    /\ LET value == <<edits'>>
       IN  \/ form' = [form EXCEPT !.list = AppendedEntry(@, name, value), !.meant[name] = @ \o value]
           \/ form' = [form EXCEPT !.list = SetEntry(@, name, value), !.meant[name] = value]
           \/ form' = [form EXCEPT !.list = DeletedEntry(@, name), !.meant[name] = <<>>]
    /\ UNCHANGED <<vars, url, objects, request, headers, client>>

-----------------------------------------------------------------------------
(* http.request(): end() is a fetch() of the chunks written, text() of its *)
(* Response, and an event; that of a failure only before the head.         *)
ClientWrites ==
    /\ Edits("http") /\ call.state = "none"
    /\ client' = [client EXCEPT !.chunks = @ + 1]
    /\ request' = [request EXCEPT !.given = "text"]
    /\ UNCHANGED <<vars, url, objects, headers, form>>
ClientReads == Does("http") /\ LoopStarts("text")
ClientEmits ==
    /\ Does("http") /\ client.event = "none"
    /\ \/ state["text"] = "whole" /\ client' = [client EXCEPT !.event = "response"]
       \/ call.state = "refused" /\ client' = [client EXCEPT !.event = "error"]
    /\ UNCHANGED <<vars, url, objects, request, headers, form, edits>>

Next ==
    \/ BodyNext /\ UNCHANGED exchangeVars
    \/ Fetches \/ HandlerCalled \/ RequestReads \/ Responds \/ GetsParams
    \/ \E o \in DOMAIN objects : ChangesParams(o)
    \/ \E query \in Queries : SetsSearch(query) \/ SetsHref(query)
    \/ \E name \in ToSet(HeaderNames) : EditsHeaders(name) \/ EditsForm(name)
    \/ ClientWrites \/ ClientEmits

(* The engine runs its jobs, a source ends some day, and a script that has *)
(* begun to read goes on until it is told the end: each can be done only a *)
(* bounded number of times, so none waits for ever.                        *)
Spec == ExchangeInit /\ [][Next]_allVars /\ WF_allVars(((GoesOn \/ ClientReads) /\ UNCHANGED exchangeVars) \/ Responds \/ ClientEmits)

-----------------------------------------------------------------------------
(* A URL and its searchParams say the same, whichever was written last,    *)
(* whatever characters are in it, and through whichever object the script  *)
(* holds -- but for a query that does not decode, or a name or value that  *)
(* does not encode: the setter, or _onchange, has thrown between the two,  *)
(* and they are apart until one is written that does.                      *)
ParamsAgree == url.object # 0 /\ ~url.torn => Parsed(url.search) = objects[url.object]

(* What the handler's calls came to is what its list says and what the     *)
(* client's Response has: values in order, each Set-Cookie on its own; a   *)
(* FormData has what its calls came to; and the handler reads the body     *)
(* that was sent, if that was text.                                        *)
HeadersArrive ==
    /\ \A n \in ToSet(HeaderNames) :
           /\ ValuesOf(headers.list, n) = headers.meant[n]
           /\ ValuesOf(form.list, n) = form.meant[n]
           /\ call.state = "head" /\ Native => ValuesOf(headers.got, n) = headers.meant[n]
    /\ \A i \in DOMAIN headers.got : headers.got[i].name = Cookie => Len(headers.got[i].values) = 1
    /\ request.read # "none" /\ request.given = "text" => request.read = "text"

(* Whoever reads is told the end or an error some day, whichever of two    *)
(* branches reads, stops reading or cancels: each reader begins once, so   *)
(* from some point on none is reading.  An http.ClientRequest that got an  *)
(* answer or was refused emits its event -- but for a body that fails,     *)
(* which nobody hears of.                                                  *)
EveryReadSettles ==
    <>[](/\ Alone => \A r \in Readers : state[r] # "reading"
         /\ Does("http") /\ call.state \in {"head", "refused"} => client.event # "none" \/ state["text"] = "failed")
=============================================================================
