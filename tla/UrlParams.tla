----------------------------- MODULE UrlParams -----------------------------
(***************************************************************************)
(* URLSearchParams and the query of a URL, Headers, FormData                *)
(* (src/bootstrap.js): what each operation makes of the list it is kept in. *)
(*                                                                         *)
(* A name or value is a sequence of characters, of which "x" stands for    *)
(* all that are written as they are and "lone" for half of a surrogate     *)
(* pair, which no escape stands for; a query is a sequence of characters   *)
(* and escapes.                                                            *)
(***************************************************************************)
EXTENDS Integers, Sequences, SequencesExt

Escape == [c \in {"x", " ", "&", "=", "+", "%"} |->
               CASE c = "x" -> "x" [] c = " " -> "+" [] c = "&" -> "%26"
                 [] c = "=" -> "%3D" [] c = "+" -> "%2B" [] c = "%" -> "%25"]
Malformed(query) == "%" \in ToSet(query)

(* What names and values are made of, and what a query is.                 *)
Lone == "lone"
Texts == Seq(DOMAIN Escape \cup {Lone})
QueryChars == {Escape[c] : c \in DOMAIN Escape} \cup {"=", "&", "%", Lone}

(* encodeComponent, which throws on a lone surrogate; decodeComponent,     *)
(* which throws on a lone "%".                                             *)
Encodable == Seq(DOMAIN Escape)
Encodes(pairs) == pairs \in Seq(Encodable \X Encodable)
Encoded(text) == [i \in DOMAIN text |-> Escape[text[i]]]
Decoded(part) ==
    [i \in DOMAIN part |->
        IF part[i] \in {"=", Lone} THEN part[i] ELSE CHOOSE c \in DOMAIN Escape : Escape[c] = part[i]]

(* toString(), of pairs that it can encode.                                *)
Serialized(pairs) ==
    FlattenSeq([i \in DOMAIN pairs |->
        (IF i = 1 THEN <<>> ELSE <<"&">>) \o Encoded(pairs[i][1]) \o <<"=">> \o Encoded(pairs[i][2])])

(* filter(): what is at the positions kept.                                *)
Filtered(list, keep) == FlattenSeq([i \in DOMAIN list |-> IF i \in keep THEN <<list[i]>> ELSE <<>>])

(* new URLSearchParams(query): parts between "&", a name up to the first   *)
(* "=" of each, empty parts left out.                                      *)
Starts(query, i) == query[i] # "&" /\ (i > 1 => query[i - 1] = "&")
Cuts(query, i) == {k \in (i + 1)..(Len(query) + 1) : k > Len(query) \/ query[k] = "&"}
PartAt(query, i) == SubSeq(query, i, Min(Cuts(query, i)) - 1)
Equals(part) == {i \in DOMAIN part : part[i] = "="}
PairOf(part) ==
    IF Equals(part) = {} THEN <<Decoded(part), <<>>>>
    ELSE LET eq == Min(Equals(part))
         IN  <<Decoded(SubSeq(part, 1, eq - 1)), Decoded(SubSeq(part, eq + 1, Len(part)))>>
Parsed(query) ==
    FlattenSeq([i \in DOMAIN query |-> IF Starts(query, i) THEN <<PairOf(PartAt(query, i))>> ELSE <<>>])

(* delete, set and sort, which puts names in their order; append is Append. *)
PairsNamed(pairs, name) == {i \in DOMAIN pairs : pairs[i][1] = name}
DeletedPairs(pairs, name) == Filtered(pairs, DOMAIN pairs \ PairsNamed(pairs, name))
DeletedPair(pairs, name, value) == Filtered(pairs, {i \in DOMAIN pairs : pairs[i] # <<name, value>>})
SetPair(pairs, name, value) ==
    IF PairsNamed(pairs, name) = {} THEN Append(pairs, <<name, value>>)
    ELSE LET first == Min(PairsNamed(pairs, name))
         IN  SubSeq(pairs, 1, first - 1) \o <<<<name, value>>>>
             \o DeletedPairs(SubSeq(pairs, first + 1, Len(pairs)), name)
SortedPairs(pairs, names) == FlattenSeq([k \in DOMAIN names |-> Filtered(pairs, PairsNamed(pairs, names[k]))])

-----------------------------------------------------------------------------
(* Headers: the values of an entry are joined by a comma; "set-cookie" has *)
(* an entry for each value.  Names are as _norm leaves them.               *)
Cookie == "set-cookie"
HeaderNames == <<"a", Cookie>>

Named(list, name) == {i \in DOMAIN list : list[i].name = name}
AppendedHeader(list, name, values) ==
    IF name # Cookie /\ Named(list, name) # {}
    THEN [list EXCEPT ![Min(Named(list, name))].values = @ \o values]
    ELSE Append(list, [name |-> name, values |-> values])
DeletedHeader(list, name) == Filtered(list, DOMAIN list \ Named(list, name))
SetHeader(list, name, values) ==
    LET entry == [name |-> name, values |-> values]
        first == Min(Named(list, name))
    IN  IF Named(list, name) = {} THEN Append(list, entry)
        ELSE SubSeq(list, 1, first - 1) \o <<entry>>
             \o DeletedHeader(SubSeq(list, first + 1, Len(list)), name)
(* FormData keeps an entry for each value; its set() leaves one of a name,  *)
(* where the first was.                                                    *)
AppendedEntry(entries, name, values) == Append(entries, [name |-> name, values |-> values])
SetEntry(entries, name, values) == SetHeader(entries, name, values)
DeletedEntry(entries, name) == DeletedHeader(entries, name)

ValuesOf(list, name) ==
    FlattenSeq([i \in DOMAIN list |-> IF list[i].name = name THEN list[i].values ELSE <<>>])

(* sortedHeaderList, and the lines Sxn.serve hands to the native server:   *)
(* one for each name, for "set-cookie" one for each value.                 *)
SortedHeaders(list) == FlattenSeq([k \in DOMAIN HeaderNames |-> Filtered(list, Named(list, HeaderNames[k]))])
Lines_LastOfEach(list) ==
    SelectSeq(SortedHeaders(list), LAMBDA e : \A i \in DOMAIN list : list[i].name = e.name => list[i].values[1] <= e.values[1])
Lines(list) == SortedHeaders(list)
(* fetch: the lines of the head appended one by one.                       *)
FromLines(lines) ==
    LET made[k \in 0..Len(lines)] ==
            IF k = 0 THEN <<>> ELSE AppendedHeader(made[k - 1], lines[k].name, lines[k].values)
    IN  made[Len(lines)]
=============================================================================
