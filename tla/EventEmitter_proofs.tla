------------------------- MODULE EventEmitter_proofs -------------------------
(***************************************************************************)
(* Theorems about EventEmitter, for every set of emitters, events and      *)
(* listeners, any number of arrays and any depth of nested emits.          *)
(***************************************************************************)
EXTENDS EventEmitter, FiniteSetTheorems, TLAPS

(* The lists and the emits a store, arrays and a stack stand for.           *)
Lists(st, arrs) == [e \in Events |-> ListIn(st[e], arrs)]
Begins(f, arrs) ==
    [event |-> f.event, list |-> [j \in 1..f.n |-> ListIn(f.entry, arrs)[j]], called |-> f.i]
Begunnings(stk, arrs) == [k \in DOMAIN stk |-> Begins(stk[k], arrs)]

Walkers(stk) == {k \in DOMAIN stk : Walks(stk[k].entry)}

(* The inductive invariant in parts: arrays are for two listeners or more, *)
(* no two events share one, and an emit on the stack still finds all it    *)
(* began with in its entry.                                                *)
StoreOK(st, arrs) ==
    /\ st \in [Events -> Entries]
    /\ arrs \in [Arrays -> Seq(Functions)]
    /\ \A e \in Events : st[e].array # NoArray => Len(arrs[st[e].array]) >= 2
    /\ \A e, f \in Events : st[e].array # NoArray /\ st[e].array = st[f].array => e = f
StackOK(stk, arrs) ==
    /\ stk \in Seq(Emits)
    /\ \A k \in DOMAIN stk :
           /\ stk[k].n <= Len(ListIn(stk[k].entry, arrs))
           /\ stk[k].i \in 1..stk[k].n
MemoOK(mem, st) == mem \in SUBSET Memos /\ \A m \in mem : m.entry = st[m.event]
DepthOK(d, stk) == d = Cardinality(Walkers(stk))

IInv ==
    /\ StoreOK(store, arrays)
    /\ StackOK(stack, arrays)
    /\ MemoOK(memo, store)
    /\ DepthOK(depth, stack)
    /\ limit \in [Emitters -> Limits]
    /\ warned \in SUBSET Events

-----------------------------------------------------------------------------
LEMMA EntryList ==
    ASSUME NEW entry \in Entries, NEW arrs \in [Arrays -> Seq(Functions)]
    PROVE  /\ ListIn(entry, arrs) \in Seq(Functions)
           /\ entry.array = NoArray => Len(ListIn(entry, arrs)) <= 1
BY DEF ListIn, Entries

(* What off() makes of a list.                                              *)
LEMMA RemovedList ==
    ASSUME NEW list \in Seq(Functions), NEW arg
    PROVE  /\ Removed(list, arg) \in Seq(Functions)
           /\ FirstMatches(list, arg) = {} => Removed(list, arg) = list
           /\ FirstMatches(list, arg) # {} => /\ Len(Removed(list, arg)) = Len(list) - 1
                                              /\ Len(list) >= 1
<1>1. CASE FirstMatches(list, arg) = {}
    BY <1>1 DEF Removed
<1>2. CASE FirstMatches(list, arg) # {}
  <2> DEFINE i == CHOOSE i \in FirstMatches(list, arg) : TRUE
  <2>1. i \in 1..Len(list)
      BY <1>2 DEF FirstMatches
  <2>2. Removed(list, arg) = Without(list, i)
      BY <1>2 DEF Removed
  <2> HIDE DEF i
  <2>3. Without(list, i) \in Seq(Functions) /\ Len(Without(list, i)) = Len(list) - 1
    <3>1. Len(list) - 1 \in Nat
        BY <2>1
    <3>2. \A j \in 1..(Len(list) - 1) : (IF j < i THEN list[j] ELSE list[j + 1]) \in Functions
        BY <2>1
    <3> QED BY <3>1, <3>2 DEF Without
  <2> QED BY <1>2, <2>1, <2>2, <2>3
<1> QED BY <1>1, <1>2

(* Freeing what nothing refers to changes no list and no emit.              *)
LEMMA FreedKeeps ==
    ASSUME NEW st, NEW arrs, NEW stk, NEW freed,
           StoreOK(st, arrs), StackOK(stk, arrs), freed = Freed(arrs, st, stk)
    PROVE  /\ StoreOK(st, freed) /\ StackOK(stk, freed)
           /\ Lists(st, freed) = Lists(st, arrs)
           /\ Begunnings(stk, freed) = Begunnings(stk, arrs)
<1>1. freed \in [Arrays -> Seq(Functions)]
    BY DEF Freed, StoreOK
<1>2. \A e \in Events : st[e] \in Entries
    BY DEF StoreOK
<1>3. \A k \in DOMAIN stk : stk[k] \in Emits
    BY DEF StackOK
<1>4. \A e \in Events : ListIn(st[e], freed) = ListIn(st[e], arrs)
    BY <1>2 DEF ListIn, Freed, Referred, Entries
<1>5. \A k \in DOMAIN stk : ListIn(stk[k].entry, freed) = ListIn(stk[k].entry, arrs)
    BY <1>3 DEF ListIn, Freed, Referred, Entries, Emits
<1>6. \A e \in Events : st[e].array # NoArray => freed[st[e].array] = arrs[st[e].array]
    BY <1>4 DEF ListIn
<1>7. StoreOK(st, freed)
    BY <1>1, <1>6 DEF StoreOK
<1>8. StackOK(stk, freed)
    BY <1>5 DEF StackOK
<1>9. Lists(st, freed) = Lists(st, arrs)
    BY <1>4 DEF Lists
<1>10. Begunnings(stk, freed) = Begunnings(stk, arrs)
    BY <1>5 DEF Begunnings, Begins
<1> QED BY <1>7, <1>8, <1>9, <1>10

(* A change of the store and the arrays that gives event e this list and    *)
(* leaves the other events' lists and what the emits began with alone.      *)
Keeps(e, list, stk, st, arrs) ==
    /\ StoreOK(st, arrs)
    /\ StackOK(stk, arrs)
    /\ Lists(st, arrs) = [Lists(store, arrays) EXCEPT ![e] = list]
    /\ Begunnings(stk, arrs) = Begunnings(stk, arrays)

(* An event gets a new entry, one without an array.                         *)
Replaces(e, entry, st) ==
    entry \in Entries /\ entry.array = NoArray /\ st = [store EXCEPT ![e] = entry]
LEMMA NewEntry ==
    ASSUME NEW stk, StoreOK(store, arrays), StackOK(stk, arrays),
           NEW e \in Events, NEW entry, NEW st, Replaces(e, entry, st)
    PROVE  Keeps(e, ListIn(entry, arrays), stk, st, arrays)
<1>1. /\ st[e] = entry /\ entry \in Entries /\ entry.array = NoArray
      /\ st \in [Events -> Entries] /\ \A f \in Events : f # e => st[f] = store[f]
    BY DEF StoreOK, Replaces
<1>2. StoreOK(st, arrays)
    BY <1>1 DEF StoreOK
<1>3. Lists(st, arrays) = [Lists(store, arrays) EXCEPT ![e] = ListIn(entry, arrays)]
    BY <1>1 DEF Lists
<1> QED BY <1>2, <1>3 DEF Keeps

(* An array that no other event has and no emit walks is written, and the   *)
(* event gets it or an entry without one.                                   *)
Writes(e, entry, a, list, stk, st, arrs) ==
    /\ entry \in Entries /\ a \in Arrays /\ list \in Seq(Functions)
    /\ entry.array # NoArray => entry.array = a /\ Len(list) >= 2
    /\ \A f \in Events : f # e => store[f].array # a
    /\ \A k \in DOMAIN stk : stk[k].entry.array # a
    /\ st = [store EXCEPT ![e] = entry]
    /\ arrs = [arrays EXCEPT ![a] = list]
LEMMA NewContents ==
    ASSUME NEW stk, StoreOK(store, arrays), StackOK(stk, arrays),
           NEW e \in Events, NEW entry, NEW a, NEW list, NEW st, NEW arrs,
           Writes(e, entry, a, list, stk, st, arrs)
    PROVE  Keeps(e, ListIn(entry, arrs), stk, st, arrs)
<1>0. /\ store \in [Events -> Entries]
      /\ \A k \in DOMAIN stk : stk[k] \in Emits
      /\ \A f \in Events : f # e => store[f].array # a
      /\ \A k \in DOMAIN stk : stk[k].entry.array # a
      /\ entry \in Entries /\ a \in Arrays /\ list \in Seq(Functions)
      /\ entry.array # NoArray => entry.array = a /\ Len(list) >= 2
      /\ st = [store EXCEPT ![e] = entry]
      /\ arrs = [arrays EXCEPT ![a] = list]
    BY DEF StoreOK, StackOK, Writes
<1>1. /\ st[e] = entry /\ st \in [Events -> Entries]
      /\ \A f \in Events : f # e => st[f] = store[f]
      /\ arrs[a] = list /\ arrs \in [Arrays -> Seq(Functions)]
      /\ \A b \in Arrays : b # a => arrs[b] = arrays[b]
    BY <1>0 DEF StoreOK
<1>2. \A f \in Events : f # e => ListIn(st[f], arrs) = ListIn(store[f], arrays)
    BY <1>0, <1>1 DEF ListIn, Entries
<1>3. \A k \in DOMAIN stk : ListIn(stk[k].entry, arrs) = ListIn(stk[k].entry, arrays)
    BY <1>0, <1>1 DEF ListIn, Entries, Emits
<1>4. StoreOK(st, arrs)
  <2>1. \A f \in Events : f # e /\ store[f].array # NoArray =>
            /\ store[f].array \in Arrays
            /\ arrs[store[f].array] = arrays[store[f].array]
      BY <1>0, <1>1 DEF Entries
  <2>2. \A f \in Events : f # e /\ store[f].array # NoArray => Len(arrays[store[f].array]) >= 2
      BY DEF StoreOK
  <2>3. \A f \in Events : st[f].array # NoArray => Len(arrs[st[f].array]) >= 2
      BY <1>0, <1>1, <2>1, <2>2
  <2>4. \A f, g \in Events : st[f].array # NoArray /\ st[f].array = st[g].array => f = g
    <3>1. \A f, g \in Events :
              store[f].array # NoArray /\ store[f].array = store[g].array => f = g
        BY DEF StoreOK
    <3>2. \A f \in Events : f # e => st[f].array # a
        BY <1>0, <1>1
    <3> QED BY <1>0, <1>1, <3>1, <3>2
  <2> QED BY <1>1, <2>3, <2>4 DEF StoreOK
<1>5. StackOK(stk, arrs) /\ Begunnings(stk, arrs) = Begunnings(stk, arrays)
    BY <1>3 DEF StackOK, Begunnings, Begins
<1>6. Lists(st, arrs) = [Lists(store, arrays) EXCEPT ![e] = ListIn(entry, arrs)]
    BY <1>1, <1>2 DEF Lists
<1> QED BY <1>4, <1>5, <1>6 DEF Keeps

(* An array that is not in use is nobody's.                                 *)
LEMMA NewArrayFree ==
    ASSUME NEW stk, StoreOK(store, arrays), StackOK(stk, arrays), Unused # {}
    PROVE  /\ NewArray \in Arrays
           /\ NewArray # NoArray
           /\ \A f \in Events : store[f].array # NewArray
           /\ \A k \in DOMAIN stk : stk[k].entry.array # NewArray
<1> USE EmitterAssumption
<1> DEFINE a == NewArray
<1>1. a \in Arrays /\ arrays[a] = <<>> /\ a # NoArray
    BY DEF NewArray, Unused
<1> HIDE DEF a
<1>2. \A f \in Events : store[f].array # a
    BY <1>1 DEF StoreOK
<1>3. ASSUME NEW k \in DOMAIN stk, stk[k].entry.array = a PROVE FALSE
  <2>1. ListIn(stk[k].entry, arrays) = <<>>
      BY <1>1, <1>3 DEF ListIn
  <2>2. stk[k] \in Emits
      BY DEF StackOK
  <2> QED BY <2>1, <2>2 DEF StackOK, Emits
<1> QED BY <1>1, <1>2, <1>3 DEF a

(* on() appends to the event's list, and no emit sees it.                   *)
LEMMA AddedKeeps ==
    ASSUME NEW stk, StoreOK(store, arrays), StackOK(stk, arrays),
           NEW e \in Events, NEW v \in Functions,
           store[e] # Nothing /\ store[e].array = NoArray => Unused # {}
    PROVE  LET added == Added(e, v) IN
           Keeps(e, Append(Lists(store, arrays)[e], v), stk, added.st, added.arrs)
<1> USE EmitterAssumption
<1>0. /\ store \in [Events -> Entries]
      /\ arrays \in [Arrays -> Seq(Functions)]
      /\ \A k \in DOMAIN stk : stk[k] \in Emits
      /\ Lists(store, arrays)[e] = ListIn(store[e], arrays)
    BY DEF StoreOK, StackOK, Lists
<1>1. CASE store[e] = Nothing
  <2>1. PICK st : st = [store EXCEPT ![e] = One(v)]
      OBVIOUS
  <2>2. Added(e, v) = [st |-> st, arrs |-> arrays]
      BY <1>1, <2>1 DEF Added
  <2>3. ListIn(store[e], arrays) = <<>> /\ ListIn(One(v), arrays) = <<v>>
      BY <1>1 DEF ListIn, Nothing, One
  <2>4. Replaces(e, One(v), st)
      BY <2>1 DEF Replaces, One, Entries
  <2>5. Keeps(e, ListIn(One(v), arrays), stk, st, arrays)
      BY <2>4, NewEntry
  <2>6. ListIn(One(v), arrays) = Append(Lists(store, arrays)[e], v)
      BY <1>0, <2>3
  <2>7. Keeps(e, Append(Lists(store, arrays)[e], v), stk, st, arrays)
      BY <2>5, <2>6, Zenon
  <2>8. Added(e, v).st = st /\ Added(e, v).arrs = arrays
      BY <2>2
  <2> QED BY <2>7, <2>8, Zenon
<1>2. CASE store[e] # Nothing /\ store[e].array = NoArray
  <2>1. PICK a, list : a = NewArray /\ list = <<store[e].function, v>>
      OBVIOUS
  <2>2. PICK st, arrs : /\ st = [store EXCEPT ![e] = Many(a)]
                        /\ arrs = [arrays EXCEPT ![a] = list]
      OBVIOUS
  <2>3. Added(e, v) = [st |-> st, arrs |-> arrs]
      BY <1>2, <2>1, <2>2 DEF Added
  <2>4. /\ a \in Arrays /\ a # NoArray
        /\ \A f \in Events : store[f].array # a
        /\ \A k \in DOMAIN stk : stk[k].entry.array # a
      BY <1>2, <2>1, NewArrayFree
  <2>5. store[e].function \in Functions
      BY <1>0, <1>2 DEF Entries, Nothing
  <2>6. list \in Seq(Functions) /\ Len(list) = 2
      BY <2>1, <2>5
  <2>7. list = Append(ListIn(store[e], arrays), v)
      BY <1>2, <2>1, <2>5 DEF ListIn
  <2>8. Many(a) \in Entries /\ Many(a).array = a
      BY <2>4 DEF Many, Entries
  <2>9. ListIn(Many(a), arrs) = list
      BY <1>0, <2>2, <2>4 DEF ListIn, Many
  <2>10. Writes(e, Many(a), a, list, stk, st, arrs)
      BY <2>2, <2>4, <2>6, <2>8 DEF Writes
  <2>11. Keeps(e, ListIn(Many(a), arrs), stk, st, arrs)
      BY <2>10, NewContents
  <2> QED BY <1>0, <2>3, <2>7, <2>9, <2>11
<1>3. CASE store[e].array # NoArray
  <2> DEFINE a == store[e].array
             arrs == [arrays EXCEPT ![a] = Append(@, v)]
  <2>1. Added(e, v) = [st |-> store, arrs |-> arrs]
      BY <1>3 DEF Added, Nothing
  <2>2. a \in Arrays
      BY <1>0, <1>3 DEF Entries
  <2>3. /\ arrs \in [Arrays -> Seq(Functions)]
        /\ arrs[a] = Append(arrays[a], v)
        /\ \A b \in Arrays : b # a => arrs[b] = arrays[b]
        /\ \A b \in Arrays : /\ Len(arrs[b]) >= Len(arrays[b])
                             /\ \A j \in 1..Len(arrays[b]) : arrs[b][j] = arrays[b][j]
      BY <1>0, <2>2
  <2> HIDE DEF arrs
  <2>4. StoreOK(store, arrs)
    <3>1. \A f \in Events : store[f].array # NoArray => store[f].array \in Arrays
        BY <1>0 DEF Entries
    <3>2. \A b \in Arrays : Len(arrs[b]) \in Nat /\ Len(arrays[b]) \in Nat
        BY <1>0, <2>3
    <3> QED BY <1>0, <2>3, <3>1, <3>2 DEF StoreOK
  <2>5. Lists(store, arrs) = [Lists(store, arrays) EXCEPT ![e] = Append(Lists(store, arrays)[e], v)]
    <3>1. \A f \in Events : f # e => ListIn(store[f], arrs) = ListIn(store[f], arrays)
        BY <1>0, <1>3, <2>3 DEF ListIn, Entries, StoreOK
    <3>2. ListIn(store[e], arrs) = Append(ListIn(store[e], arrays), v)
        BY <1>3, <2>3 DEF ListIn
    <3> QED BY <1>0, <3>1, <3>2 DEF Lists
  <2>6. \A k \in DOMAIN stk :
            /\ Len(ListIn(stk[k].entry, arrs)) >= Len(ListIn(stk[k].entry, arrays))
            /\ \A j \in 1..Len(ListIn(stk[k].entry, arrays)) :
                   ListIn(stk[k].entry, arrs)[j] = ListIn(stk[k].entry, arrays)[j]
      BY <1>0, <2>3 DEF ListIn, Entries, Emits
  <2>7. \A k \in DOMAIN stk : /\ ListIn(stk[k].entry, arrs) \in Seq(Functions)
                              /\ ListIn(stk[k].entry, arrays) \in Seq(Functions)
      BY <1>0, <2>3, EntryList DEF Emits
  <2>8. StackOK(stk, arrs)
      BY <1>0, <2>6, <2>7 DEF StackOK, Emits
  <2>9. \A k \in DOMAIN stk : \A j \in 1..stk[k].n :
            ListIn(stk[k].entry, arrs)[j] = ListIn(stk[k].entry, arrays)[j]
      BY <1>0, <2>6, <2>7 DEF StackOK, Emits
  <2>10. \A k \in DOMAIN stk : Begins(stk[k], arrs) = Begins(stk[k], arrays)
      BY <2>9 DEF Begins
  <2>11. Begunnings(stk, arrs) = Begunnings(stk, arrays)
      BY <2>10 DEF Begunnings
  <2> QED BY <2>1, <2>4, <2>5, <2>8, <2>11 DEF Keeps
<1> QED BY <1>1, <1>2, <1>3

(* off() takes the first match out of the event's list, and no emit sees    *)
(* it: while one may walk the array, off() writes another.                  *)
LEMMA TakenKeeps ==
    ASSUME NEW stk, StoreOK(store, arrays), StackOK(stk, arrays),
           NEW e \in Events, NEW arg, NEW d \in Nat,
           d = 0 => Walkers(stk) = {}, d > 0 => Unused # {}
    PROVE  LET taken == Taken(e, arg, d) IN
           Keeps(e, Removed(Lists(store, arrays)[e], arg), stk, taken.st, taken.arrs)
<1> USE EmitterAssumption
<1>0. /\ store \in [Events -> Entries]
      /\ arrays \in [Arrays -> Seq(Functions)]
      /\ ListOf(store[e]) = ListIn(store[e], arrays)
      /\ Lists(store, arrays)[e] = ListIn(store[e], arrays)
    BY DEF StoreOK, Lists, ListOf
<1>1. PICK old, list : /\ old = ListIn(store[e], arrays)
                       /\ list = Removed(old, arg)
    OBVIOUS
<1>2. old \in Seq(Functions) /\ (store[e].array = NoArray => Len(old) <= 1)
    BY <1>0, <1>1, EntryList
<1>3. /\ list \in Seq(Functions)
      /\ FirstMatches(old, arg) = {} => list = old
      /\ FirstMatches(old, arg) # {} => Len(list) = Len(old) - 1 /\ Len(old) >= 1
    BY <1>1, <1>2, RemovedList
<1>4. CASE FirstMatches(old, arg) = {} /\ (store[e].array = NoArray \/ d = 0)
  <2>1. Taken(e, arg, d) = [st |-> store, arrs |-> arrays]
      BY <1>0, <1>1, <1>4 DEF Taken, Untouched
  <2>2. Lists(store, arrays) = [Lists(store, arrays) EXCEPT ![e] = list]
      BY <1>0, <1>1, <1>3, <1>4 DEF Lists
  <2> QED BY <1>0, <1>1, <2>1, <2>2 DEF Keeps
<1>5. CASE FirstMatches(old, arg) # {} /\ store[e].array = NoArray
  <2>1. PICK st : st = [store EXCEPT ![e] = Nothing]
      OBVIOUS
  <2>2. Taken(e, arg, d) = [st |-> st, arrs |-> arrays]
      BY <1>0, <1>1, <1>5, <2>1 DEF Taken, Untouched
  <2>3. Replaces(e, Nothing, st)
      BY <2>1 DEF Replaces, Nothing, Entries
  <2>4. Keeps(e, ListIn(Nothing, arrays), stk, st, arrays)
      BY <2>3, NewEntry
  <2>5. list = <<>>
      BY <1>2, <1>3, <1>5
  <2>6. ListIn(Nothing, arrays) = <<>>
      BY DEF ListIn, Nothing
  <2> QED BY <1>0, <1>1, <2>2, <2>4, <2>5, <2>6
<1>6. CASE (FirstMatches(old, arg) # {} \/ d # 0) /\ store[e].array # NoArray
  <2>1. store[e].array \in Arrays /\ (Len(list) = 1 \/ Len(list) >= 2)
    <3>1. store[e].array \in Arrays /\ Len(old) >= 2
        BY <1>0, <1>1, <1>6 DEF Entries, StoreOK, ListIn
    <3>2. PICK n \in Nat : n = Len(list) /\ (n = Len(old) - 1 \/ n = Len(old))
        BY <1>2, <1>3
    <3>3. n + 1 >= 2
        BY <1>2, <3>1, <3>2
    <3>4. n = 1 \/ n >= 2
        BY <3>3
    <3> QED BY <3>1, <3>2, <3>4
  <2>2. PICK a : a = IF d > 0 THEN NewArray ELSE store[e].array
      OBVIOUS
  <2>3. /\ a \in Arrays /\ a # NoArray
        /\ \A f \in Events : f # e => store[f].array # a
        /\ \A k \in DOMAIN stk : stk[k].entry.array # a
    <3>1. CASE d > 0
        BY <2>2, <3>1, NewArrayFree
    <3>2. CASE d = 0
        BY <1>6, <2>1, <2>2, <3>2 DEF StoreOK, Walkers, Walks
    <3> QED BY <3>1, <3>2
  <2>4. PICK arrs : arrs = [arrays EXCEPT ![a] = list]
      OBVIOUS
  <2>5. ASSUME Len(list) = 1
        PROVE  Keeps(e, list, stk, Taken(e, arg, d).st, Taken(e, arg, d).arrs)
    <3>1. PICK v, st : v = list[1] /\ st = [store EXCEPT ![e] = One(v)]
        OBVIOUS
    <3>2. v \in Functions /\ list = <<v>>
        BY <1>3, <2>5, <3>1
    <3>3. One(v) \in Entries /\ One(v).array = NoArray
        BY <3>2 DEF One, Entries
    <3>4. ListIn(One(v), arrays) = list /\ ListIn(One(v), arrs) = list
        BY <3>2 DEF ListIn, One
    <3>5. CASE d > 0
      <4>1. Taken(e, arg, d) = [st |-> st, arrs |-> arrays]
          BY <1>0, <1>1, <1>6, <2>5, <3>1, <3>5 DEF Taken, Untouched
      <4>2. Replaces(e, One(v), st)
          BY <3>1, <3>3 DEF Replaces
      <4>3. Keeps(e, ListIn(One(v), arrays), stk, st, arrays)
          BY <4>2, NewEntry
      <4> QED BY <3>4, <4>1, <4>3
    <3>6. CASE d = 0
      <4>1. Taken(e, arg, d) = [st |-> st, arrs |-> arrs]
          BY <1>0, <1>1, <1>6, <2>2, <2>4, <2>5, <3>1, <3>6 DEF Taken, Untouched
      <4>2. Writes(e, One(v), a, list, stk, st, arrs)
          BY <1>3, <2>3, <2>4, <3>1, <3>3 DEF Writes
      <4>3. Keeps(e, ListIn(One(v), arrs), stk, st, arrs)
          BY <4>2, NewContents
      <4> QED BY <3>4, <4>1, <4>3
    <3> QED BY <3>5, <3>6
  <2>6. ASSUME Len(list) >= 2, Len(list) # 1
        PROVE  Keeps(e, list, stk, Taken(e, arg, d).st, Taken(e, arg, d).arrs)
    <3>1. PICK st : st = [store EXCEPT ![e] = Many(a)]
        OBVIOUS
    <3>2. Taken(e, arg, d) = [st |-> st, arrs |-> arrs]
        BY <1>0, <1>1, <1>6, <2>2, <2>4, <2>6, <3>1 DEF Taken, Untouched
    <3>3. Many(a) \in Entries /\ Many(a).array = a /\ Len(list) >= 2
        BY <2>3, <2>6 DEF Many, Entries
    <3>4. ListIn(Many(a), arrs) = list
        BY <1>0, <2>3, <2>4 DEF ListIn, Many
    <3>5. Writes(e, Many(a), a, list, stk, st, arrs)
        BY <1>3, <2>3, <2>4, <3>1, <3>3 DEF Writes
    <3>6. Keeps(e, ListIn(Many(a), arrs), stk, st, arrs)
        BY <3>5, NewContents
    <3> QED BY <3>2, <3>4, <3>6
  <2> QED
    <3>1. Keeps(e, list, stk, Taken(e, arg, d).st, Taken(e, arg, d).arrs)
        BY <2>1, <2>5, <2>6
    <3> QED BY <1>0, <1>1, <3>1, Zenon
<1> QED BY <1>4, <1>5, <1>6

(* The depth counts the emits that walk an array.                           *)
LEMMA WalkersFinite ==
    ASSUME NEW stk \in Seq(Emits)
    PROVE  /\ IsFiniteSet(Walkers(stk))
           /\ Cardinality(Walkers(stk)) \in Nat
           /\ Cardinality(Walkers(stk)) = 0 => Walkers(stk) = {}
<1>1. IsFiniteSet(1..Len(stk))
    BY FS_Interval
<1>2. Walkers(stk) \in SUBSET (1..Len(stk))
    BY DEF Walkers
<1>3. IsFiniteSet(Walkers(stk))
    BY <1>1, <1>2, FS_Subset
<1> QED BY <1>3, FS_CardinalityType, FS_EmptySet

LEMMA WalkersAppend ==
    ASSUME NEW stk \in Seq(Emits), NEW f \in Emits
    PROVE  Cardinality(Walkers(Append(stk, f))) =
               IF Walks(f.entry) THEN Cardinality(Walkers(stk)) + 1 ELSE Cardinality(Walkers(stk))
<1>1. Walkers(Append(stk, f)) =
          IF Walks(f.entry) THEN Walkers(stk) \cup {Len(stk) + 1} ELSE Walkers(stk)
    BY DEF Walkers
<1>2. Len(stk) + 1 \notin Walkers(stk)
    BY DEF Walkers
<1>3. IsFiniteSet(Walkers(stk))
    BY WalkersFinite
<1>4. PICK x, W : x = Len(stk) + 1 /\ W = Walkers(stk)
    OBVIOUS
<1>5. Cardinality(W \cup {x}) = Cardinality(W) + 1
    BY <1>2, <1>3, <1>4, FS_AddElement, Zenon
<1> QED BY <1>1, <1>4, <1>5

LEMMA WalkersOuter ==
    ASSUME NEW stk \in Seq(Emits), stk # <<>>,
           NEW out, out = [k \in 1..(Len(stk) - 1) |-> stk[k]]
    PROVE  /\ out \in Seq(Emits) /\ Len(out) = Len(stk) - 1
           /\ Cardinality(Walkers(out)) =
                  IF Walks(stk[Len(stk)].entry) THEN Cardinality(Walkers(stk)) - 1
                  ELSE Cardinality(Walkers(stk))
<1>1. out \in Seq(Emits) /\ Len(out) = Len(stk) - 1
    OBVIOUS
<1>2. Walkers(out) = Walkers(stk) \ {Len(stk)}
    BY <1>1 DEF Walkers
<1>3. Len(stk) \in Walkers(stk) <=> Walks(stk[Len(stk)].entry)
    BY DEF Walkers
<1> QED BY <1>1, <1>2, <1>3, WalkersFinite, FS_RemoveElement

(* Freeing after a change of one list.                                      *)
LEMMA KeepsFreed ==
    ASSUME NEW e, NEW list, NEW stk, NEW st, NEW arrs, NEW freed,
           Keeps(e, list, stk, st, arrs), freed = Freed(arrs, st, stk)
    PROVE  Keeps(e, list, stk, st, freed)
BY FreedKeeps DEF Keeps

(* A listener is called: the calling emit has its place in stk, and a       *)
(* wrapper takes itself out of the list.                                    *)
LEMMA CallsKeeps ==
    ASSUME NEW stk, NEW d, NEW mem, NEW e \in Events, NEW v \in Functions,
           StoreOK(store, arrays), StackOK(stk, arrays), MemoOK(mem, store), DepthOK(d, stk),
           Calls(e, v, stk, d, mem)
    PROVE  /\ StoreOK(store', arrays') /\ StackOK(stack', arrays')
           /\ MemoOK(memo', store') /\ DepthOK(depth', stack')
           /\ Lists(store', arrays') =
                  IF IsOnce(v)
                  THEN [Lists(store, arrays) EXCEPT ![e] = Removed(Lists(store, arrays)[e], v)]
                  ELSE Lists(store, arrays)
           /\ Begunnings(stack', arrays') = Begunnings(stk, arrays)
<1>1. stack' = stk /\ depth' = d
    BY DEF Calls
<1>2. CASE IsOnce(v)
  <2>1. PICK st, arrs, freed : /\ st = Taken(e, v, d).st /\ arrs = Taken(e, v, d).arrs
                               /\ freed = Freed(arrs, st, stk)
      OBVIOUS
  <2>2. store' = st /\ arrays' = freed /\ memo' = {}
      BY <1>2, <2>1 DEF Calls
  <2>3. /\ d \in Nat
        /\ d = 0 => Walkers(stk) = {}
        /\ d > 0 => Unused # {}
      BY <1>2, WalkersFinite DEF Calls, DepthOK, StackOK
  <2>4. Keeps(e, Removed(Lists(store, arrays)[e], v), stk, st, arrs)
      BY <2>1, <2>3, TakenKeeps
  <2>5. Keeps(e, Removed(Lists(store, arrays)[e], v), stk, st, freed)
      BY <2>1, <2>4, KeepsFreed
  <2>6. MemoOK(memo', store')
      BY <2>2 DEF MemoOK
  <2> QED BY <1>1, <1>2, <2>2, <2>5, <2>6 DEF Keeps
<1>3. CASE ~IsOnce(v)
  <2>1. PICK st, arrs, freed : /\ st = store /\ arrs = arrays
                               /\ freed = Freed(arrs, st, stk)
      OBVIOUS
  <2>2. store' = store /\ arrays' = freed /\ memo' = mem
      BY <1>3, <2>1 DEF Calls
  <2>3. /\ StoreOK(st, freed) /\ StackOK(stk, freed)
        /\ Lists(st, freed) = Lists(st, arrs)
        /\ Begunnings(stk, freed) = Begunnings(stk, arrs)
      BY <2>1, FreedKeeps
  <2> QED BY <1>1, <1>3, <2>1, <2>2, <2>3
<1> QED BY <1>2, <1>3

-----------------------------------------------------------------------------
(* What each action does to the lists and to the emits under way.           *)
AllLists == Lists(store, arrays)
AllEmits == Begunnings(stack, arrays)

LEMMA AddsStep ==
    ASSUME IInv, NEW e \in Events, NEW v \in Functions, Adds(e, v)
    PROVE  IInv' /\ AllLists' = [AllLists EXCEPT ![e] = Append(@, v)] /\ AllEmits' = AllEmits
<1>1. PICK stk, st, arrs : /\ stk = stack
                           /\ st = Added(e, v).st /\ arrs = Added(e, v).arrs
    OBVIOUS
<1>2. store' = st /\ arrays' = arrs /\ stack' = stk
    BY <1>1 DEF Adds
<1>3. Keeps(e, Append(Lists(store, arrays)[e], v), stk, st, arrs)
  <2>1. StoreOK(store, arrays) /\ StackOK(stk, arrays)
      BY <1>1 DEF IInv
  <2>2. store[e] # Nothing /\ store[e].array = NoArray => Unused # {}
      BY DEF Adds
  <2> QED BY <1>1, <2>1, <2>2, AddedKeeps
<1>4. MemoOK(memo', store')
    BY DEF Adds, MemoOK
<1>5. DepthOK(depth', stack')
    BY DEF Adds, IInv, DepthOK
<1>6. limit' \in [Emitters -> Limits] /\ warned' \in SUBSET Events
    BY DEF Adds, IInv, Warned
<1> QED BY <1>1, <1>2, <1>3, <1>4, <1>5, <1>6 DEF Keeps, IInv, AllLists, AllEmits

LEMMA OnceAdds ==
    ASSUME NEW e, NEW l \in Listeners, Once(e, l)
    PROVE  \E v \in Functions : Adds(e, v)
<1>1. PICK w : w = CHOOSE x \in FreeWrappers : TRUE
    OBVIOUS
<1>2. w \in 0..MaxOnce
    BY <1>1, OnceAssumption DEF Once, FreeWrappers
<1>3. [wrapper |-> w, original |-> l] \in Functions
    BY <1>2 DEF Functions
<1> QED BY <1>1, <1>3 DEF Once

LEMMA OffStep ==
    ASSUME IInv, NEW e \in Events, NEW l \in Listeners, Off(e, l)
    PROVE  /\ IInv'
           /\ AllLists' = [AllLists EXCEPT ![e] = Removed(@, Plain(l))]
           /\ AllEmits' = AllEmits
<1>1. PICK stk, d, st, arrs, freed :
          /\ stk = stack /\ d = depth
          /\ st = Taken(e, Plain(l), d).st /\ arrs = Taken(e, Plain(l), d).arrs
          /\ freed = Freed(arrs, st, stk)
    OBVIOUS
<1>2. store' = st /\ arrays' = freed /\ stack' = stk
    BY <1>1 DEF Off
<1>3. StoreOK(store, arrays) /\ StackOK(stk, arrays)
    BY <1>1 DEF IInv
<1>4. d \in Nat /\ (d = 0 => Walkers(stk) = {}) /\ (d > 0 => Unused # {})
    BY <1>1, <1>3, WalkersFinite DEF IInv, Off, DepthOK, StackOK
<1>5. Keeps(e, Removed(Lists(store, arrays)[e], Plain(l)), stk, st, arrs)
    BY <1>1, <1>3, <1>4, TakenKeeps
<1>6. Keeps(e, Removed(Lists(store, arrays)[e], Plain(l)), stk, st, freed)
    BY <1>1, <1>5, KeepsFreed
<1>7. MemoOK(memo', store')
    BY DEF Off, MemoOK
<1>8. DepthOK(depth', stack') /\ limit' \in [Emitters -> Limits] /\ warned' \in SUBSET Events
    BY DEF Off, IInv, DepthOK
<1> QED BY <1>1, <1>2, <1>6, <1>7, <1>8 DEF Keeps, IInv, AllLists, AllEmits

LEMMA RemoveAllStep ==
    ASSUME IInv, NEW E, RemoveAll(E)
    PROVE  /\ IInv'
           /\ AllLists' = [e \in Events |-> IF e \in E THEN <<>> ELSE AllLists[e]]
           /\ AllEmits' = AllEmits
<1>1. PICK stk, st, arrs, freed :
          /\ stk = stack /\ arrs = arrays
          /\ st = [e \in Events |-> IF e \in E THEN Nothing ELSE store[e]]
          /\ freed = Freed(arrs, st, stk)
    OBVIOUS
<1>2. store' = st /\ arrays' = freed /\ stack' = stk
    BY <1>1 DEF RemoveAll
<1>3. StoreOK(st, arrs) /\ StackOK(stk, arrs)
    BY <1>1 DEF IInv, StoreOK, Nothing, Entries
<1>4. Lists(st, arrs) = [e \in Events |-> IF e \in E THEN <<>> ELSE AllLists[e]]
    BY <1>1 DEF AllLists, Lists, ListIn, Nothing
<1>5. /\ StoreOK(st, freed) /\ StackOK(stk, freed)
      /\ Lists(st, freed) = Lists(st, arrs)
      /\ Begunnings(stk, freed) = Begunnings(stk, arrs)
    BY <1>1, <1>3, FreedKeeps
<1>6. MemoOK(memo', store')
    BY DEF RemoveAll, MemoOK
<1>7. DepthOK(depth', stack') /\ limit' \in [Emitters -> Limits] /\ warned' \in SUBSET Events
    BY DEF RemoveAll, IInv, DepthOK
<1> QED BY <1>1, <1>2, <1>4, <1>5, <1>6, <1>7 DEF IInv, AllLists, AllEmits

(* The memo answers what the store would.                                   *)
LEMMA ResolvedIsStored ==
    ASSUME IInv, NEW e \in Events
    PROVE  Resolved(e) = store[e] /\ MemoOK(Remembered(e), store)
<1>1. Resolved(e) = store[e]
    BY DEF IInv, MemoOK, Resolved, Hits
<1> QED BY <1>1 DEF IInv, StoreOK, MemoOK, Remembered, Memos

LEMMA EmitToNobodyStep ==
    ASSUME IInv, NEW e \in Events, EmitToNobody(e)
    PROVE  IInv' /\ AllLists' = AllLists /\ AllEmits' = AllEmits
<1>1. MemoOK(memo', store')
    BY ResolvedIsStored DEF EmitToNobody
<1> QED BY <1>1 DEF EmitToNobody, IInv, StoreOK, StackOK, DepthOK, AllLists, AllEmits

LEMMA SetMaxListenersStep ==
    ASSUME IInv, NEW em \in Emitters, NEW n \in Limits, SetMaxListeners(em, n)
    PROVE  IInv' /\ AllLists' = AllLists /\ AllEmits' = AllEmits
BY DEF SetMaxListeners, IInv, StoreOK, StackOK, MemoOK, DepthOK, AllLists, AllEmits

(* A listener of event e that is called takes itself out if it is a wrapper. *)
CallOf(e, v) ==
    IF IsOnce(v) THEN [AllLists EXCEPT ![e] = Removed(AllLists[e], v)] ELSE AllLists

LEMMA EmitStep ==
    ASSUME IInv, NEW e \in Events, Emit(e)
    PROVE  /\ IInv'
           /\ AllLists[e] # <<>>
           /\ AllLists' = CallOf(e, AllLists[e][1])
           /\ AllEmits' = Append(AllEmits, [event |-> e, list |-> AllLists[e], called |-> 1])
<1>1. PICK entry, list, v : /\ entry = store[e]
                            /\ list = ListIn(entry, arrays)
                            /\ v = list[1]
    OBVIOUS
<1>2. PICK f, stk, d, mem :
          /\ f = [event |-> e, entry |-> entry, n |-> Len(list), i |-> 1]
          /\ stk = Append(stack, f)
          /\ d = IF Walks(entry) THEN depth + 1 ELSE depth
          /\ mem = Remembered(e)
    OBVIOUS
<1>3. /\ Resolved(e) = entry /\ MemoOK(mem, store)
      /\ ListOf(entry) = list /\ AllLists[e] = list
    BY <1>1, <1>2, ResolvedIsStored DEF ListOf, AllLists, Lists
<1>4. list # <<>> /\ Calls(e, v, stk, d, mem) /\ UNCHANGED <<limit, warned>>
    BY <1>1, <1>2, <1>3 DEF Emit
<1>5. /\ entry \in Entries /\ arrays \in [Arrays -> Seq(Functions)]
      /\ stack \in Seq(Emits)
    BY <1>1 DEF IInv, StoreOK, StackOK
<1>6. list \in Seq(Functions)
    BY <1>1, <1>5, EntryList
<1>7. v \in Functions /\ Len(list) \in Nat /\ Len(list) >= 1
    BY <1>1, <1>4, <1>6
<1>8. f \in Emits
    BY <1>2, <1>5, <1>7 DEF Emits
<1>9. StackOK(stk, arrays)
  <2>1. stk \in Seq(Emits) /\ Len(stk) = Len(stack) + 1 /\ stk[Len(stk)] = f
        /\ \A k \in 1..Len(stack) : stk[k] = stack[k]
      BY <1>2, <1>5, <1>8
  <2>2. f.n <= Len(ListIn(f.entry, arrays)) /\ f.i \in 1..f.n
      BY <1>1, <1>2, <1>7
  <2>3. \A k \in 1..Len(stack) : /\ stack[k].n <= Len(ListIn(stack[k].entry, arrays))
                                 /\ stack[k].i \in 1..stack[k].n
      BY <1>5 DEF IInv, StackOK
  <2>4. \A k \in 1..Len(stk) : stk[k] = f \/ (k \in 1..Len(stack) /\ stk[k] = stack[k])
      BY <1>5, <2>1
  <2>5. \A k \in 1..Len(stk) : /\ stk[k].n <= Len(ListIn(stk[k].entry, arrays))
                               /\ stk[k].i \in 1..stk[k].n
      BY <2>2, <2>3, <2>4
  <2> QED BY <2>1, <2>5 DEF StackOK
<1>10. DepthOK(d, stk)
    BY <1>2, <1>5, <1>8, WalkersAppend DEF IInv, DepthOK
<1>11. Begunnings(stk, arrays) =
           Append(AllEmits, [event |-> e, list |-> list, called |-> 1])
  <2>1. Begins(f, arrays) = [event |-> e, list |-> list, called |-> 1]
    <3>1. [j \in 1..Len(list) |-> list[j]] = list
        BY <1>6
    <3> QED BY <1>1, <1>2, <3>1 DEF Begins
  <2> QED BY <1>2, <1>5, <1>8, <2>1 DEF Begunnings, AllEmits
<1>12. /\ StoreOK(store', arrays') /\ StackOK(stack', arrays')
       /\ MemoOK(memo', store') /\ DepthOK(depth', stack')
       /\ Lists(store', arrays') =
              IF IsOnce(v)
              THEN [Lists(store, arrays) EXCEPT ![e] = Removed(Lists(store, arrays)[e], v)]
              ELSE Lists(store, arrays)
       /\ Begunnings(stack', arrays') = Begunnings(stk, arrays)
  <2>1. StoreOK(store, arrays)
      BY DEF IInv
  <2> QED BY <1>3, <1>4, <1>7, <1>9, <1>10, <2>1, CallsKeeps
<1>13. IInv'
    BY <1>4, <1>12 DEF IInv
<1>14. AllLists' = CallOf(e, v)
    BY <1>12 DEF AllLists, CallOf
<1> QED BY <1>1, <1>3, <1>4, <1>11, <1>12, <1>13, <1>14 DEF AllEmits

LEMMA ReplacedEmit ==
    ASSUME NEW s \in Seq(Emits), NEW k \in 1..Len(s), NEW f \in Emits
    PROVE  [s EXCEPT ![k] = f] \in Seq(Emits)
OBVIOUS

(* The emit that goes on is the innermost, and what it calls next is the    *)
(* next of the listeners it began with.                                     *)
Inner == AllEmits[Len(AllEmits)]

LEMMA InnerIsTop ==
    ASSUME IInv, stack # <<>>
    PROVE  /\ Len(stack) \in Nat /\ Len(stack) >= 1 /\ Top \in Emits
           /\ AllEmits # <<>> /\ Len(AllEmits) = Len(stack)
           /\ Inner = Begins(Top, arrays)
           /\ Len(Inner.list) = Top.n /\ Inner.called = Top.i
           /\ Top.i \in 1..Top.n /\ Top.n <= Len(ListOf(Top.entry))
<1>1. stack \in Seq(Emits) /\ Len(stack) \in Nat /\ Len(stack) >= 1
    BY DEF IInv, StackOK
<1>2. Top \in Emits /\ Top.i \in 1..Top.n /\ Top.n <= Len(ListOf(Top.entry)) /\ Top.n \in Nat
  <2>1. Len(stack) \in DOMAIN stack /\ Top = stack[Len(stack)]
      BY <1>1 DEF Top
  <2>2. Top \in Emits
      BY <1>1, <2>1
  <2>3. Top.n <= Len(ListIn(Top.entry, arrays)) /\ Top.i \in 1..Top.n
      BY <2>1 DEF IInv, StackOK
  <2> QED BY <2>2, <2>3 DEF ListOf, Emits
<1>3. /\ AllEmits = [k \in 1..Len(stack) |-> Begins(stack[k], arrays)]
      /\ Len(AllEmits) = Len(stack)
    BY <1>1 DEF AllEmits, Begunnings
<1>4. Inner = Begins(Top, arrays) /\ AllEmits # <<>>
    BY <1>1, <1>3 DEF Inner, Top
<1>5. Len(Inner.list) = Top.n /\ Inner.called = Top.i
    BY <1>2, <1>4 DEF Begins
<1> QED BY <1>1, <1>2, <1>3, <1>4, <1>5

LEMMA LeavesStep ==
    ASSUME IInv, stack # <<>>, Leaves
    PROVE  /\ IInv'
           /\ AllLists' = AllLists
           /\ AllEmits' = [k \in 1..(Len(AllEmits) - 1) |-> AllEmits[k]]
<1>1. PICK stk, out, st, arrs, freed :
          /\ stk = stack /\ out = Outer /\ st = store /\ arrs = arrays
          /\ freed = Freed(arrs, st, out)
    OBVIOUS
<1>2. store' = st /\ arrays' = freed /\ stack' = out /\ memo' = memo
      /\ depth' = Left /\ limit' = limit /\ warned' = warned
    BY <1>1 DEF Leaves
<1>3. stk \in Seq(Emits) /\ stk # <<>> /\ out = [k \in 1..(Len(stk) - 1) |-> stk[k]]
    BY <1>1 DEF IInv, StackOK, Outer
<1>4. /\ out \in Seq(Emits) /\ Len(out) = Len(stk) - 1
      /\ Cardinality(Walkers(out)) =
             IF Walks(stk[Len(stk)].entry) THEN Cardinality(Walkers(stk)) - 1
             ELSE Cardinality(Walkers(stk))
    BY <1>3, WalkersOuter
<1>5. StoreOK(st, arrs)
    BY <1>1 DEF IInv
<1>6. StackOK(out, arrs)
    BY <1>1, <1>3, <1>4 DEF IInv, StackOK
<1>7. /\ StoreOK(st, freed) /\ StackOK(out, freed)
      /\ Lists(st, freed) = Lists(st, arrs)
      /\ Begunnings(out, freed) = Begunnings(out, arrs)
    BY <1>1, <1>5, <1>6, FreedKeeps
<1>8. DepthOK(depth', stack')
    BY <1>1, <1>2, <1>4 DEF IInv, DepthOK, Left, Top
<1>9. MemoOK(memo', store') /\ limit' \in [Emitters -> Limits] /\ warned' \in SUBSET Events
    BY <1>1, <1>2 DEF IInv, MemoOK
<1>10. Begunnings(out, arrs) = [k \in 1..(Len(AllEmits) - 1) |-> AllEmits[k]]
    BY <1>1, <1>3, <1>4 DEF Begunnings, AllEmits
<1> QED BY <1>1, <1>2, <1>7, <1>8, <1>9, <1>10 DEF IInv, AllLists, AllEmits

LEMMA ReturnStep ==
    ASSUME IInv, Return
    PROVE  /\ IInv'
           /\ AllEmits # <<>> /\ Inner.called < Len(Inner.list)
           /\ AllLists' = CallOf(Inner.event, Inner.list[Inner.called + 1])
           /\ AllEmits' = [AllEmits EXCEPT ![Len(AllEmits)].called = @ + 1]
<1>1. stack # <<>> /\ Top.i < Top.n /\ Top.i < Len(ListOf(Top.entry))
    BY DEF Return, More
<1>2. PICK e, list, v : /\ e = Top.event
                        /\ list = ListOf(Top.entry)
                        /\ v = list[Top.i + 1]
    OBVIOUS
<1>3. PICK stk, d, mem : /\ stk = [stack EXCEPT ![Len(stack)].i = @ + 1]
                         /\ d = depth /\ mem = memo
    OBVIOUS
<1>4. Calls(e, v, stk, d, mem) /\ UNCHANGED <<limit, warned>>
    BY <1>2, <1>3 DEF Return
<1>5. /\ stack \in Seq(Emits) /\ arrays \in [Arrays -> Seq(Functions)]
      /\ StackOK(stack, arrays)
    BY DEF IInv, StoreOK, StackOK
<1>6. /\ Len(stack) \in Nat /\ Len(stack) >= 1 /\ Top \in Emits
      /\ AllEmits # <<>> /\ Len(AllEmits) = Len(stack)
      /\ Inner = Begins(Top, arrays)
      /\ Len(Inner.list) = Top.n /\ Inner.called = Top.i
      /\ Top.i \in 1..Top.n /\ Top.n <= Len(list)
    BY <1>1, <1>2, InnerIsTop
<1>7. e \in Events /\ v \in Functions /\ Inner.event = e /\ Inner.list[Inner.called + 1] = v
  <2>1. list \in Seq(Functions)
      BY <1>2, <1>5, <1>6, EntryList DEF Emits, ListOf
  <2>2. v \in Functions
      BY <1>1, <1>2, <1>6, <2>1
  <2>3. Inner.list[Top.i + 1] = v
    <3>1. Top.i + 1 \in 1..Top.n
        BY <1>1, <1>6 DEF Emits
    <3>2. Inner.list = [j \in 1..Top.n |-> list[j]]
        BY <1>2, <1>6 DEF Begins, ListOf
    <3> QED BY <1>2, <3>1, <3>2
  <2> QED BY <1>2, <1>6, <2>2, <2>3 DEF Begins, Emits
<1>8. /\ stk \in Seq(Emits) /\ DOMAIN stk = DOMAIN stack
      /\ \A k \in DOMAIN stack : /\ stk[k].entry = stack[k].entry /\ stk[k].n = stack[k].n
                               /\ stk[k].event = stack[k].event
                               /\ stk[k].i = IF k = Len(stack) THEN Top.i + 1 ELSE stack[k].i
  <2>1. PICK f : f = [Top EXCEPT !.i = @ + 1]
      OBVIOUS
  <2>2. /\ f \in Emits /\ f.entry = Top.entry /\ f.n = Top.n /\ f.event = Top.event
        /\ f.i = Top.i + 1
      BY <1>6, <2>1 DEF Emits
  <2>3. stk = [stack EXCEPT ![Len(stack)] = f]
      BY <1>3, <2>1 DEF Top
  <2>4. stk \in Seq(Emits) /\ DOMAIN stk = DOMAIN stack
    <3>1. PICK s, k : s = stack /\ k = Len(stack)
        OBVIOUS
    <3>2. s \in Seq(Emits) /\ k \in 1..Len(s)
        BY <1>5, <1>6, <3>1
    <3> QED BY <2>2, <2>3, <3>1, <3>2, ReplacedEmit
  <2>5. \A k \in DOMAIN stack : stk[k] = IF k = Len(stack) THEN f ELSE stack[k]
      BY <1>5, <2>3
  <2> QED BY <2>2, <2>4, <2>5 DEF Top
<1>9. StackOK(stk, arrays)
  <2>1. Top.i + 1 \in 1..Top.n /\ Top = stack[Len(stack)]
      BY <1>1, <1>6 DEF Top, Emits
  <2>2. \A k \in DOMAIN stack : /\ stack[k].n <= Len(ListIn(stack[k].entry, arrays))
                                /\ stack[k].i \in 1..stack[k].n
      BY <1>5 DEF StackOK
  <2>3. \A k \in DOMAIN stk : /\ stk[k].n <= Len(ListIn(stk[k].entry, arrays))
                              /\ stk[k].i \in 1..stk[k].n
      BY <1>8, <2>1, <2>2
  <2> QED BY <1>8, <2>3 DEF StackOK
<1>10. DepthOK(d, stk)
  <2>1. Walkers(stk) = Walkers(stack)
      BY <1>8 DEF Walkers
  <2> QED BY <1>3, <2>1 DEF IInv, DepthOK
<1>11. Begunnings(stk, arrays) = [AllEmits EXCEPT ![Len(AllEmits)].called = @ + 1]
  <2>1. \A k \in DOMAIN stack : Begins(stk[k], arrays) =
            IF k = Len(stack) THEN [AllEmits[k] EXCEPT !.called = @ + 1] ELSE AllEmits[k]
      BY <1>6, <1>8 DEF Begins, AllEmits, Begunnings, Top
  <2>2. DOMAIN AllEmits = DOMAIN stack /\ Len(AllEmits) = Len(stack)
      BY <1>6 DEF AllEmits, Begunnings
  <2> QED BY <1>8, <2>1, <2>2 DEF Begunnings, AllEmits
<1>12. /\ StoreOK(store', arrays') /\ StackOK(stack', arrays')
       /\ MemoOK(memo', store') /\ DepthOK(depth', stack')
       /\ Lists(store', arrays') =
              IF IsOnce(v)
              THEN [Lists(store, arrays) EXCEPT ![e] = Removed(Lists(store, arrays)[e], v)]
              ELSE Lists(store, arrays)
       /\ Begunnings(stack', arrays') = Begunnings(stk, arrays)
  <2>1. StoreOK(store, arrays) /\ MemoOK(mem, store)
      BY <1>3 DEF IInv
  <2> QED BY <1>4, <1>7, <1>9, <1>10, <2>1, CallsKeeps
<1>13. IInv'
    BY <1>4, <1>12 DEF IInv
<1>14. AllLists' = CallOf(e, v)
    BY <1>12 DEF AllLists, CallOf
<1> QED BY <1>1, <1>6, <1>7, <1>11, <1>12, <1>13, <1>14 DEF AllEmits

-----------------------------------------------------------------------------
LEMMA Starts == ASSUME Init PROVE IInv
<1>1. Nothing \in Entries /\ Nothing.array = NoArray
    BY DEF Nothing, Entries
<1>2. StoreOK(store, arrays)
    BY <1>1 DEF Init, StoreOK
<1>3. StackOK(stack, arrays) /\ MemoOK(memo, store)
    BY DEF Init, StackOK, MemoOK
<1>4. DepthOK(depth, stack)
  <2>1. Walkers(stack) = {}
      BY DEF Init, Walkers
  <2> QED BY <2>1, FS_EmptySet DEF Init, DepthOK
<1> QED BY <1>2, <1>3, <1>4 DEF Init, IInv

(* Every step keeps the invariant.                                          *)
LEMMA StepKeeps == ASSUME IInv, [Next]_vars PROVE IInv'
<1>1. CASE UNCHANGED vars
    BY <1>1 DEF vars, IInv, StoreOK, StackOK, MemoOK, DepthOK
<1>2. ASSUME NEW e \in Events, NEW l \in Listeners, On(e, l) PROVE IInv'
  <2>1. Plain(l) \in Functions
      BY OnceAssumption DEF Plain, Functions
  <2>2. PICK v : v = Plain(l)
      OBVIOUS
  <2> QED BY <1>2, <2>1, <2>2, AddsStep DEF On
<1>3. ASSUME NEW e \in Events, NEW l \in Listeners, Once(e, l) PROVE IInv'
    BY <1>3, OnceAdds, AddsStep
<1>4. ASSUME NEW e \in Events, NEW l \in Listeners, Off(e, l) PROVE IInv'
    BY <1>4, OffStep
<1>5. ASSUME NEW E, RemoveAll(E) PROVE IInv'
    BY <1>5, RemoveAllStep
<1>6. ASSUME NEW em \in Emitters, NEW n \in Limits, SetMaxListeners(em, n) PROVE IInv'
    BY <1>6, SetMaxListenersStep
<1>7. ASSUME NEW e \in Events, EmitToNobody(e) PROVE IInv'
    BY <1>7, EmitToNobodyStep
<1>8. ASSUME NEW e \in Events, Emit(e) PROVE IInv'
    BY <1>8, EmitStep
<1>9. ASSUME Return PROVE IInv'
    BY <1>9, ReturnStep
<1>10. ASSUME Finish \/ Throw PROVE IInv'
    BY <1>10, LeavesStep DEF Finish, Throw
<1> QED BY <1>1, <1>2, <1>3, <1>4, <1>5, <1>6, <1>7, <1>8, <1>9, <1>10 DEF Next

(* The invariant, the representation of the lists included, always holds.   *)
THEOREM Invariant == Spec => []IInv
<1>1. Init => IInv
    BY Starts
<1>2. IInv /\ [Next]_vars => IInv'
    BY StepKeeps
<1> QED BY <1>1, <1>2, PTL DEF Spec

(* The state stays in its types: entries, arrays, the memo, the stack of    *)
(* emits and its depth, the limits and the reports.                         *)
THEOREM TypeCorrect == Spec => []TypeOK
<1>1. IInv => TypeOK
    BY WalkersFinite DEF IInv, StoreOK, StackOK, MemoOK, DepthOK, TypeOK
<1> QED BY <1>1, Invariant, PTL

-----------------------------------------------------------------------------
(* The report of a leak: only on() and once() make a list longer, by one,   *)
(* and they compare the new length with the limit.                          *)
Grows(e) == Len(ListOf(store[e])') > Len(ListOf(store[e]))
Reports ==
    /\ warned \subseteq warned'
    /\ \A e \in Events :
           Grows(e) /\ e \notin warned =>
               (e \in warned' <=> limit[e[1]] \in 1..Len(ListOf(store[e])))

LEMMA ListsOf ==
    ASSUME IInv
    PROVE  /\ AllLists \in [Events -> Seq(Functions)]
           /\ \A e \in Events : AllLists[e] = ListOf(store[e]) /\ Len(AllLists[e]) \in Nat
<1>1. \A e \in Events : ListIn(store[e], arrays) \in Seq(Functions)
    BY EntryList DEF IInv, StoreOK
<1> QED BY <1>1 DEF AllLists, Lists, ListOf

LEMMA GrowsLists ==
    ASSUME IInv, IInv', NEW e \in Events
    PROVE  Grows(e) <=> Len(AllLists'[e]) > Len(AllLists[e])
BY DEF Grows, AllLists, Lists, ListOf

(* A removed listener makes no list longer.                                 *)
LEMMA RemovedShorter ==
    ASSUME NEW list \in Seq(Functions), NEW arg
    PROVE  ~(Len(Removed(list, arg)) > Len(list))
BY RemovedList

LEMMA NoReport ==
    ASSUME IInv, IInv', warned' = warned,
           \A e \in Events : ~(Len(AllLists'[e]) > Len(AllLists[e]))
    PROVE  Reports
BY GrowsLists DEF Reports

LEMMA CallReports ==
    ASSUME IInv, IInv', warned' = warned, NEW e, NEW v, AllLists' = CallOf(e, v)
    PROVE  Reports
<1>1. AllLists \in [Events -> Seq(Functions)]
    BY ListsOf
<1>2. \A f \in Events : AllLists'[f] = AllLists[f] \/ AllLists'[f] = Removed(AllLists[f], v)
    BY <1>1 DEF CallOf
<1>3. \A f \in Events : ~(Len(AllLists'[f]) > Len(AllLists[f]))
    BY <1>1, <1>2, RemovedShorter
<1> QED BY <1>3, NoReport

LEMMA AddReports ==
    ASSUME IInv, IInv', NEW e \in Events, NEW v \in Functions, Adds(e, v)
    PROVE  Reports
<1>1. AllLists \in [Events -> Seq(Functions)] /\ AllLists' = [AllLists EXCEPT ![e] = Append(@, v)]
    BY ListsOf, AddsStep
<1>2. /\ warned' = Warned(e, Len(AllLists[e]) + 1)
      /\ AllLists[e] = ListOf(store[e]) /\ Len(AllLists[e]) \in Nat
    BY ListsOf DEF Adds
<1>3. limit[e[1]] \in Nat
    BY EmitterAssumption DEF IInv, Events
<1>4. \A f \in Events : f # e => ~Grows(f)
  <2>1. \A f \in Events : f # e => AllLists'[f] = AllLists[f]
      BY <1>1
  <2> QED BY <2>1, GrowsLists
<1>5. warned \subseteq warned' /\ warned' \subseteq warned \cup {e}
    BY <1>2 DEF Warned
<1>6. e \notin warned => (e \in warned' <=> limit[e[1]] \in 1..Len(ListOf(store[e])))
  <2>1. PICK m, n : m = limit[e[1]] /\ n = Len(AllLists[e])
      OBVIOUS
  <2>2. (m > 0 /\ n + 1 > m) <=> m \in 1..n
      BY <1>2, <1>3, <2>1
  <2>3. e \notin warned => (e \in warned' <=> m > 0 /\ n + 1 > m)
      BY <1>2, <2>1 DEF Warned
  <2> QED BY <1>2, <2>1, <2>2, <2>3
<1> QED BY <1>4, <1>5, <1>6 DEF Reports

LEMMA StepReports == ASSUME IInv, IInv', [Next]_vars PROVE [Reports]_vars
<1>1. CASE UNCHANGED vars
    BY <1>1
<1>2. ASSUME NEW e \in Events, NEW l \in Listeners, On(e, l) PROVE Reports
  <2>1. Plain(l) \in Functions
      BY OnceAssumption DEF Plain, Functions
  <2>2. PICK v : v = Plain(l)
      OBVIOUS
  <2> QED BY <1>2, <2>1, <2>2, AddReports DEF On
<1>3. ASSUME NEW e \in Events, NEW l \in Listeners, Once(e, l) PROVE Reports
    BY <1>3, OnceAdds, AddReports
<1>4. ASSUME NEW e \in Events, NEW l \in Listeners, Off(e, l) PROVE Reports
  <2>1. AllLists' = [AllLists EXCEPT ![e] = Removed(@, Plain(l))] /\ warned' = warned
      BY <1>4, OffStep DEF Off
  <2>2. AllLists \in [Events -> Seq(Functions)]
      BY ListsOf
  <2>3. \A f \in Events :
            AllLists'[f] = AllLists[f] \/ AllLists'[f] = Removed(AllLists[f], Plain(l))
      BY <2>1, <2>2
  <2>4. \A f \in Events : ~(Len(AllLists'[f]) > Len(AllLists[f]))
      BY <2>2, <2>3, RemovedShorter
  <2> QED BY <2>1, <2>4, NoReport
<1>5. ASSUME NEW E, RemoveAll(E) PROVE Reports
  <2>1. AllLists' = [e \in Events |-> IF e \in E THEN <<>> ELSE AllLists[e]] /\ warned' = warned
      BY <1>5, RemoveAllStep DEF RemoveAll
  <2>2. \A f \in Events : Len(AllLists[f]) \in Nat
      BY ListsOf
  <2>3. \A f \in Events : ~(Len(AllLists'[f]) > Len(AllLists[f]))
      BY <2>1, <2>2
  <2> QED BY <2>1, <2>3, NoReport
<1>6. ASSUME AllLists' = AllLists, warned' = warned PROVE Reports
  <2>1. \A f \in Events : Len(AllLists[f]) \in Nat
      BY ListsOf
  <2>2. \A f \in Events : ~(Len(AllLists'[f]) > Len(AllLists[f]))
      BY <1>6, <2>1
  <2> QED BY <1>6, <2>2, NoReport
<1>7. ASSUME NEW em \in Emitters, NEW n \in Limits, SetMaxListeners(em, n) PROVE Reports
    BY <1>6, <1>7, SetMaxListenersStep DEF SetMaxListeners
<1>8. ASSUME NEW e \in Events, EmitToNobody(e) PROVE Reports
    BY <1>6, <1>8, EmitToNobodyStep DEF EmitToNobody
<1>9. ASSUME NEW e \in Events, Emit(e) PROVE Reports
  <2>1. PICK v : v = AllLists[e][1]
      OBVIOUS
  <2> QED BY <1>9, <2>1, EmitStep, CallReports DEF Emit
<1>10. ASSUME Return PROVE Reports
  <2>1. PICK e, v : e = Inner.event /\ v = Inner.list[Inner.called + 1]
      OBVIOUS
  <2> QED BY <1>10, <2>1, ReturnStep, CallReports DEF Return
<1>11. ASSUME Finish \/ Throw PROVE Reports
    BY <1>6, <1>11, LeavesStep DEF Finish, Throw, Leaves
<1> QED BY <1>1, <1>2, <1>3, <1>4, <1>5, <1>7, <1>8, <1>9, <1>10, <1>11 DEF Next

(* A list that grows past the limit is reported, one within it is not,      *)
(* whatever shape its entry has, and no report is taken back.               *)
THEOREM LeakReported == Spec => LeakIsReported
<1>1. IInv /\ IInv' /\ [Next]_vars => [Reports]_vars
    BY StepReports
<1>2. Spec => [][Reports]_vars
    BY <1>1, Invariant, PTL DEF Spec
<1> QED BY <1>2 DEF LeakIsReported, Reports, Grows

(* All three, for any listeners, limits and depth of emits: a throw out of  *)
(* nested emits takes from the depth what the emits it leaves had added.   *)
THEOREM CountsAreKept == Spec => CountsKept
<1>1. IInv => DepthIsCounted
    BY DEF IInv, DepthOK, DepthIsCounted, Walkers
<1> QED BY <1>1, Invariant, TypeCorrect, LeakReported, PTL DEF CountsKept

-----------------------------------------------------------------------------
(* The refinement.  The abstract emitter has the same lists and emits, and  *)
(* the same operators on them.                                              *)
LEMMA SameState ==
    /\ AllLists = [e \in Events |-> ListOf(store[e])]
    /\ AllEmits = [k \in DOMAIN stack |-> Begun(stack[k])]
    /\ AllLists' = [e \in Events |-> ListOf(store[e])]'
    /\ AllEmits' = [k \in DOMAIN stack |-> Begun(stack[k])]'
BY DEF AllLists, Lists, ListOf, AllEmits, Begunnings, Begins, Begun

LEMMA SameOperators ==
    /\ Abstract!Events = Events
    /\ Abstract!Functions = Functions
    /\ \A list, arg : Abstract!Removed(list, arg) = Removed(list, arg)
    /\ \A l : Abstract!Plain(l) = Plain(l)
    /\ \A v : Abstract!IsOnce(v) <=> IsOnce(v)
<1>1. \A list, arg : Abstract!Removed(list, arg) = Removed(list, arg)
    BY DEF Abstract!Removed, Removed, Abstract!FirstMatches, FirstMatches,
           Abstract!Without, Without, Abstract!Matches, Matches,
           Abstract!IsOnce, IsOnce, Abstract!Plain, Plain
<1> QED BY <1>1 DEF Abstract!Events, Events, Abstract!Functions, Functions,
                    Abstract!Plain, Plain, Abstract!IsOnce, IsOnce

LEMMA SameInit == ASSUME Init PROVE Abstract!EmitterInit
<1>1. \A e \in Events : ListOf(store[e]) = <<>>
    BY DEF Init, ListOf, ListIn, Nothing
<1>2. [k \in DOMAIN stack |-> Begun(stack[k])] = <<>>
    BY DEF Init
<1> QED BY <1>1, <1>2, SameOperators DEF Abstract!EmitterInit

(* Each action is the abstract action of the same kind, or a stutter.       *)
AbstractStep ==
    \/ \E e \in Events, v \in Functions :
          AllLists' = [AllLists EXCEPT ![e] = Append(@, v)] /\ AllEmits' = AllEmits
    \/ \E e \in Events, l \in Listeners :
          AllLists' = [AllLists EXCEPT ![e] = Removed(@, Plain(l))] /\ AllEmits' = AllEmits
    \/ \E E \in SUBSET Events :
          /\ AllLists' = [e \in Events |-> IF e \in E THEN <<>> ELSE AllLists[e]]
          /\ AllEmits' = AllEmits
    \/ \E e \in Events :
          /\ AllLists[e] # <<>>
          /\ AllLists' = CallOf(e, AllLists[e][1])
          /\ AllEmits' = Append(AllEmits, [event |-> e, list |-> AllLists[e], called |-> 1])
    \/ /\ AllEmits # <<>> /\ Inner.called < Len(Inner.list)
       /\ AllLists' = CallOf(Inner.event, Inner.list[Inner.called + 1])
       /\ AllEmits' = [AllEmits EXCEPT ![Len(AllEmits)].called = @ + 1]
    \/ /\ AllEmits # <<>>
       /\ AllLists' = AllLists
       /\ AllEmits' = [k \in 1..(Len(AllEmits) - 1) |-> AllEmits[k]]
    \/ AllLists' = AllLists /\ AllEmits' = AllEmits

LEMMA StepIsAbstract == ASSUME IInv, [Next]_vars PROVE AbstractStep
<1>1. CASE UNCHANGED vars
    BY <1>1 DEF vars, AllLists, AllEmits, AbstractStep
<1>2. ASSUME NEW e \in Events, NEW l \in Listeners, On(e, l) PROVE AbstractStep
  <2>1. Plain(l) \in Functions
      BY OnceAssumption DEF Plain, Functions
  <2>2. PICK v \in Functions : Adds(e, v)
      BY <1>2, <2>1 DEF On
  <2> QED BY <2>2, AddsStep DEF AbstractStep
<1>3. ASSUME NEW e \in Events, NEW l \in Listeners, Once(e, l) PROVE AbstractStep
  <2>1. PICK v \in Functions : Adds(e, v)
      BY <1>3, OnceAdds
  <2> QED BY <2>1, AddsStep DEF AbstractStep
<1>4. ASSUME NEW e \in Events, NEW l \in Listeners, Off(e, l) PROVE AbstractStep
    BY <1>4, OffStep DEF AbstractStep
<1>5. ASSUME NEW E \in SUBSET Events, RemoveAll(E) PROVE AbstractStep
    BY <1>5, RemoveAllStep DEF AbstractStep
<1>6. ASSUME NEW em \in Emitters, NEW n \in Limits, SetMaxListeners(em, n) PROVE AbstractStep
    BY <1>6, SetMaxListenersStep DEF AbstractStep
<1>7. ASSUME NEW e \in Events, EmitToNobody(e) PROVE AbstractStep
    BY <1>7, EmitToNobodyStep DEF AbstractStep
<1>8. ASSUME NEW e \in Events, Emit(e) PROVE AbstractStep
    BY <1>8, EmitStep DEF AbstractStep
<1>9. ASSUME Return PROVE AbstractStep
    BY <1>9, ReturnStep DEF AbstractStep
<1>10. ASSUME Finish \/ Throw PROVE AbstractStep
    BY <1>10, LeavesStep, InnerIsTop DEF Finish, Throw, AbstractStep
<1>11. ASSUME NEW e \in Events PROVE {e} \in SUBSET Events
    OBVIOUS
<1>12. ASSUME NEW em \in Emitters PROVE {em} \X Types \in SUBSET Events
    BY DEF Events
<1> QED BY <1>1, <1>2, <1>3, <1>4, <1>5, <1>6, <1>7, <1>8, <1>9, <1>10, <1>11, <1>12 DEF Next

LEMMA AbstractNext ==
    ASSUME AbstractStep PROVE [Abstract!EmitterNext]_(Abstract!emitterVars)
<1>1. ASSUME NEW e \in Events, NEW v \in Functions,
             AllLists' = [AllLists EXCEPT ![e] = Append(@, v)], AllEmits' = AllEmits
      PROVE  Abstract!Registers(e, v)
    BY <1>1, SameState DEF Abstract!Registers
<1>2. ASSUME NEW e \in Events, NEW l \in Listeners,
             AllLists' = [AllLists EXCEPT ![e] = Removed(@, Plain(l))], AllEmits' = AllEmits
      PROVE  Abstract!Unregisters(e, l)
    BY <1>2, SameState, SameOperators DEF Abstract!Unregisters
<1>3. ASSUME NEW E \in SUBSET Events, AllEmits' = AllEmits,
             AllLists' = [e \in Events |-> IF e \in E THEN <<>> ELSE AllLists[e]]
      PROVE  Abstract!Clears(E)
    BY <1>3, SameState, SameOperators DEF Abstract!Clears
<1>4. ASSUME NEW e, NEW v, AllLists' = CallOf(e, v)
      PROVE  Abstract!Called(e, v)
    BY <1>4, SameState, SameOperators DEF Abstract!Called, CallOf
<1>5. ASSUME NEW e \in Events, AllLists[e] # <<>>, AllLists' = CallOf(e, AllLists[e][1]),
             AllEmits' = Append(AllEmits, [event |-> e, list |-> AllLists[e], called |-> 1])
      PROVE  Abstract!Begins(e)
  <2>1. PICK v : v = AllLists[e][1]
      OBVIOUS
  <2>2. Abstract!Called(e, v)
      BY <1>4, <1>5, <2>1
  <2> QED BY <1>5, <2>1, <2>2, SameState DEF Abstract!Begins
<1>6. ASSUME AllEmits # <<>>, Inner.called < Len(Inner.list),
             AllLists' = CallOf(Inner.event, Inner.list[Inner.called + 1]),
             AllEmits' = [AllEmits EXCEPT ![Len(AllEmits)].called = @ + 1]
      PROVE  Abstract!Continues
  <2>1. PICK e, v : e = Inner.event /\ v = Inner.list[Inner.called + 1]
      OBVIOUS
  <2>2. Abstract!Called(e, v)
      BY <1>4, <1>6, <2>1
  <2>3. Abstract!Innermost = Inner
      BY SameState DEF Abstract!Innermost, Inner
  <2> QED BY <1>6, <2>1, <2>2, <2>3, SameState DEF Abstract!Continues
<1>7. ASSUME AllEmits # <<>>, AllLists' = AllLists,
             AllEmits' = [k \in 1..(Len(AllEmits) - 1) |-> AllEmits[k]]
      PROVE  Abstract!Throws
    BY <1>7, SameState DEF Abstract!Throws, Abstract!Outer
<1>8. ASSUME AllLists' = AllLists, AllEmits' = AllEmits
      PROVE  UNCHANGED Abstract!emitterVars
    BY <1>8, SameState DEF Abstract!emitterVars
<1> QED BY <1>1, <1>2, <1>3, <1>5, <1>6, <1>7, <1>8, SameOperators
        DEF AbstractStep, Abstract!EmitterNext

(* The compact store keeps the promise of an EventEmitter: whatever         *)
(* listeners do, an emit calls those it began with, each once and in order. *)
THEOREM Implements == Spec => ImplementsEmitter
<1>1. Init => Abstract!EmitterInit
    BY SameInit
<1>2. IInv /\ [Next]_vars => [Abstract!EmitterNext]_(Abstract!emitterVars)
    BY StepIsAbstract, AbstractNext
<1> QED BY <1>1, <1>2, Invariant, PTL DEF Spec, ImplementsEmitter, Abstract!EmitterSpec
=============================================================================
