---------------------------- MODULE ListenerList ----------------------------
(***************************************************************************)
(* The functions an EventEmitter's lists hold, and what off() makes of a   *)
(* list (src/node.c).  A function registered by on() is the listener       *)
(* itself; one registered by once() is a wrapper that has the listener as  *)
(* its _original.                                                          *)
(***************************************************************************)
EXTENDS Naturals, Sequences

CONSTANTS
    Listeners,  \* the functions scripts register
    MaxOnce     \* bound: wrappers of once() that exist at a time

ASSUME OnceAssumption == MaxOnce \in Nat

Functions == [wrapper : 0..MaxOnce, original : Listeners]

Plain(l) == [wrapper |-> 0, original |-> l]
IsOnce(v) == v.wrapper # 0

(* off() takes a function for its argument if it is the argument or has it *)
(* as its _original.                                                       *)
Matches(v, arg) == v = arg \/ (IsOnce(v) /\ Plain(v.original) = arg)

FirstMatches(list, arg) ==
    {i \in DOMAIN list : /\ Matches(list[i], arg)
                         /\ \A j \in 1..(i - 1) : ~Matches(list[j], arg)}

Without(list, i) ==
    [j \in 1..(Len(list) - 1) |-> IF j < i THEN list[j] ELSE list[j + 1]]

(* The list once off() has taken the first match out of it.                *)
Removed(list, arg) ==
    IF FirstMatches(list, arg) = {} THEN list
    ELSE Without(list, CHOOSE i \in FirstMatches(list, arg) : TRUE)
=============================================================================
