----------------------------- MODULE BodyStream -----------------------------
(***************************************************************************)
(* What a fetch body promises its reader: the chunks of the response come  *)
(* out once each, in the order they arrived, whoever waits for whom; a     *)
(* transfer that ends leaves what it brought readable; one that is         *)
(* discarded (cancelled, aborted or dropped) delivers nothing more.        *)
(***************************************************************************)
EXTENDS Naturals, Sequences

CONSTANT NumChunks      \* bound: chunks the peer sends

VARIABLES
    arrived,    \* chunks the transfer has brought so far
    delivered,  \* the chunks the reader has been given, in order
    transfer    \* "running", "ended" or "discarded"

streamVars == <<arrived, delivered, transfer>>

StreamTypeOK ==
    /\ arrived \in 0..NumChunks
    /\ delivered \in Seq(1..NumChunks)
    /\ transfer \in {"running", "ended", "discarded"}

StreamInit ==
    /\ arrived = 0
    /\ delivered = <<>>
    /\ transfer = "running"

(* The next chunk arrives, and goes straight to a reader already waiting.  *)
Arrive ==
    /\ transfer = "running"
    /\ arrived < NumChunks
    /\ arrived' = arrived + 1
    /\ \/ delivered' = delivered
       \/ /\ Len(delivered) = arrived
          /\ delivered' = Append(delivered, arrived')
    /\ UNCHANGED transfer

(* A reader takes the oldest chunk nobody has had.                         *)
Take ==
    /\ transfer # "discarded"
    /\ Len(delivered) < arrived
    /\ delivered' = Append(delivered, Len(delivered) + 1)
    /\ UNCHANGED <<arrived, transfer>>

End ==
    /\ transfer = "running"
    /\ transfer' = "ended"
    /\ UNCHANGED <<arrived, delivered>>

Discard ==
    /\ transfer # "discarded"
    /\ transfer' = "discarded"
    /\ UNCHANGED <<arrived, delivered>>

StreamNext == Arrive \/ Take \/ End \/ Discard

StreamSpec == StreamInit /\ [][StreamNext]_streamVars
=============================================================================
