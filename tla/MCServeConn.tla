---------------------------- MODULE MCServeConn ----------------------------
(* A client with three requests, of which two fit the limit together, and   *)
(* one whose only request takes two reads or one.                           *)
EXTENDS ServeConn, TLC

CONSTANTS c1, c2

Clients == (c1 :> <<1, 2, 4>>) @@ (c2 :> <<2>>)
=============================================================================
