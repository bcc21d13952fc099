---------------------------- MODULE MCFetchBody ----------------------------
(* Two chunks, three reads, a redirect before the response.                   *)
EXTENDS FetchBody, TLC

CONSTANTS r1, r2, r3
=============================================================================
