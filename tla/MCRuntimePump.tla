--------------------------- MODULE MCRuntimePump ---------------------------
(* Two promises, three jobs and two handles.                                *)
EXTENDS RuntimePump, TLC

CONSTANTS p1, p2
=============================================================================
