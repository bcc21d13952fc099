--------------------------- MODULE MCBuiltinLoop ---------------------------
(* Three timers with delays of one and two time units.                        *)
EXTENDS BuiltinLoop, TLC
=============================================================================
