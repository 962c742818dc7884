--------------------------- MODULE MCICMPTracker ---------------------------
(* Model-checking instance of the tracker with the most general caller.    *)
EXTENDS ICMPTracker
=============================================================================
