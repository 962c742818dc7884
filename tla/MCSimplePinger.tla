--------------------------- MODULE MCSimplePinger ---------------------------
(* Model-checking instance of the pinger of one target, for the two runs   *)
(* that show what it does not do.                                          *)
EXTENDS SimplePinger
=============================================================================
