--------------------------- MODULE MCBlockScanner ---------------------------
(* Model-checking instance of the block scanner.                           *)
EXTENDS BlockScanner
=============================================================================
