---------------------------- MODULE MCTCPPinger ----------------------------
(* Model-checking instance of the TCP pinger of one destination.           *)
EXTENDS TCPPinger

CONSTANTS p1, p2
=============================================================================
