------------------------- MODULE MCHubRegistration -------------------------
(* Model-checking instance: one agent, over either transport, and room for *)
(* an old connection beside the one it uses.                               *)
EXTENDS HubRegistration

CONSTANTS a1, k1, k2, ping, yes

AnnounceAll == [a \in {a1} |-> [x \in {ping} |-> yes]]
=============================================================================
