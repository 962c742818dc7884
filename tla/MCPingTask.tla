----------------------------- MODULE MCPingTask -----------------------------
(* Model-checking instance of one ping request: a stream of two events, or *)
(* two streams of one event each.                                          *)
EXTENDS PingTask

CONSTANTS n1, n2, t1, t2

Asks(mode, from, targets, count) ==
  [mode |-> mode, from |-> from, targets |-> targets, count |-> count]

TheForms == {Asks("ping", <<n1, n1>>, {t1}, 2), Asks("ping", <<n1>>, {t1, t2}, 1),
             Asks("ping", <<n1, n2>>, {t1}, 1), Asks("http", <<n1>>, {t1, t2}, 2)}
=============================================================================
