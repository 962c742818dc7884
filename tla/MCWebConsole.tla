---------------------------- MODULE MCWebConsole ----------------------------
(* Model-checking instance: one part of the console at a time, each from its *)
(* initial state.  The parts share no state in the code either: the values  *)
(* they hand to each other are the constants of the part that takes them.   *)
EXTENDS ProbePanels, LineStream, TraceStats, PingTable, TaskCreator,
        ProviderQueries, AddressClassify

CONSTANT Parts   \* the parts this instance starts

VARIABLE part

----------------------------------------------------------------------------
(* Values.                                                                 *)

\* Lines of a traceroute: replies and timeouts of two hops in any order, the
\* second answered by a router (whose place one reply does not give) or by the
\* destination, an error, a foreign line.
Reply(peer, last, place) ==
  [peer |-> peer, rdns |-> "", last |-> last, pmtu |-> 0, place |-> place]

TraceLine(seq, ttl, received, reply) ==
  [err |-> FALSE, target |-> TRUE,
   data |-> {[seq |-> seq, ttl |-> ttl, received |-> received,
              rtt |-> IF received THEN 5 * ttl - seq ELSE 0, reply |-> reply]}]

MCRawEvents ==
  {TraceLine(seq, ttl, FALSE, Reply("", FALSE, "")) : seq \in 1..3, ttl \in 1..2}
    \cup {TraceLine(seq, ttl, TRUE, Reply("a", FALSE, IF seq = 2 THEN "" ELSE "x")) :
            seq \in 1..3, ttl \in 1..2}
    \cup {TraceLine(seq, ttl, TRUE, Reply("b", TRUE, IF seq = 1 THEN "y" ELSE "z")) :
            seq \in 1..3, ttl \in 1..2}
    \cup {[err |-> TRUE, target |-> FALSE, data |-> {}],
          [err |-> FALSE, target |-> FALSE, data |-> {}]}

\* Lines of a ping: two sources, a reply or a timeout, one with and one without
\* a place, TCP and ICMP, and an event without a sequence number.
PingLine(tcp, from, replied, rtt, peer, seq) ==
  [tcp |-> tcp, details |-> TRUE, replied |-> replied, from |-> from, target |-> "t1",
   ttl |-> 64, seq |-> seq, rtt |-> rtt, peer |-> peer,
   place |-> IF replied THEN "x" ELSE ""]

MCPingLines ==
  {PingLine(FALSE, from, TRUE, rtt, "p", 1) : from \in {"s1", "s2"}, rtt \in 1..2}
    \cup {PingLine(FALSE, from, FALSE, 0, "p", 1) : from \in {"s1", "s2"}}
    \cup {PingLine(TRUE, "s1", TRUE, 3, "q", 1), PingLine(TRUE, "s1", FALSE, 0, "", 1),
          PingLine(FALSE, "s1", FALSE, 0, "", 0),
          [PingLine(FALSE, "s2", TRUE, 1, "q", 1) EXCEPT !.place = ""]}

MCPingSources == <<"s1", "s2">>

MCPingTargets == <<"t1">>

MCPingConns ==
  <<[name |-> "s1", place |-> "g1"], [name |-> "s2", place |-> "g1"],
    [name |-> "", place |-> "g2"], [name |-> "other", place |-> "g2"]>>

\* What is typed: a word, a word twice with a blank between.
Word(text, spaced) == [text |-> text, spaced |-> spaced]

MCListInputs ==
  {<<Word("h1", FALSE)>>, <<Word("h1", FALSE), Word("h1", TRUE)>>}

MCRouteInputs == {<<Word("", TRUE)>>, <<Word("q", FALSE)>>}

MCAbilities == [a \in Agents |-> {"tcp", "dns"}]

MCQueryProviders == <<"A", "B">>

\* Short addresses of two bytes (one byte for the other family), and prefixes
\* of every length.
MCRouteChoices ==
  {[family |-> "ipv6", addr |-> <<0, 0>>, len |-> len] : len \in 0..4}
    \cup {[family |-> "ipv6", addr |-> <<1, 0>>, len |-> 2],
          [family |-> "ipv6", addr |-> <<1, 2>>, len |-> 3],
          [family |-> "ipv6", addr |-> <<1, 2>>, len |-> 4],
          [family |-> "ipv4", addr |-> <<2>>, len |-> 1]}

MCTypedAddresses ==
  {[family |-> "ipv6", addr |-> <<a, b>>] : a, b \in 0..3}

MCZoneChoices ==
  {[labels |-> <<"c">>, dot |-> FALSE], [labels |-> <<"b", "c">>, dot |-> TRUE],
   [labels |-> <<>>, dot |-> TRUE]}

MCTypedDomains == {<<"a", "b", "c">>, <<"c">>, <<"a">>, <<"b", "c">>}

\* networkdescriptor.json as shipped, its IPv4 part.
ShippedRoutes ==
  {[family |-> "ipv4", addr |-> <<192, 168, 0, 0>>, len |-> 16],
   [family |-> "ipv4", addr |-> <<172, 16, 0, 0>>, len |-> 12],
   [family |-> "ipv4", addr |-> <<172, 20, 0, 0>>, len |-> 14],
   [family |-> "ipv4", addr |-> <<10, 127, 0, 0>>, len |-> 16]}

PlainAddresses ==
  {[family |-> "ipv4", addr |-> <<a, b, 0, 1>>] : a \in {10, 172, 192}, b \in 120..180}

----------------------------------------------------------------------------

ConsoleInit ==
  /\ part \in Parts
  /\ ProbeInit /\ kind \in IF part = "panel" THEN {"ping", "trace", "dns", "http"} ELSE {"none"}
  /\ LineInit /\ TraceInit /\ PingTableInit /\ TaskInit /\ ClassifyInit
  /\ IF part = "query" THEN QueryInit
     ELSE QueryInit /\ asks = "route" /\ ~hasQuery /\ cursors = "line"

ConsoleNext ==
  /\ UNCHANGED part
  /\ \/ /\ part = "panel" /\ Next
        /\ UNCHANGED <<lineVars, traceVars, pingTableVars, taskVars, queryVars, classifyVars>>
     \/ /\ part = "line" /\ LineNext
        /\ UNCHANGED <<probeVars, traceVars, pingTableVars, taskVars, queryVars, classifyVars>>
     \/ /\ part = "trace" /\ TraceNext
        /\ UNCHANGED <<probeVars, lineVars, pingTableVars, taskVars, queryVars, classifyVars>>
     \/ /\ part = "table" /\ PingTableNext
        /\ UNCHANGED <<probeVars, lineVars, traceVars, taskVars, queryVars, classifyVars>>
     \/ /\ part = "task" /\ TaskNext
        /\ UNCHANGED <<probeVars, lineVars, traceVars, pingTableVars, queryVars, classifyVars>>
     \/ /\ part = "query" /\ QueryNext
        /\ UNCHANGED <<probeVars, lineVars, traceVars, pingTableVars, taskVars, classifyVars>>
     \/ /\ part = "classify" /\ ClassifyNext
        /\ UNCHANGED <<probeVars, lineVars, traceVars, pingTableVars, taskVars, queryVars>>

consoleVars ==
  <<part, probeVars, lineVars, traceVars, pingTableVars, taskVars, queryVars, classifyVars>>

ConsoleSpec == ConsoleInit /\ [][ConsoleNext]_consoleVars /\ Fairness
=============================================================================
