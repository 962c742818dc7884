----------------------------- MODULE TraceStats -----------------------------
(***************************************************************************)
(* apis/trace.ts: a line of a traceroute becomes a TraceEvent, events are  *)
(* folded one by one, in the order they arrive, into statistics per hop    *)
(* and peer, and these become a table and, in components/                  *)
(* traceroutedisplay.tsx, the markers and paths of a map.  Attributes that *)
(* follow one rule (RDNS, ASN, ISP, City, Country: the last that is not    *)
(* empty) are one attribute here, PeerRDNS.                                *)
(***************************************************************************)
EXTENDS Integers, Sequences, FiniteSets, SequencesExt, FiniteSetsExt, Filters

CONSTANTS RawEvents,       \* lines the hub may send: see FromRaw
          MaxTraceEvents   \* bound: lines of one run

VARIABLES stats,     \* the TraceStats of the source that is shown
          arrived    \* history: the events written into it, in order

traceVars == <<stats, arrived>>

Star == "*"

NoPeer == ""

NoPMTU == 0

NoPlace == ""

ErrorEvent ==
  [Seq |-> 0, RTTMs |-> 0, Peer |-> NoPeer, PeerRDNS |-> "", Timeout |-> FALSE,
   OriginTTL |-> 0, LastHop |-> FALSE, PMTU |-> NoPMTU, ExactLocation |-> NoPlace]

\* A line: whether it carries err or error, a target in its metadata, and data;
\* the data has the sequence number, the ttl of the request, whether it was
\* received, its round-trip time and the last raw reply, if any.
\* FromRaw gives the empty set for a line that is ignored.
FromRaw(raw) ==
  IF raw.err \/ (raw.target /\ raw.data = {})
    THEN {ErrorEvent}
    ELSE {[Seq |-> d.seq, RTTMs |-> d.rtt, Timeout |-> ~d.received, OriginTTL |-> d.ttl,
           Peer |-> d.reply.peer, PeerRDNS |-> d.reply.rdns,
           LastHop |-> d.reply.last, PMTU |-> d.reply.pmtu,
           ExactLocation |-> d.reply.place]
            : d \in IF raw.target THEN raw.data ELSE {}}

TraceEvents == UNION {FromRaw(raw) : raw \in RawEvents}

\* Sequence numbers and hop limits are integers, a round-trip time is the time
\* since a packet was sent; a packet that was not received has no peer, and a
\* peer is an address, its name a host name.
ASSUME EventsAreTracked ==
  \A ev \in TraceEvents :
    /\ ev.Seq \in Int /\ ev.OriginTTL \in Int /\ ev.RTTMs \in Nat
    /\ ev.Timeout \in BOOLEAN /\ ev.LastHop \in BOOLEAN
    /\ ev.Peer \notin {Star, "[TIMEOUT]"} /\ ev.PeerRDNS # "[TIMEOUT]"
    /\ ev.Timeout => ev.Peer = NoPeer

----------------------------------------------------------------------------
(* PeerStats, HopGroup and TraceStats, and their WriteEvent.               *)

NewPeer ==
  [Peer |-> NoPeer, PeerRDNS |-> "", Events |-> <<>>, ReceivedCount |-> 0,
   LossCount |-> 0, MinRTT |-> -1, MaxRTT |-> -1, TotalRTT |-> 0, PMTU |-> NoPMTU]

\* A stable sort by Seq of a sorted list with one more event at its end.
InsertBySeq(events, ev) ==
  InsertAt(events, Cardinality({i \in DOMAIN events : events[i].Seq <= ev.Seq}) + 1, ev)

Or(value, default, empty) == IF value # empty THEN value ELSE default

\* PeerStats.WriteEvent
PeerWriteEvent(p, ev) ==
  IF ev.Timeout
    THEN [p EXCEPT !.Peer = Or(@, ev.Peer, NoPeer),
                   !.Events = InsertBySeq(@, ev), !.LossCount = @ + 1]
    ELSE [p EXCEPT !.Peer = Or(@, ev.Peer, NoPeer),
                   !.PeerRDNS = Or(ev.PeerRDNS, @, ""),
                   !.Events = InsertBySeq(@, ev), !.ReceivedCount = @ + 1,
                   !.MinRTT = IF @ = -1 \/ ev.RTTMs < @ THEN ev.RTTMs ELSE @,
                   !.MaxRTT = IF @ = -1 \/ ev.RTTMs > @ THEN ev.RTTMs ELSE @,
                   !.TotalRTT = @ + ev.RTTMs, !.PMTU = Or(ev.PMTU, @, NoPMTU)]

PeerKey(ev) == IF ev.Timeout \/ ev.Peer = NoPeer THEN Star ELSE ev.Peer

MaxSeq(p) == p.Events[Len(p.Events)].Seq

\* The keys of the map in insertion order, sorted by the largest Seq, largest first.
SortedPeers(peers, keys) == SortedBy(keys, [i \in DOMAIN keys |-> -MaxSeq(peers[keys[i]])])

NewHop == [Keys |-> <<>>, Peers |-> <<>>, PeerOrder |-> <<>>]

\* HopGroup.WriteEvent
HopWriteEvent(hop, ev) ==
  LET k     == PeerKey(ev)
      known == k \in DOMAIN hop.Peers
      keys  == IF known THEN hop.Keys ELSE Append(hop.Keys, k)
      peers == [p \in DOMAIN hop.Peers \cup {k} |->
                  IF p = k THEN PeerWriteEvent(IF known THEN hop.Peers[k] ELSE NewPeer, ev)
                           ELSE hop.Peers[p]]
  IN [Keys |-> keys, Peers |-> peers, PeerOrder |-> SortedPeers(peers, keys)]

\* Events without the ttl of their request, error events among them, count for
\* the first hop.
HopTTL(ev) == IF ev.OriginTTL <= 0 THEN 1 ELSE ev.OriginTTL

\* A sort of a sorted list with one more hop at its end.
InsertHop(order, t) == InsertAt(order, Cardinality({i \in DOMAIN order : order[i] <= t}) + 1, t)

NewStats == [Hops |-> <<>>, HopOrder |-> <<>>]

\* Mutant: the hops behind the last one leave the map but not the order.
StatsWriteEvent_KeepsOrder(st, ev) ==
  LET t     == HopTTL(ev)
      known == t \in DOMAIN st.Hops
      hops  == [h \in DOMAIN st.Hops \cup {t} |->
                  IF h = t THEN HopWriteEvent(IF known THEN st.Hops[t] ELSE NewHop, ev)
                           ELSE st.Hops[h]]
      order == IF known THEN st.HopOrder ELSE InsertHop(st.HopOrder, t)
  IN IF ev.LastHop
       THEN [Hops |-> [h \in {x \in DOMAIN hops : x <= t} |-> hops[h]], HopOrder |-> order]
       ELSE [Hops |-> hops, HopOrder |-> order]

\* TraceStats.WriteEvent: an event from the last hop removes the hops behind it.
StatsWriteEvent(st, ev) ==
  LET t     == HopTTL(ev)
      known == t \in DOMAIN st.Hops
      hops  == [h \in DOMAIN st.Hops \cup {t} |->
                  IF h = t THEN HopWriteEvent(IF known THEN st.Hops[t] ELSE NewHop, ev)
                           ELSE st.Hops[h]]
      order == IF known THEN st.HopOrder ELSE InsertHop(st.HopOrder, t)
      Kept(h) == ev.LastHop => h <= t
  IN [Hops |-> [h \in {x \in DOMAIN hops : Kept(x)} |-> hops[h]],
      HopOrder |-> Only(order, {h \in ToSet(order) : Kept(h)})]

----------------------------------------------------------------------------
(* ToTable: one line per peer (its two rows), hops in order.  A spacer     *)
(* separates the hops; number is given for the first peer of a hop only.   *)

AvgRTT(p) == IF p.ReceivedCount = 0 THEN 0 ELSE p.TotalRTT \div p.ReceivedCount

IsTimeout(p) == p.ReceivedCount = 0 /\ p.LossCount > 0

\* The RTT of the last event that is not a timeout.
LastRTT(p) ==
  LET answered == {i \in DOMAIN p.Events : ~p.Events[i].Timeout}
  IN IF answered = {} THEN 0 ELSE p.Events[Max(answered)].RTTMs

PeerName(p) ==
  IF IsTimeout(p) THEN "[TIMEOUT]" ELSE Or(Or(p.PeerRDNS, p.Peer, ""), Star, NoPeer)

\* (lossCount / total * 100).toFixed(0), in whole percent.
LossPercent(p) == ((p.LossCount * 200) \div (p.ReceivedCount + p.LossCount) + 1) \div 2

TableLine(number, p) ==
  [number |-> number,
   name |-> PeerName(p),
   rtts |-> IF IsTimeout(p) THEN <<>> ELSE <<LastRTT(p), p.MinRTT, AvgRTT(p), p.MaxRTT>>,
   counts |-> IF IsTimeout(p) THEN <<>>
                ELSE <<p.ReceivedCount, p.ReceivedCount + p.LossCount, LossPercent(p)>>,
   ip |-> IF p.Peer # NoPeer /\ p.ReceivedCount > 0 THEN p.Peer ELSE Star,
   pmtu |-> p.PMTU]

HopLines(st, t) ==
  [i \in DOMAIN st.Hops[t].PeerOrder |->
     TableLine(IF i = 1 THEN t ELSE 0, st.Hops[t].Peers[st.Hops[t].PeerOrder[i]])]

ToTable(st) ==
  FlattenSeq([i \in DOMAIN st.HopOrder |->
                IF st.HopOrder[i] \in DOMAIN st.Hops THEN HopLines(st, st.HopOrder[i]) ELSE <<>>])

----------------------------------------------------------------------------
(* The map: a marker per peer that has answered from a known place.        *)

\* The places of a peer's answers, lowest Seq first; the map takes the first.
PlacesOf(p) ==
  Only(p.Events, {e \in TraceEvents : e.ExactLocation # NoPlace /\ ~e.Timeout})

HopMarkers(st, t) ==
  LET peers  == [i \in DOMAIN st.Hops[t].PeerOrder |-> st.Hops[t].Peers[st.Hops[t].PeerOrder[i]]]
      placed == Only(peers, {p \in ToSet(peers) : p.ReceivedCount # 0 /\ PlacesOf(p) # <<>>})
  IN [i \in DOMAIN placed |->
        [ttl |-> t, peer |-> placed[i].Peer, rtt |-> AvgRTT(placed[i]),
         place |-> PlacesOf(placed[i])[1].ExactLocation]]

\* getMarkersAndPaths: the markers, hops in order.
MapMarkers(st) ==
  FlattenSeq([i \in DOMAIN st.HopOrder |->
                IF st.HopOrder[i] \in DOMAIN st.Hops THEN HopMarkers(st, st.HopOrder[i]) ELSE <<>>])

\* The path starts at the source, if its place is known (source is a sequence of
\* one place, or empty), and joins each marker to the next.
MapPaths(source, markers) ==
  LET stops == source \o [i \in DOMAIN markers |-> markers[i].place]
  IN IF markers = <<>> THEN <<>>
     ELSE [i \in 1..(Len(stops) - 1) |-> <<stops[i], stops[i + 1]>>]

----------------------------------------------------------------------------

TraceInit == stats = NewStats /\ arrived = <<>>

\* A line arrives; setTraceStatsMap writes its event, if it has one.
TraceNext ==
  /\ Len(arrived) < MaxTraceEvents
  /\ \E raw \in RawEvents : \E ev \in FromRaw(raw) :
       /\ stats' = StatsWriteEvent(stats, ev)
       /\ arrived' = Append(arrived, ev)

TraceSpec == TraceInit /\ [][TraceNext]_traceVars

----------------------------------------------------------------------------
(* Properties                                                              *)

\* Positions of the events that count for hop t: those since the last event of
\* a last hop before t.
Counted(t) ==
  {i \in DOMAIN arrived :
     /\ HopTTL(arrived[i]) = t
     /\ \A j \in (i + 1)..Len(arrived) : arrived[j].LastHop => t <= HopTTL(arrived[j])}

CountedFor(t, k) == {i \in Counted(t) : PeerKey(arrived[i]) = k}

\* The answered event with the highest Seq, the latest arrived among equals.
NewestOf(S) ==
  CHOOSE i \in S : \A j \in S : \/ arrived[j].Seq < arrived[i].Seq
                                \/ arrived[j].Seq = arrived[i].Seq /\ j <= i

\* The sum of the RTTs of some events.
TotalOf(S) ==
  LET upTo[i \in 0..Len(arrived)] ==
        IF i = 0 THEN 0 ELSE upTo[i - 1] + (IF i \in S THEN arrived[i].RTTMs ELSE 0)
  IN upTo[Len(arrived)]

\* The statistics of a peer, computed from all its events at once.
BatchAgrees(t, k) ==
  LET p    == stats.Hops[t].Peers[k]
      S    == CountedFor(t, k)
      got  == {i \in S : ~arrived[i].Timeout}
      RTTs == {arrived[i].RTTMs : i \in got}
  IN /\ p.ReceivedCount = Cardinality(got)
     /\ p.LossCount = Cardinality(S) - Cardinality(got)
     /\ got # {} => /\ p.MinRTT = Min(RTTs) /\ p.MaxRTT = Max(RTTs)
                    /\ p.TotalRTT = TotalOf(got)
                    /\ LastRTT(p) = arrived[NewestOf(got)].RTTMs

\* However the events of a run are ordered when they arrive (replies overtake
\* each other, timeouts come three seconds late), every hop and peer of the
\* table has the counts, the extreme and mean RTTs and the last RTT that the
\* events of the run give, and no hop or peer is there without an event.
StatsAreThoseOfEvents ==
  /\ DOMAIN stats.Hops = {t \in {HopTTL(arrived[i]) : i \in DOMAIN arrived} : Counted(t) # {}}
  /\ \A t \in DOMAIN stats.Hops :
       /\ DOMAIN stats.Hops[t].Peers = {PeerKey(arrived[i]) : i \in Counted(t)}
       /\ \A k \in DOMAIN stats.Hops[t].Peers : BatchAgrees(t, k)

\* The table has every peer of every hop exactly once, in the order of the
\* hops, and numbers each hop exactly once; a peer is shown as [TIMEOUT] only
\* if nothing was received from it.
TableIsComplete ==
  LET lines == ToTable(stats)
      numbered == Only(lines, {l \in ToSet(lines) : l.number # 0})
      hops == DOMAIN stats.Hops
  IN /\ Len(lines) = Cardinality(UNION {{<<t, k>> : k \in DOMAIN stats.Hops[t].Peers} : t \in hops})
     /\ [i \in DOMAIN numbered |-> numbered[i].number] = stats.HopOrder
     /\ ToSet(stats.HopOrder) = hops
     /\ \A i, j \in DOMAIN stats.HopOrder : i < j => stats.HopOrder[i] < stats.HopOrder[j]
     /\ \A i \in DOMAIN lines : lines[i].name = "[TIMEOUT]" <=> lines[i].rtts = <<>>

Answers(t, k) ==
  {i \in CountedFor(t, k) : ~arrived[i].Timeout /\ arrived[i].ExactLocation # NoPlace}

\* The map has a marker for every hop and peer that answered from a known place,
\* even when its first answers, or timeouts mixed with them, gave none, and its
\* place is that of the answer with the lowest sequence number; the path goes
\* from the source through all of them by increasing ttl.
MapFollowsRoute ==
  LET markers == MapMarkers(stats)
      path    == MapPaths(<<"src">>, markers)
      Placed  == {p \in (DOMAIN stats.Hops) \X {PeerKey(arrived[i]) : i \in DOMAIN arrived} :
                    Answers(p[1], p[2]) # {}}
  IN /\ {<<m.ttl, Or(m.peer, Star, NoPeer)>> : m \in ToSet(markers)} = Placed
     /\ Len(markers) = Cardinality(Placed)
     /\ Len(path) = Len(markers)
     /\ \A i \in DOMAIN path :
          path[i][1] = IF i = 1 THEN "src" ELSE markers[i - 1].place
     /\ \A i \in DOMAIN markers :
          LET S == Answers(markers[i].ttl, Or(markers[i].peer, Star, NoPeer))
          IN /\ \E j \in S : /\ arrived[j].ExactLocation = markers[i].place
                             /\ \A o \in S : arrived[j].Seq <= arrived[o].Seq
             /\ i > 1 => markers[i - 1].ttl <= markers[i].ttl

\* The table and the map on the screen are those of the events of the run as a
\* whole.
TableIsThatOfEvents == StatsAreThoseOfEvents /\ TableIsComplete /\ MapFollowsRoute
=============================================================================
