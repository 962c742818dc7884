----------------------------- MODULE PingTable -----------------------------
(***************************************************************************)
(* What a ping panel shows of the samples it receives: the conversion of a *)
(* line to a sample (apis/globalping.ts), the table of cells, its report,  *)
(* the markers of the map (components/pingdisplay.tsx) and the grouping of *)
(* nodes by place (apis/utils.ts).  A latency, seq or ttl of 0 stands for  *)
(* undefined, an empty string for a missing one.                           *)
(***************************************************************************)
EXTENDS Integers, Sequences, FiniteSets, SequencesExt, FiniteSetsExt, Filters

CONSTANTS PingLines,        \* lines the hub may send
          PingSources,      \* sources of the task, in order
          PingTargets,      \* targets of the task, in order
          PingConns,        \* answer of /conns: a sequence of name and place
          MaxExtraMarkers,  \* maximumExtraMarkers (100 in the code)
          MaxSamples        \* bound: samples of one run

\* Only nodes with a name can be chosen as sources (the filter of
\* getNodesFromConns); a tracker notes a reply and its round-trip time together.
ASSUME SourcesAreNamed ==
  /\ PingSources \in Seq(ToSet(PingSources)) /\ "" \notin ToSet(PingSources)
  /\ PingTargets \in Seq(ToSet(PingTargets))

ASSUME RepliesHaveRTTs == \A line \in PingLines : ~line.replied => line.rtt = 0

ASSUME MaxExtraMarkersIsNat == MaxExtraMarkers \in Nat

VARIABLES cells,      \* tableCellDataMap, per pair of target and source
          reversed,   \* orientation: a row per source instead of one per target
          pinged      \* history: the samples in the order they were written

pingTableVars == <<cells, reversed, pinged>>

\* A line of an ICMP or UDP ping without a sequence number (an error event, for
\* one) gives no sample; a line without a raw reply is a timeout.
SampleFromEvent(line) ==
  {[from |-> l.from, target |-> l.target, isTimeout |-> ~l.replied, latency |-> l.rtt,
    ttl |-> l.ttl, seq |-> l.seq, peer |-> l.peer, place |-> l.place]
     : l \in {x \in {line} : x.seq # 0}}

\* A line of a TCP ping: whatever is not "received" is a timeout.
SampleFromTCPEvent(line) ==
  {[from |-> l.from, target |-> l.target, isTimeout |-> ~l.replied,
    latency |-> IF l.replied THEN l.rtt ELSE 0,
    ttl |-> l.ttl, seq |-> l.seq, peer |-> IF l.replied THEN l.peer ELSE "",
    place |-> IF l.replied THEN l.place ELSE ""]
     : l \in {x \in {line} :
                x.details /\ (x.replied =>
                   x.from # "" /\ x.target # "" /\ x.ttl # 0 /\ x.seq # 0)}}

SampleOf(line) == IF line.tcp THEN SampleFromTCPEvent(line) ELSE SampleFromEvent(line)

----------------------------------------------------------------------------
(* The table.                                                              *)

NewCell(sample) ==
  [latency |-> sample.latency, latestSample |-> sample, samples |-> <<sample>>]

\* Mutant: a timeout does not touch the latency of the cell.
UpdateCells_KeepsLatency(prev, sample) ==
  LET pair == <<sample.target, sample.from>>
  IN [p \in DOMAIN prev \cup {pair} |->
        IF p # pair THEN prev[p]
        ELSE IF pair \notin DOMAIN prev THEN NewCell(sample)
        ELSE [latency |-> IF sample.isTimeout THEN prev[p].latency ELSE sample.latency,
              latestSample |-> sample, samples |-> <<sample>> \o prev[p].samples]]

\* updateTableCellDataMap: the newest sample comes first.
UpdateCells(prev, sample) ==
  LET pair == <<sample.target, sample.from>>
  IN [p \in DOMAIN prev \cup {pair} |->
        IF p # pair THEN prev[p]
        ELSE IF pair \notin DOMAIN prev THEN NewCell(sample)
        ELSE [latency |-> sample.latency, latestSample |-> sample,
              samples |-> <<sample>> \o prev[p].samples]]

\* getLatestDataFromMap: history and latency of a pair.
History(target, source) ==
  IF <<target, source>> \in DOMAIN cells THEN cells[<<target, source>>].samples ELSE <<>>

Latency(target, source) ==
  IF <<target, source>> \in DOMAIN cells THEN cells[<<target, source>>].latency ELSE 0

\* The text of a cell: a latency, or a dash (0).
CellText(target, source) ==
  IF History(target, source) # <<>> /\ cells[<<target, source>>].latestSample.isTimeout
    THEN 0 ELSE Latency(target, source)

\* A line of the tooltip of a cell, and its lines from top to bottom: the list is
\* laid out in reverse.
SampleText(sample) ==
  IF sample.isTimeout THEN [lost |-> TRUE, seq |-> sample.seq, ttl |-> sample.ttl]
  ELSE [lost |-> FALSE, seq |-> sample.seq, peer |-> sample.peer, time |-> sample.latency]

Tooltip(target, source) ==
  LET history == History(target, source)
  IN Reverse([i \in DOMAIN history |-> SampleText(history[i])])

\* PerSrcRowMap and PerTGTRowMap: the cells of a row in either orientation.
PerSrcRow(source) == [t \in DOMAIN PingTargets |-> CellText(PingTargets[t], source)]

PerTGTRow(target) == [s \in DOMAIN PingSources |-> CellText(target, PingSources[s])]

TableView ==
  IF reversed THEN [s \in DOMAIN PingSources |-> PerSrcRow(PingSources[s])]
              ELSE [t \in DOMAIN PingTargets |-> PerTGTRow(PingTargets[t])]

\* buildPingReport: the pairs that have a latency.
ReportRTTs ==
  [p \in {q \in DOMAIN cells : cells[q].latency # 0} |-> cells[p].latency]

----------------------------------------------------------------------------
(* The map of a target.                                                    *)

IndexOf(sample) == <<sample.ttl, sample.peer>>

\* updateMarkers: a sample with a ttl, a place and a latency replaces the marker
\* that has its index.
UpdateMarkers(markers, sample) ==
  IF sample.ttl = 0 \/ sample.place = "" \/ sample.latency = 0 THEN markers
  ELSE Append(Only(markers, {m \in ToSet(markers) : m.index # IndexOf(sample)}),
              [index |-> IndexOf(sample), latency |-> sample.latency])

\* The markers after the first n of some samples.
MarkersAfter(samples, n) ==
  LET after[i \in 0..n] == IF i = 0 THEN <<>> ELSE UpdateMarkers(after[i - 1], samples[i])
  IN after[n]

\* The histories of all sources, one after the other, newest sample first.
ExtraMarkers(target) ==
  LET histories == FlattenSeq([s \in DOMAIN PingSources |-> History(target, PingSources[s])])
      markers == MarkersAfter(histories, Len(histories))
  IN IF Len(markers) > MaxExtraMarkers THEN SubSeq(markers, 1, MaxExtraMarkers) ELSE markers

\* getNodeGroups: nodes of the task, and nodes without a name, by place.
NodeGroups(sources) ==
  LET chosen == {c \in ToSet(PingConns) : c.place # "" /\ (c.name = "" \/ c.name \in sources)}
  IN [place \in {c.place : c \in chosen} |->
        {c.name : c \in {d \in chosen : d.place = place}}]

\* The latency a group is coloured by: the smallest of its nodes, 0 for none.
GroupLatency(target, nodes) ==
  LET latencies == {Latency(target, n) : n \in nodes \ {""}} \ {0}
  IN IF latencies = {} THEN 0 ELSE Min(latencies)

GroupMarkers(target) ==
  LET groups == NodeGroups(ToSet(PingSources))
  IN [place \in DOMAIN groups |-> GroupLatency(target, groups[place])]

----------------------------------------------------------------------------

PingTableInit == cells = <<>> /\ reversed = FALSE /\ pinged = <<>>

SampleArrives ==
  /\ Len(pinged) < MaxSamples
  /\ \E line \in PingLines : \E sample \in SampleOf(line) :
       /\ cells' = UpdateCells(cells, sample)
       /\ pinged' = Append(pinged, sample)
  /\ UNCHANGED reversed

RotateOrientation == reversed' = ~reversed /\ UNCHANGED <<cells, pinged>>

PingTableNext == SampleArrives \/ RotateOrientation

PingTableSpec == PingTableInit /\ [][PingTableNext]_pingTableVars

----------------------------------------------------------------------------
(* Properties                                                              *)

Samples == UNION {SampleOf(line) : line \in PingLines}

SamplesOfPair(target, source) == {x \in Samples : x.target = target /\ x.from = source}

Pinged(target, source) == Only(pinged, SamplesOfPair(target, source))

\* The tooltip of a pair tells its samples in the order they came, and the screen
\* (whichever way it is turned) and the report agree on the latest of them: a
\* pair whose last packet was lost has no latency in either, even when an older
\* reply is still in its history.
ScreenAndReportAgree ==
  \A t \in DOMAIN PingTargets, s \in DOMAIN PingSources :
    LET pair == <<PingTargets[t], PingSources[s]>>
        mine == Pinged(pair[1], pair[2])
        last == mine[Len(mine)]
        shown == IF reversed THEN TableView[s][t] ELSE TableView[t][s]
    IN /\ Tooltip(pair[1], pair[2]) = [i \in DOMAIN mine |-> SampleText(mine[i])]
       /\ pair \in DOMAIN ReportRTTs <=> mine # <<>> /\ ~last.isTimeout /\ last.latency # 0
       /\ shown = IF pair \in DOMAIN ReportRTTs THEN ReportRTTs[pair] ELSE 0

\* Every place of a source has a marker, coloured by the best of the last
\* answers of the sources there, and grey when none of them answered last.
GroupsShowLatest ==
  \A target \in ToSet(PingTargets) :
    LET groups == GroupMarkers(target)
        mine == {c \in ToSet(PingConns) : c.name \in ToSet(PingSources) /\ c.place # ""}
        lastOf(c) == LET l == Pinged(target, c.name) IN IF l = <<>> THEN 0 ELSE Last(l).latency
        answers(place) == {lastOf(c) : c \in {d \in mine : d.place = place}} \ {0}
    IN /\ {c.place : c \in mine} \subseteq DOMAIN groups
       /\ \A place \in DOMAIN groups :
            groups[place] = IF answers(place) = {} THEN 0 ELSE Min(answers(place))

PlacedSamples == {x \in Samples : x.ttl # 0 /\ x.place # "" /\ x.latency # 0}

\* On the map of a target a router has one marker, and it keeps the colour of
\* the FIRST sample of the last source that saw it: the histories are walked
\* newest first and every older sample replaces the marker of a newer one.
MarkersAreOfFirstSamples ==
  \A target \in ToSet(PingTargets) :
    LET placed(source) == Only(Pinged(target, source), PlacedSamples)
        saw(index) == {s \in DOMAIN PingSources :
                         \E i \in DOMAIN placed(PingSources[s]) :
                           IndexOf(placed(PingSources[s])[i]) = index}
        markers == ExtraMarkers(target)
    IN /\ Len(markers) <= MaxExtraMarkers
       /\ \A i, j \in DOMAIN markers : markers[i].index = markers[j].index => i = j
       /\ \A i \in DOMAIN markers :
            LET mine == Only(placed(PingSources[Max(saw(markers[i].index))]),
                             {x \in Samples : IndexOf(x) = markers[i].index})
            IN markers[i].latency = mine[1].latency

\* The table, the report and the maps of a ping panel show its samples.
PanelShowsSamples == ScreenAndReportAgree /\ GroupsShowLatest /\ MarkersAreOfFirstSamples
=============================================================================
