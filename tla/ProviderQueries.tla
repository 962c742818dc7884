--------------------------- MODULE ProviderQueries ---------------------------
(***************************************************************************)
(* The panels that ask several providers at once: routes (apis/             *)
(* mrtProviders.ts, components/RouteQueryResultDisplay.tsx), one paged      *)
(* stream per provider, and IP information (apis/ip-query.ts, components/  *)
(* IPQueryResultDisplay.tsx), one stream for all providers.  Both can be   *)
(* refreshed and closed at any time; a route panel loads further pages.    *)
(* The service behind the routes is not in the repository; the IP service  *)
(* is (src/pkg/proxy/ip-query-directory.go), and its lines for requests it  *)
(* takes are those of a listed provider and a queried address.             *)
(***************************************************************************)
EXTENDS Naturals, Sequences, FiniteSets, SequencesExt, FiniteSetsExt

CONSTANTS QueryProviders,   \* sources of the task, in order
          TotalEntries,     \* entries each provider has for the query
          PageSize,         \* DEFAULT_PAGE_SIZE (50 in the code)
          QueriedIPs,       \* targets of an IP task
          MaxQueries        \* bound: streams of one panel, and room for all providers

VARIABLES
  asks,        \* "route" or "ip"
  hasQuery,      \* a route task has a query
  cursors,     \* service: every line carries a cursor, or a page's last does
  panel,       \* "no", "yes", "gone"
  providerMap, \* state of each provider; empty before the first query
  pages,       \* loadedPagesData: entries of the pages before the current one
  streams,     \* the streams so far: [prov, from, next, phase, heard]
  mains,       \* streams of the abortController of the effect
  more,        \* the stream of loadMoreAcRef
  preempted    \* history: providers whose page was aborted by another's

queryVars == <<asks, hasQuery, cursors, panel, providerMap, pages, streams, mains,
               more, preempted>>

ProviderSet == ToSet(QueryProviders)

\* A source is marked once (the sources of a task); "all" names no provider.
ASSUME ProviderQueriesConstants ==
  /\ QueryProviders \in Seq(ProviderSet) /\ IsInjective(QueryProviders)
  /\ "all" \notin ProviderSet
  /\ TotalEntries \in Nat /\ PageSize \in Nat \ {0}

NoCursor == 0

NoStream == 0

QueryLive(s) == s \in DOMAIN streams /\ streams[s].phase \in {"fetching", "reading"}

NewStream(p, from) ==
  [prov |-> p, from |-> from, next |-> from, phase |-> "fetching", heard |-> {}]

NewState == [entries |-> <<>>, running |-> TRUE, error |-> FALSE, cursor |-> NoCursor]

\* Nothing reads or tells of a stream that is over.
Over(stream) == [stream EXCEPT !.phase = "over", !.next = stream.from, !.heard = {}]

Aborted(all, given) ==
  [s \in DOMAIN all |-> IF s \in given THEN Over(all[s]) ELSE all[s]]

SetState(p, state) == providerMap' = [providerMap EXCEPT ![p] = state]

QueryInit ==
  /\ asks \in {"route", "ip"} /\ hasQuery \in BOOLEAN /\ cursors \in {"line", "page"}
  /\ panel = "no"
  /\ providerMap = <<>>
  /\ pages = [p \in ProviderSet |-> <<>>]
  /\ streams = <<>>
  /\ mains = {} /\ more = NoStream /\ preempted = {}

----------------------------------------------------------------------------

\* The streams an effect starts.
FirstStreams ==
  IF asks = "ip" THEN <<NewStream("all", 1)>>
  ELSE [i \in DOMAIN QueryProviders |-> NewStream(QueryProviders[i], 1)]

\* The effect of the hooks: all providers start over.  A route task without a
\* query asks for nothing.
StartQuery(kept) ==
  IF asks = "route" /\ ~hasQuery
    THEN /\ providerMap' = <<>>
         /\ streams' = kept
         /\ UNCHANGED <<mains, more>>
    ELSE /\ Len(kept) + Len(QueryProviders) <= MaxQueries
         /\ providerMap' = [p \in ProviderSet |-> NewState]
         /\ streams' = kept \o FirstStreams
         /\ mains' = (Len(kept) + 1)..(Len(kept) + Len(FirstStreams))
         /\ more' = NoStream

Open ==
  /\ panel = "no"
  /\ panel' = "yes"
  /\ StartQuery(streams)
  /\ UNCHANGED <<asks, hasQuery, cursors, pages, preempted>>

\* Mutant: the page that is being loaded is left alone.
Refresh_KeepsMore ==
  /\ panel = "yes"
  /\ pages' = [p \in ProviderSet |-> <<>>]
  /\ preempted' = {}
  /\ StartQuery(Aborted(streams, mains))
  /\ UNCHANGED <<asks, hasQuery, cursors, panel>>

\* Refresh: the pages are forgotten; the generation counts on, so the cleanup
\* of the effect aborts its streams, and the effect the page being loaded.
Refresh ==
  /\ panel = "yes"
  /\ pages' = [p \in ProviderSet |-> <<>>]
  /\ preempted' = {}
  /\ StartQuery(Aborted(streams, mains \cup {more}))
  /\ UNCHANGED <<asks, hasQuery, cursors, panel>>

\* The cleanup of the effect aborts its streams; a page being loaded goes on.
ClosePanel ==
  /\ panel = "yes"
  /\ panel' = "gone"
  /\ streams' = Aborted(streams, mains)
  /\ UNCHANGED <<asks, hasQuery, cursors, providerMap, pages, mains, more, preempted>>

\* The button is there when the page has a cursor and is not being read.
LoadMoreShown(p) ==
  p \in DOMAIN providerMap /\ providerMap[p].cursor # NoCursor /\ ~providerMap[p].running

\* Load More: the page moves to the pages before it, the next one is fetched.
\* One page is loaded at a time: the controller is shared by all providers, and
\* the provider whose page is aborted is not told.
LoadMore(p) ==
  /\ panel = "yes" /\ asks = "route" /\ LoadMoreShown(p)
  /\ Len(streams) < MaxQueries
  /\ pages' = [pages EXCEPT ![p] = @ \o providerMap[p].entries]
  /\ SetState(p, NewState)
  /\ streams' = Append(Aborted(streams, {more}), NewStream(p, providerMap[p].cursor))
  /\ more' = Len(streams) + 1
  /\ preempted' = IF QueryLive(more) THEN preempted \cup {streams[more].prov} ELSE preempted
  /\ UNCHANGED <<asks, hasQuery, cursors, panel, mains>>

----------------------------------------------------------------------------
(* The streams.                                                            *)

StreamGoes(s, change) ==
  /\ streams' = [streams EXCEPT ![s] = change]
  /\ UNCHANGED <<asks, hasQuery, cursors, panel, pages, mains, more, preempted>>

QueryAnswered(s) ==
  /\ QueryLive(s) /\ streams[s].phase = "fetching"
  /\ StreamGoes(s, [streams[s] EXCEPT !.phase = "reading"])
  /\ UNCHANGED providerMap

\* The page of a stream: PageSize entries, or those that are left.
PageEnd(st) ==
  IF st.from + PageSize - 1 <= TotalEntries THEN st.from + PageSize - 1 ELSE TotalEntries

\* The cursor of a line resumes behind it.
CursorOf(st) ==
  IF cursors = "line" \/ (st.next = PageEnd(st) /\ st.next < TotalEntries)
    THEN st.next + 1 ELSE NoCursor

RouteLine(s) ==
  LET st == streams[s]
      cur == providerMap[st.prov]
  IN /\ asks = "route" /\ QueryLive(s) /\ st.phase = "reading" /\ st.next <= PageEnd(st)
     /\ SetState(st.prov,
          [cur EXCEPT !.entries = Append(@, st.next),
                      !.cursor = IF CursorOf(st) = NoCursor THEN @ ELSE CursorOf(st)])
     /\ StreamGoes(s, [st EXCEPT !.next = @ + 1])

\* A line with Err and without Data.
RouteErrorLine(s) ==
  /\ asks = "route" /\ QueryLive(s) /\ streams[s].phase = "reading"
  /\ ~providerMap[streams[s].prov].error
  /\ SetState(streams[s].prov, [providerMap[streams[s].prov] EXCEPT !.error = TRUE])
  /\ StreamGoes(s, streams[s])

RouteDone(s) ==
  LET st == streams[s]
  IN /\ asks = "route" /\ QueryLive(s) /\ st.phase = "reading" /\ st.next > PageEnd(st)
     /\ SetState(st.prov, [providerMap[st.prov] EXCEPT !.running = FALSE])
     /\ StreamGoes(s, Over(st))

\* A rejected request (a malformed query is one) shows its error, a broken body
\* does not.
RouteBroken(s) ==
  LET st == streams[s]
  IN /\ asks = "route" /\ QueryLive(s)
     /\ SetState(st.prov, [providerMap[st.prov] EXCEPT
                             !.running = FALSE, !.error = @ \/ st.phase = "fetching"])
     /\ StreamGoes(s, Over(st))

\* Positions of the entries for an address; the table takes the first.
FindEntry(p, ip) == {i \in DOMAIN providerMap[p].entries : providerMap[p].entries[i].ip = ip}

\* An entry of an IP query, of any provider and address not yet answered.
IPLine(s, p, ip) ==
  /\ asks = "ip" /\ QueryLive(s) /\ streams[s].phase = "reading"
  /\ FindEntry(p, ip) = {}
  /\ \E failed \in BOOLEAN :
       SetState(p, [providerMap[p] EXCEPT
                      !.entries = Append(@, [ip |-> ip, failed |-> failed]),
                      !.running = TRUE, !.error = @ \/ failed])
  /\ StreamGoes(s, [streams[s] EXCEPT !.heard = @ \cup {p}])

\* Mutant: the providers of the stream go on as running.
IPEnds_KeepsRunning(s) ==
  /\ asks = "ip" /\ QueryLive(s)
  /\ UNCHANGED providerMap
  /\ StreamGoes(s, Over(streams[s]))

\* The end of the stream, or its failure, concerns the providers that have been
\* heard (runningProviders); a request that is rejected concerns none.
IPEnds(s) ==
  /\ asks = "ip" /\ QueryLive(s)
  /\ providerMap' = [p \in ProviderSet |->
                       IF p \in streams[s].heard THEN [providerMap[p] EXCEPT !.running = FALSE]
                       ELSE providerMap[p]]
  /\ StreamGoes(s, Over(streams[s]))

----------------------------------------------------------------------------
(* The table of an IP panel; a column or a row per address, same cells.    *)

IPCell(p, ip) ==
  LET found == FindEntry(p, ip)
  IN IF found # {} THEN IF providerMap[p].entries[Min(found)].failed THEN "error" ELSE "value"
     ELSE IF providerMap[p].running THEN "spinner" ELSE "none"

\* "No results found."
NoResultsShown(p) ==
  ~providerMap[p].running /\ providerMap[p].entries = <<>> /\ ~providerMap[p].error

----------------------------------------------------------------------------

QueryNext ==
  \/ Open \/ Refresh \/ ClosePanel
  \/ \E p \in ProviderSet : LoadMore(p)
  \/ \E s \in DOMAIN streams :
       \/ QueryAnswered(s) \/ RouteLine(s) \/ RouteErrorLine(s) \/ RouteDone(s) \/ RouteBroken(s)
       \/ IPEnds(s)
       \/ \E p \in ProviderSet, ip \in QueriedIPs : IPLine(s, p, ip)

QuerySpec == QueryInit /\ [][QueryNext]_queryVars

----------------------------------------------------------------------------
(* Properties                                                              *)

\* allEntries of the panel.
EntriesShown(p) == pages[p] \o providerMap[p].entries

\* A route panel shows, for each provider, a beginning of that provider's
\* entries, in order, each once: through pages, breaks of a stream, refreshes
\* and pages of several providers asked for at the same time.
EntriesArePrefix ==
  asks = "route" =>
    \A p \in DOMAIN providerMap :
      EntriesShown(p) = [i \in 1..Len(EntriesShown(p)) |-> i]

\* Only streams of the present query are read.  The one exception is a page
\* that is being loaded when the panel is closed: nothing aborts it.
OnlyOwnStreams ==
  \A s \in DOMAIN streams :
    QueryLive(s) => s = more \/ (panel = "yes" /\ s \in mains)

\* What a panel shows is of its query: a beginning of the entries, read from no
\* stream but its own.
ShowsOwnEntries == EntriesArePrefix /\ OnlyOwnStreams

\* Once the stream of an IP panel is over, an address has a spinner only in the
\* tab of a provider that answered nothing at all; that tab keeps spinners in
\* all cells and never says "No results found.", however the stream ended.
CellsSettle ==
  \A p \in DOMAIN providerMap :
    /\ (\A s \in DOMAIN streams : ~QueryLive(s)) =>
         LET cells == {IPCell(p, ip) : ip \in QueriedIPs}
         IN "spinner" \in cells <=> cells = {"spinner"}
    /\ ~NoResultsShown(p)

\* A provider is shown as running exactly while a stream of it is read, except
\* (for ever, until the next refresh) a provider whose page was aborted because
\* another provider's page was asked for, and a provider of an IP query that
\* the stream never mentioned.  The cells of an IP panel settle with it.
RunningIsRead ==
  panel = "yes" =>
    \A p \in DOMAIN providerMap :
      LET read == \E s \in DOMAIN streams : QueryLive(s) /\ streams[s].prov \in {p, "all"}
      IN IF asks = "route" THEN providerMap[p].running <=> read \/ p \in preempted
         ELSE (providerMap[p].running <=> read \/ providerMap[p].entries = <<>>) /\ CellsSettle
=============================================================================
