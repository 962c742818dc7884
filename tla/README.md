# CloudPing (rbmq-demo): TLA+ models and proofs

CloudPing lets users ping, traceroute, and probe DNS and HTTP from many places
at once. Users reach it through a web console, a Telegram bot, a terminal UI,
e-mail or MCP (the access layer). A *hub* keeps a registry of *agents* and turns
one request into one remote ping per agent and target (the control layer).
Agents run the probes (the execution layer).

```
 web console ──HTTP──> hub: PingTaskHandler ──QUIC/HTTP──> agent: PingHandler
  panels, streams,     │                                   │ SimplePinger, TCPSYNPinger,
  task form, labels    │  registry of connections          │ SimpleBlockScanner, DNS, HTTP
           rate limit ─┘     ▲                             │ trackers, transceivers, token pool
           middleware        └── register / attributes / echo (WebSocket, QUIC)
```

The models follow the Go code of `src/pkg` and the TypeScript code of `src/web`.
Paths are relative to `src/`; those of the console are shortened to what follows
`web/`.

## 1. Inventory

### Hub and agent

| Component | State | Operations | What is hard | What makes it correct |
|---|---|---|---|---|
| ICMP packet tracker, `pkg/raw/tracker.go` | store of entries, acked counter, one timer and several goroutines per packet, event channel | MarkSent, MarkReceived, handleTimeout, cleanupEntry, GetUnAcked, GetAckedSeq, ForgetAllAndClose, Run | timers race late and duplicate replies; the owner goroutine sends from inside a closure; closing while events are pending | one final verdict per packet, exact counters, an event for every packet, no entry left behind |
| ICMP transceivers, `pkg/raw/icmp.go` | raw socket, in/out channels, error channel | the loop of GetIO | one goroutine sends and receives on unbuffered channels | checked through its users |
| ICMP pinger, `pkg/pinger/ping.go` | control signals, packets sent | Ping: event goroutine, sending goroutine | tracker, transceiver and two goroutines wait for each other | the count of packets, nothing lost at the end, a cancelled ping returns unless a duplicated reply has filled the channel to the sender |
| Block scanner, `pkg/pinger/scaner.go` | in-flight wait group, output channel | pingCIDR: main, receiver, drain | three goroutines, wait groups, deferred closes | the output closes after the last ping settled, and the scan ends |
| TCP SYN tracker, `pkg/tcping/tcping.go` | store keyed by the local port, event channel | MarkSent, MarkReceived, handleTimeout, Send, Run | ports come back before the tracker knows; events are sent from the owner | one verdict per SYN, loss only when due |
| TCP pinger, `pkg/pinger/tcppinger.go` | ticker, throttled ticks, events | Ping: main goroutine, receiver | Send waits for the owner which waits for Send's goroutine; a deferred wait | the ping ends |
| Token pool and limiter, `pkg/ratelimit/{pool,ratelimit,slice}.go` | tokens and listeners | Consume, WaitForRefresh, refresh, GetIO, GetThrottledRequests | a refresh between a refusal and the registration; three goroutines per stream | the outbound rate, no loss, nobody starves |
| Sliding-window limiter, `pkg/ratelimit/sliding_window_rl.go` | per key an atomic pointer to a list of timestamps | Consume | lost updates, a stale list, off-by-one at both ends of the window | no window above the limit, no rejection below it |
| Connection registry, `pkg/nodereg/agent.go`, `pkg/safemap` | key → entry (name, attributes, heartbeat) | OpenConnection, CloseConnection, Register, UpdateHeartbeat, SetAttributes, SearchByAttributes | concurrent handlers and readers | see next row |
| Registration, `pkg/nodereg/agent.go`, `pkg/handler/handle_{ws,quic}.go`, `pkg/cli/agent.go` | connections, handlers, gc timers, agents | dial, register, announce, echo, reconnect; handler, reader, gc timeout | a reader outlives its handler; breaks without notice; crashes and comebacks | no ghosts, no early heartbeat, broken and abandoned ones are removed, agents come back |
| Ping task dispatch and multiplexing, `pkg/handler/handle_pingtask.go`, `pkg/pinger/{remoteping,types}.go` | pingers made, one stream per pinger | look-up, policy, start, forward, write | three unwatched goroutines per stream; breaks, refusals, a leaving client | order, completeness, every target answered, agents stop |
| Ping handler of the agent, `pkg/handler/handle_ping.go` | request and response | accept or refuse, write events | its context ends in several ways | as part of the above |

### Web console

| Component | State | Operations | What is hard | What makes it correct |
|---|---|---|---|---|
| Ping panel, `components/pingdisplay.tsx`, sample streams of `apis/globalping.ts` | reader, timer of the effect, cells, markers | mount, launch, pause, resume, sample, close | a reader does not exist before its answer; timers of effects; newest-first walks of the history | a panel shows one stream in order, a running panel gets a stream, the hub serves nothing given up |
| Traceroute panel, `components/traceroutedisplay.tsx`, `apis/trace.ts` | abort controller, live table, frozen table, statistics per hop and peer | request, event, stop, resume, done, failure, close | events arrive in any order while a last hop removes the hops behind it; stop and resume around failures | as above; the table and map are those of the events |
| DNS panel, `components/dnsprobedisplay.tsx` | reader, answers per pair, spinner | launch, answer, refresh, close | two readers write into one table | answers go forward |
| HTTP panel, `components/{httpprobedisplay,EventsBrowser}.tsx`, `apis/httpprobe.ts` | query, reader, `tickRef`, events | request, answer, tick, read, refresh, refetch, close | loops of old and new readers share a reference | no event twice, none of a reader given up |
| Stream transforms, `apis/globalping.ts`, `apis/httpprobe.ts`, `utls/streams.ts` | buffers between chunks | transform, flush | a chunk may end anywhere | the cuts do not show |
| Task form, dialog and list, `components/{TaskCreatorPanel,taskconfirm,PingTransportTypePanel,pmtu,sourceselector,…}.tsx`, `app/page.tsx` | form, options, dialog, tasks | edits, Add Task, confirm, cancel, close | the form changes while Add Task works on an older one; options outlive their type | tasks are runnable and match their inputs |
| Route and IP query panels, `apis/{mrtProviders,ip-query}.ts`, `components/{RouteQuery,IPQuery}ResultDisplay.tsx` | state per provider, pages, streams and two controllers | start, refresh, line, end, failure, Load More, close | providers share a controller; pages arrive while the panel is refreshed | entries are of the current query and in order, what is "running" is being read |
| Address labels, `utls/{router,ipaddr}.ts`, `apis/{nwdesc,useAddressClassify}.ts` | two lists that arrive in either order, trie | fetched, look-up | path compression by differences of prefix lengths | the label belongs to the address |

### Components without a module

| Component | State and operations | Why not, or what is planned |
|---|---|---|
| Request parsing, TTL generators, `pkg/pinger/request.go` | a generator reset by an event or advanced | planned as pure functions: AutoTTL, RangeTTL, defaults |
| DNS pinger, `pkg/pinger/dnspinger.go`, `pkg/dnsprobe` | one goroutine per throttled request | planned; the DNS wire format stays out |
| HTTP pinger, `pkg/pinger/httppinger.go`, `pkg/httpprobe` | one logger channel shared with the goroutines of `net/http` | planned |
| RPC over RabbitMQ, `pkg/rpc` | reply queues, task updates | planned with the broker as external; no package imports it at this commit |
| IP information cache, `pkg/ipinfo/cache.go` | B-tree replaced as a whole | planned |
| Authentication, tickets, sessions, logins, `pkg/auth`, `pkg/session`, `pkg/oidc`, `pkg/handler/handle_*login*.go` | ticket channel of one, session map, nonces | planned as one protocol module; signatures are external |
| Conversation manager, `pkg/bot` | cancel function per conversation | planned: CutIn loads, cancels and stores in separate steps |
| Routing table, heat map, prefix utilities, `pkg/routing`, `pkg/bitmap`, `pkg/utils` | pure algorithms | planned as functions against reference definitions |
| Maps, canvases, reports, cards and pages of the console, `components/worldmap.tsx`, … | drawing computed from its inputs | presentation; not planned |
| Login page of the console | the profile of the visitor | one request, nothing kept |
| IP providers, proxy, metrics, MCP, TUI, e-mail, CLI, text tables | no shared state, or presentation | not planned; see `PROJECT.json` |

## 2. Modules

Every component module declares its CONSTANTS with assumptions, its VARIABLES,
one action per closure, handler, task of the event loop or goroutine step, and its
properties. A module `MC…` fixes the constants for TLC, a module `…Proofs` holds
theorems. A definition `Action_Change` next to an action is a mutant: the same action
with a plausible mistake, under which the property it is listed for fails.

```
hub and agent
  ICMPTracker ── PacketIO ─┬─ SimplePinger      TCPTracker ── TCPPinger
                           └─ BlockScanner      ConnRegistry ── HubRegistration
  SlidingWindow            TokenPool            PingTask
console
  HubStreams ── SamplePanels ── ProbePanels     Filters ─┬─ LineStream   PingTable
                   │ implements                          └─ TraceStats   AddressClassify
                SampleFeed                      TaskCreator      ProviderQueries
```

`Filters` is the filter and the sort of JavaScript arrays (`Only`, `SortedBy`), for the
four modules behind it.

`MCAgentParts` and `MCWebConsole` put parts into one run that share no state in the
code. A variable (`runs`, `part`) chosen in the initial state says which of them
goes; the others stay in their initial states, so the state space is the sum of the
parts and not their product.

### ICMPTracker (`pkg/raw/tracker.go`)

`store[s]` is the entry of packet `s` (the number of replies it has, or
`Absent`), `timer[s]` and `waiter[s]` its timer and the goroutine that waits for
it, `senders` the goroutines that send an event of a reply, `cleanups[s]` those
that are going to call cleanupEntry, `emitting` the timeout event the owner is
sending from inside `handleTimeout`. A closure that the owner serves is one
action (`MarkSent`, `MarkReceived`, `HandleTimeout`, `CleanupEntry`,
`ForgetAll`), except that `handleTimeout` sends on RecvEvC half-way: the rest is
`EmitTimeout`. `HandleTimeoutLate` is the call that finds nothing to do. The
owner serves no closure while `emitting` is not empty. The goroutine of MarkSent tests
`ent.Timer` and then reads `ent.Timer.C` (`tracker.go:333-336`) without synchronisation
with the owner, which sets the field to nil for a reply (`:368`); `StartWaiter` is both at
once, so a reply exactly between the two, which would end the program, is left out.

### PacketIO, SimplePinger, BlockScanner

`PacketIO` is the loop of `GetIO` with the network behind it: it accepts a
request from inC, reads a reply, and is then stuck until somebody takes the reply
from outC. `SimplePinger` and `BlockScanner` add the goroutines of `ping.go` and
`scaner.go`, with a program counter each; a send on an unbuffered channel is one
joint step of both ends. In `BlockScanner` a panic (negative wait-group counter,
send on a closed channel) is a value of `crash` that stops the program. The
network loses, delays and duplicates replies: `wire` holds up to `MaxReplies` per
request and nothing forces them to arrive.

The event goroutine of the pinger sends the next control signal without watching the
context (`ping.go:268`). With one reply to a packet the channel is always empty then; the
event of a duplicate finds it full, and if the ping is cancelled at that moment the sender
leaves and nobody empties it. That is `ControlBlocked`, which `CancelEndsPing` exempts and
which the run reaches (without the exemption TLC finds it violated). No text of the
repository says that a cancelled ping returns, so this is not a finding.

### TCPTracker, TCPPinger

Entries are keyed by local port. `guard[s]` follows the goroutine of Send that
waits for the timer of SYN `s` and closes its listener before it tells the
tracker, so that the kernel may give the port to another SYN meanwhile
(`MarkSent` overwrites the entry). Send is the sequence `send`, `write`, `arm` of
the main goroutine. With a rate limiter, ticks pass the goroutines of
throttleTicker, which hold up to `PipeDepth` of them.

### SlidingWindow, TokenPool

`SlidingWindow`: Consume is `Load`, `TryAppend` (which reads the clock and decides)
and `CompareAndSwap`; `store[k].id` is the identity of the list the pointer points
to. `TokenPool`: `tokensMap`, `listeners` are those of the pool; every stream has a
feeder, a limiter and a forwarder. Time is the refresh.

### ConnRegistry, HubRegistration

`ConnRegistry` has no variables: it is the registry as operators on functions
from open keys to entries, each of which the goroutine of the map runs as one
closure. `HubRegistration` adds agents (`agent`, their current connection),
connections (`link`, `inbox`), the handler and the reader of every connection,
the gc timer and `hub`, which a nil dereference of the reader turns to
"crashed". A connection may break without either side being told.

An agent whose doRun returns closes nothing and is started again
(`cli/agent.go:615-625`). Its connection is broken then (`Reconnect`), except over QUIC:
every message is decoded by a new json.Decoder (`nodereg/agent.go:336`), what the last one
read ahead is lost, and an error of the next ends doRun on a connection that works
(`ReceiverFails`, one of the faults). The old connection then stays beside the new one until it
has been idle long enough (`IdleTimeout`) or the gc timer of the hub fires. A WebSocket
message is decoded as a whole, so only a broken WebSocket ends doRun, and an agent never
has two that work (`OneLiveWebSocket`).

### PingTask

The request is `form`. A stream is a node with one target (ping, DNS) or with all
targets (HTTP). The events of a stream are numbered as the pinger of the agent
produces them, and an event is in `body` (lines of the response), `held` (by the
remote pinger), `forward` (by the two forwarding goroutines) or `delivered`.
`Lookup`, `Build`, `Start`, `Encode`, `EncodeFails`, `HandlerEnds` are the handler;
`Request`, `RequestFails`, `Scan`, `RemoteEnds` the remote pinger; `AgentWrites`,
`AgentEnds` the agent. Connections may break at any moment, which ends a
response without an error event, as the code does.

### HubStreams, SampleFeed, SamplePanels

JavaScript runs one task, with the microtasks it queues, after the other. One action
is one task: a click with the render and the effects it causes, a timer, an answer, a
line with its way through the transform streams. What interleaves are the tasks.

`HubStreams` is what every panel of the console does with the hub: `launched` counts
the fetches, `phase` is what the page knows of each (`fetching`, `reading`, …) and
`open` the requests the hub still serves. `SamplePanels` is the ping panel and the
traceroute panel: `ref` is `readerRef.current` or `abortControllerRef.current`,
`timer` the `setTimeout` of the effect that launches the stream, `stopped` what
`controlscope` knows, `rows` and `snapshot` what is on the screen, as pairs of stream
and position. `CancelStream` is `cancelStream()`: it reaches a reader that exists and
leaves a request that is still unanswered alone, which `early` records.

`SampleFeed` is what such a panel promises: it follows one stream, shows its events in
order without gaps or repetitions, and shows nothing of a stream given up. `SamplePanels`
implements it (`PanelsImplementFeed`) under the mapping `Feed`: `current` is `ref`,
`position` the lines of that stream so far, `fresh` the numbers not fetched yet,
`shown` the frozen table if there is one and the live one otherwise. `keeps` is whether a
new stream goes on with what is shown: a ping panel does, a traceroute starts from nothing.

### ProbePanels

The DNS and the HTTP panel on the same streams. A DNS panel keeps its answers over a
refresh: `writer[p]` is the stream whose answer is shown for a pair. An HTTP panel has a
query with a `key` (the generation), the `reader` of its current answer, and for every
reader a `loop` which alternates between a timer (`tick`) and a pending read; `tick` is
`tickRef.current`, shared by the loops of all readers. `caught` records the readers that
were replaced while their loop was waiting. A stream that breaks while it is read
(`HTTPBreaks`) loses what is queued, and its loop ends with the next read, which rejects.

### LineStream

`ChunkArrives` is `transform` of LineTokenizer, JSONLineDecoder, EventAdapter and the
parser of 32-bit words on one chunk, `Flush` the end of the body. A character is an
ordinary one, CR, LF, or one that makes its line unparsable or no event. `Cut` is the loop
over the text kept and the chunk, a recursive function on texts.

### TraceStats, PingTable

Pure folds with the line or sample that arrives as the only input. `TraceStats`:
`FromRaw`, `PeerWriteEvent`, `HopWriteEvent`, `StatsWriteEvent` are the functions of
`apis/trace.ts`, `ToTable`, `MapMarkers`, `MapPaths` what is shown. `PingTable`:
`UpdateCells`, `TableView`, `Tooltip`, `ReportRTTs`, `UpdateMarkers`, `ExtraMarkers`,
`NodeGroups`, `GroupMarkers`. Both remember what arrived, and the properties compute
the screen from that a second time, all at once.

### TaskCreator

`form` is `pendingTask`; the edits are what the panel of each type offers, with the side
effects the code has (choosing a type switches off the path MTU and UDP options it cannot
have, and replaces the selector of sources when it needs another one).
`options` is what the selector offers, and the answers of its requests arrive with the
filter they were asked for (`asked`). `AddTask` captures the form, `Expanded` puts the
captured one back a second later, `Confirm` validates and appends. A typed list is a
sequence of words.

### ProviderQueries

`streams` are the streams of a panel so far, each with its provider (or "all"), the
cursor it started from and the one it has read; `mains` those of the controller of the
effect, `more` that of `loadMoreAcRef`. The service behind a route query is external: a
provider has `TotalEntries` entries, gives them in pages, and says where it is on every
line or on the last (`cursors`). That behind an IP query is
`pkg/proxy/ip-query-directory.go`; `IPLine` has its lines for a request it takes, a listed
provider and a queried address each. The lines with which it turns a bad request down
(from "query", without an address), which the panel would take like any other, are left out.

### AddressClassify

`BuildTable` and `LookupRoutes` are the trie of `utls/router.ts` on addresses of a few
bits, `LookupZones` the zones of `apis/nwdesc.ts`, `NetworkListFetched` and
`DomainListFetched` the two lists, which arrive in either order. `ReadByte` is one round
of the loop of getMaskedValue. `LongestMatch` is the reference definition.

## 3. What the runs check

| Run | Instance | Shows |
|---|---|---|
| `tracker` | two packets, two replies each, buffer of one | a timeout is final; un-acked and `ackedSeq` are the numbers of packets without and with a verdict; every packet gets its event; entries are dropped |
| `scanner` | two addresses, unbuffered events, one reply each, socket failures | the output is closed once, after all settled, and nothing is sent on it afterwards without a cancellation; the scan ends |
| `agent_parts` | pinger: count 2, once with one reply each, socket failures and cancellation, once with two replies to the first packet and cancellation. Pool: two streams of two items, one token. Window: four requests, one key, limit 2, window 1, clock to 2 | no packet too many, complete at the end, a cancelled ping returns unless a duplicate blocks it; the outbound rate, no item lost, every stream gets through; no window above the limit, a rejection only when it is full |
| `hub` | one agent, two connections, two messages under way, one fault | no ghost entries, no heartbeat before the registration, one live WebSocket, removal of broken and abandoned connections, return of the agent |
| `tcp` | two SYNs and one too many, two ports, two replies each | one verdict per SYN, no lasting entry, loss only when due, the ping ends |
| `request` | one stream of two events, two streams of one (two targets, two nodes), one HTTP stream with two targets | order, completeness, nothing passed over, agents stop when the client leaves |
| `console`, panels | three streams of two events, one pair, two lines of HTTP | ping and traceroute panels implement `SampleFeed` (in order, nothing after a stop, an empty table when a traceroute resumes); a running ping panel gets a stream; the hub serves nothing but the stream followed and those given up early; answers of a DNS panel go forward; an HTTP panel lists no event twice and none of a reader given up, but for the readers that were caught |
| `console`, transforms | bodies of five characters in chunks of one to three | lines and words are those of the body, however it was cut, and no two events get one number |
| `console`, traceroute | three lines of twenty kinds, in any order | table, map and path are those of the events of the run |
| `console`, ping | four samples, two sources, two possible markers of routers and room for one | screen, tooltip and report agree in both orientations, groups and markers show what the comments at the properties say |
| `console`, tasks | all seven types, one agent, three edits, one task | tasks are runnable and derived from their own inputs |
| `console`, queries | two providers, three entries in pages of two, two addresses | entries are a beginning of the provider's, "running" means being read, cells settle |
| `console`, labels | addresses of two bytes of two bits, three descriptors; all zones | every covered address is labelled, and exactly by the most specific descriptors while a family has two at most; zones by suffix, the root zone by itself only |

The type invariants of the tracker, the token pool, the registration, the TCP pinger and
the ping task are proved (section 6) and not checked again in the runs. Checked are
`ScannerTypeOK`, which bounds the wait group besides the types, and `ProbePanelsTypeOK`,
which contains that of the panels.

### Disagreements with what the repository says

| Run | Property | What happens |
|---|---|---|
| `pinger_count` | `WithinCount` | every event, a duplicate's too, triggers the next request: a duplicated reply makes the pinger send more packets than the count (README.md:113) |
| `pinger_late_reply` | `CountIsSent` | a reply that arrives after its timeout leaves the loop of GetIO in `outC <-` and the sender in `inC <-`: the remaining packets are not sent |
| `hub_gc_race` | `HubSurvivesClosing` | the reader resets a gc timer that the deferred function of the handler has set to nil; the goroutine panics and the hub with it |
| `tcp_error` | `ErrorEndsPing` | after an error the main goroutine waits for `allConfirmedCh`, which only the last packet's event closes |
| `router_lookup` | `LookupOnlyMatching` | the differences of prefix lengths are taken in place (`utls/router.ts:101`), so with three or more IPv4 networks the segments do not add up: 192.170.0.1 is labelled as part of 192.168/16 |

Properties of passing runs exempt these cases by name, and so it is seen where
they stop: `PingEnds` exempts `Deadlocked` (Send waits for the owner, the owner for
the main goroutine to take an event), cancelled and failing pings, and `LastIsReplaced`
(a SYN too many took the port of the last one); `CancelEndsPing` exempts `ControlBlocked`; `AgentComesBack` exempts a QUIC agent that has given up after
a failed stream (`nodereg/agent.go:242`); `CompleteAtEnd` of `PingTask` exempts a
response that broke off, which ends in silence because `scanner.Err()` is asked
inside the loop (`remoteping.go:90`); `OpenIsFollowedOrEarly` and `AnswersGoForward`
exempt streams given up before their answer (`early`), `LaunchedIsRunnable` a route task
with an empty query, which passes although the dialog says "At least one source and one
effective target are required." (`components/taskconfirm.tsx:61`): it counts targets in
the field of the other types; `ListIsSound` readers replaced
during a read (`caught`), `RunningIsRead` providers whose page another one's Load More
aborted (`preempted`) and those an IP stream never mentions.

Seen while reading and not stated as a run, since no text of the repository says
otherwise. In Go: an event goroutine of the tracker that outlives the owner sends on the
channel the owner closed (`raw/tracker.go:379`); a duplicated reply counts the wait group
of the block scanner down twice (`scaner.go:224`); the sequence number grows past 16 bits
for blocks larger than /16 (`scaner.go:261`); a socket that cannot be opened leaves the
tracker running (`ping.go:304`); `Run` of a transceiver blocks on a channel nobody reads
when only `GetIO` is used (`icmp.go:405`), and a second `Close` may close its channel
twice (`icmp.go:434`); listeners of a stopped pool are never closed (`pool.go:48`);
`NewRawServerConn` may fail in silence (`nodereg/agent.go:242`) and an old receiver reads
the connection of its successor (`nodereg/agent.go:347`); `SafeMap.Close` does not set
`closed` (`safemap/methods.go:186`); a denied HTTP target is requested nevertheless
(`handle_pingtask.go:298`); a body chunk read together with EOF is dropped
(`httpprobe/http.go:468`); concurrent updates of the IP cache lose one another
(`ipinfo/cache.go:125`); the RPC responder closes a channel its goroutines may still
send on (`rpc/responder.go:114`, `:205`).

In the console: a ping panel paused or closed before its answer leaves a request that
nobody will cancel; the page being loaded is not aborted when its
panel is closed; a provider whose Load More was preempted shows "running" until the next
refresh; a provider that an IP stream never mentions has spinners for ever, and
"No results found." can never be seen there; markers of routers keep the colour of the
first sample (`MarkersAreOfFirstSamples` says precisely which); the placeholder of a TCP
ping speaks of one target while the dialog accepts several; identifiers of tasks are
drawn at random and not compared with those in use.

## 4. Bounds, and why they are enough

- *Packets.* Two packets are what the trackers need: the races are between a
  packet and its own timer, replies and cleanups, and between the counters of one
  and the events of the other. The TCP run has a third SYN because behind a rate
  limiter one too many is sent.
- *Replies.* Two per packet where duplicates matter (`tracker`, `tcp`,
  `pinger_count`, one part of `agent_parts`), one elsewhere: a duplicate is a known way
  to break the count of the ICMP pinger and the wait group of the scanner, and the
  passing runs show that it is the only one. The part of `agent_parts` with a duplicate
  stops after two packets and is there for the cancellation; the count is left to
  `pinger_count`. RecvEvC has room for one event in it. Without room (`ping.go:84`
  gives none when the timeout is shorter than the interval) a duplicate can also leave
  the event goroutine calling an owner that is sending an event itself.
- *Channels.* Buffers are 0 or 1 so that every send may block.
- *Requests of the window.* Four requests exceed a limit of two in a window of
  length one on a clock of three instants: enough for a list to be built on a
  pruned one.
- *Hub.* Two keys let an old connection meet the new one of the same agent,
  the inbox of two lets a heartbeat follow a registration unread, one fault is a
  crash, a cut, a failing receiver or a timeout at any moment. `MaxFaults` bounds what the
  environment may do, not what the program does.
- *Request.* Streams do not share anything but the handler and the context, so two
  of one event, or one of two, contain every interaction. `<<n1, n1>>` asks for one
  node twice, as `from` allows. The environment acts on the nodes asked for while the
  response lasts.
- *Panels.* `MaxStreams` is 3: one stream given up before its answer, one while it is
  read, and the present one. `MaxEvents` is 2, so that order, gaps and a stream
  interrupted half-way exist; `MaxHTTPLines` bounds the lines of all streams of an HTTP
  panel, which may come from one or from two readers. With one pair of source and
  `corrId`, two streams produce the same event ids.
- *Transforms.* `MaxText` 5 holds an empty line, two lines, a line with CR LF and a
  word with one byte over; chunks have up to three characters, so CR and LF are cut
  apart.
- *Statistics.* `MaxTraceEvents` 3 holds a hop behind a last hop that arrives before,
  between and after; sequence numbers 1 to 3 in any order. `MaxSamples` 4 gives each of
  two sources two samples; `MaxExtraMarkers` 1 (100 in the code) cuts the list when both
  routers have answered.
- *Tasks.* `MaxEdits` 3 is a type, its inputs and a source, which launches a task of every
  type; or the inputs and a source of a ping and an edit, of its type too, while Add Task
  works; or three types after one another. Both properties are proved for any number of
  edits (section 6). One task is enough, as tasks on the page do not influence one
  another; two agents would only make sets larger.
- *Queries.* `PageSize` 2 of `TotalEntries` 3 (50 in the code) is a full and a short page;
  `MaxQueries` 5 streams are two refreshes of two providers, or pages of both; two
  addresses let one be answered without the other.
- *Labels.* `ByteBits` 2 (8 in the code) and two bytes give prefixes that end inside, at
  and beyond a byte; three descriptors are the least for which the lengths of the
  segments go wrong. `router_lookup` uses bytes of eight bits and the list as shipped.
- Time is abstract: a timer may fire at any moment after it was armed.

## 5. Fairness

Weak fairness is assumed of the steps of goroutines that are able to run and of armed
timers: the Go scheduler runs them, and a channel operation that stays possible is
done. It is stated per goroutine where the branches of a `select` compete, so that no
branch is forced, and per packet where every packet has goroutines of its own.
Nothing is assumed of the network (a reply may be lost), of cancellations, clients,
faults or breaks. Beyond the scheduler:

- `tracker`: a consumer keeps receiving from RecvEvC, as the two pingers do. In
  `agent_parts`, `scanner`, `tcp` and `request` that consumer is part of the model, and
  it is the one behind the last channel that always reads, until it cancels.
- `agent_parts`: the ticker of the pool goes on while the pool runs, and destinations
  read until their context is cancelled. The fairness of a part applies while that part
  is the one that runs. Of the pinger only the goroutines, the rest of `handleTimeout` and
  the shutdown of the tracker are fair; no reply, timer or cancellation has to come.
- `hub`: `Dial` is strongly fair, because a connection key is a fresh uuid in the code
  while the two keys of the instance may both be taken for a moment. The gc timer is
  fair for a connection that is broken or that its agent has left: nothing resets it any
  more. A crashed agent need not come back, and no fault has to happen.
- `request`: no fairness of `AgentWrites`; a ping may take for ever to produce events,
  but closes its channel when its context is done. TCPSYNPinger is the exception that
  the run `tcp_error` shows.
- `console`: the event loop serves a timer that is due (`LaunchStream`, `DNSLaunch`,
  `DNSSpinnerTimer`, `HTTPTick`) and a read that has data (`HTTPRead`). Nothing is
  assumed of the hub, the network or the user: an answer may never come.

## 6. Theorems

Proved with TLAPS for every value of the constants that satisfies the assumptions.

| Module | Theorem | Property | Argument |
|---|---|---|---|
| `ICMPTrackerProofs` | `TrackerTypeCorrect` | `TrackerTypeOK` | inductive as it stands |
| | `TrackerVerdictIsFinal`, `TrackerSentIsAccounted`, `TrackerAckedSeqExact`, `TrackerCountersExact` | `VerdictIsFinal`, and the two halves and the whole of `CountersExact` | `VerdictInv`: at most one event is being emitted, and `PacketInv(s)` ties entry, timer, waiter, senders and cleanups of one packet to the events that were generated for it. Each action either generates one event of one packet (`AddsEvent`) or none (`SameGenerated`) |
| | `TrackerDeliversOnce` | – | `OnceInv`: an event is with the goroutine that sends it, with the owner, at one place of the buffer or delivered (`OnePlace`); the replies of a packet are recorded one after the other (`RepliesInOrder`) |
| `AgentPartsProofs`: sliding window | `LimitAlwaysHolds`, `AcceptedStayInOrder` | `LimitHolds`, `AcceptedInOrder` | `WindowInv`: the list installed is a suffix of the accepted history that contains all of the window (`EntryOK`), and a list about to be installed is one for the entry it was read from (`FreshOK`), unless that entry is gone, when compare-and-swap fails |
| | `RejectionIsJustified` | `RejectionJustified` | `WindowInv` again: a list that looks full when it may be out of date (`FreshOK`) is still part of what was accepted, so the window that ends now really holds the limit (`FullWindow`) |
| `AgentPartsProofs`: token pool | `EmissionIsBounded`, `PoolTypeCorrect` | `EmissionBound`, `PoolTypeOK` | `PoolInv`: tokens plus grants are the quota, up to the limiters that were refused; emitted items are grants of this period or were in hand at the refresh. Cardinalities of sets of limiters by program counter |
| | `NothingIsLost` | `NothingLost` | `StreamInv`: fed = arrived + in the hands of limiter and forwarder, until a cancellation |
| `AgentPartsProofs`: ICMP pinger | `PingerStaysWithinCount`, `PingerCompleteAtEnd` | `WithinCount`, `CompleteAtEnd` of `SimplePinger` | under `MaxReplies = 1`. `Lockstep`: after r events exactly the packets 1..r are reported, and packet r + 1 is to be requested, being requested or sent. So after an event every packet sent has a verdict, and by the invariants of the tracker GetUnAcked is 0 and GetAckedSeq is r (`CountersAfterEvent`): the comparison with the count is made at every event and never missed, until the tracker is gone, when nothing is marked sent any more (`WithinInv`) |
| `BlockScannerProofs` | `ScannerTypeCorrect` | `ScannerTypeOK` | `ScannerInv`: where the main goroutine is bounds what it has counted (`MainInv`) |
| | `ScannerCloseIsLast` | `CloseIsLast` | under `MaxReplies = 1`. Every step of the scanner is one of `TrackerNext`, so the invariants of the tracker hold inside it; each packet has one event, and until a cancellation inFlightPktWg and the pings counted add up to the pings added (`LedgerInv`), even when an event is counted before its ping. At zero, every ping has been forwarded |
| `HubRegistrationProofs` | `HubTypeCorrect`, `NoGhostEntries`, `HeartbeatAfterRegistration`, `OneWebSocketWorks` | `HubTypeOK`, `EntryHasHandler`, `BeatingIsRegistered`, `OneLiveWebSocket` | `HubInv`: ownership of keys (`Wired`, `LiveIsUsed`), what may be in an inbox (`QuietBeforeRegister`, `EchoesFollow`, `UnreadBeforeOpen`) and the stage of a registration (`Stage`) |
| `TCPPingerProofs` | `TCPTypeCorrect` | `TCPTypeOK` | needs that Send is in progress while its SYN is marked (`SendInProgress`) |
| | `TCPOneVerdict` | `OneVerdict` | `VerdictInv`: a stored packet is unreported (`StoredIsOpen`) and events are in one place (`EventsArePlaced`) |
| | `TCPEntriesExpire` | `EntriesExpireWhenDue` | `DueInv`: of the packets a port was given to, the store has the last one (`NewestStored`), and the guard of a stored packet is still to be handled (`EntryExpires`); so a guard that is handled finds its own packet, or a later one that inherited the port (`LossIsDue`) |
| `PingTaskProofs` | `TaskTypeCorrect` | `TaskTypeOK` | inductive as it stands |
| | `DeliveredOrderCorrect` | `DeliveredInOrder` | `OrderInv`: read from the client back to the agent, the places of a stream hold consecutive numbers (`EventsInOrder`), or one error took the place of everything (`OneError`); a stream not yet requested is empty (`Fresh`) |
| | `TaskCompleteAtEnd` | `CompleteAtEnd` | `EndInv`: for every stream what was written and what is on its way add up to what the agent sent and the errors of the hub (`Conserved`), a stream ends behind its events (`Stages`), and the response ends when all dispatched streams have (`DoneAfterStreams`) |
| | `TaskEveryPairAnswered` | `EveryPairAnswered` | `CoverInv`: every node the dispatch loop has passed is absent, or each of its targets was refused or belongs to a stream that was dispatched (`Covered`); with `EndInv` such a stream has written something |
| `ConsoleProofs`: ping and traceroute panels | `PanelTypes`, `ServedIsAccounted` | `SamplePanelsTypeOK`, `OpenIsFollowedOrEarly` | `PanelInv`: what is open is live (`OpenIsLive`), what is live is followed or was told to stop (`LiveAreKnown`), a panel that is paused, gone or about to launch follows nothing (`IdleFollowsNone`). A step begins to follow, reads a line, gives up or is quiet, with one lemma each |
| | `FeedIsImplemented` | `PanelsImplementFeed` | the same invariant, and each of the four kinds of steps is a `Follow`, `Show`, `Stop` or a stutter of `SampleFeed`; the first needs that a number not fetched has sent nothing (`NewAreUntouched`), a traceroute that its live table is empty before the first stream and behind the frozen one (`KindInv`, `FrozenWhilePaused`) |
| `ConsoleProofs`: all four panels | `ProbeTypes`, `ListStaysSound`, `AnswersAreForward` | `ProbePanelsTypeOK`, `ListIsSound`, `AnswersGoForward` | `ProbeInv`: of the three kinds of panel state two are at rest. A live DNS stream is the newest and followed, or was given up before its answer (`DNSInv`); an HTTP loop that goes on is that of the current reader or was caught in a read (`LoopsAreKnown`), and a list has only rows of those, each once |
| | `ServedByAnyIsAccounted`, `AnyPanelImplementsFeed` | `OpenIsFollowedOrEarly`, `PanelsImplementFeed` | of the specification the run checks, with DNS and HTTP panels beside the other two |
| `ConsoleProofs`: task form | `TasksAreRunnable`, `TasksMatchInputs` | `LaunchedIsRunnable`, `DerivedMatchesInputs` | `TaskInv`: the options fit the type in the form, in the form that Add Task took and in the tasks; what the open dialog shows is derived from its own inputs, and no edit is possible behind it. `ExpandedForm` and `AcceptedForm` are what Add Task and the dialog guarantee |
| `ConsoleProofs`: provider queries | `OwnEntriesAreShown`, `RunningMeansRead` | `ShowsOwnEntries`, `RunningIsRead` | `QueryInv`: the streams belong to the query of the open panel (`OnlyOwnStreams`); a provider is read by one stream at most, and that stream and the cursor stand right behind the entries taken (`StreamFollows`, `PagesCount`); running is being read, or a page aborted by another's Load More (`RouteInv`); an IP stream runs for the providers it has not mentioned yet (`IPInv`) |
| `ConsoleDataProofs`: transforms | `CutsNeverShow` | `CutsDoNotShow` | `LineInv`: what `Cut` gives for a text cut in two is what it gives for the first part, followed by what it gives for the rest kept and the second part. Its lines end at the line feeds of the text (`LinesOf`), so they are those of the body |
| `ConsoleDataProofs`: ping | `PanelAlwaysShowsSamples` | `PanelShowsSamples` | `TableInv`: the cell of a pair holds the samples of the pair, newest first (`IsCellOf`), and what is shown is read off the cells. The markers placed for a history have distinct places, each with the latency of the last sample of the walk (`MarkersFollow`) |
| `ConsoleDataProofs`: traceroute | `TableAlwaysOfEvents` | `TableIsThatOfEvents` | `TraceInv`: the statistics of a peer are those of the events at its positions (`PeerFits`: counts, RTTs, name), the peers of a hop those of the positions that count for it (`CountedIn`), which an event of a last hop empties for the hops behind it; the order of hops and peers has each once. Table, markers and path are then read off this state |
| `ConsoleDataProofs`: labels | `FieldAlwaysLabelled` | `FieldIsLabelled` | `ClassifyInv`: the lists hold descriptors. Two addresses give the same masked value exactly if they have the same bits, so the way of an address reaches the node of a route exactly if they agree in the bits read down to it. The segments of at most two lengths add up to these lengths, and each route is put at its own (`TwoAreExact`); with more, a route is put no deeper than its length, so one that covers the address is still on its way (`CoveringIsReached`) |

Assumptions are the `ASSUME`s of the modules: that bounds are natural numbers, that the
model values are different, that `KeyOf` maps into `Keys`, that a query names a provider
once (`ProviderQueriesConstants`) and so on; for the computed parts of the console, that
no source is called "" (`SourcesAreNamed`), a sample without a reply has no RTT
(`RepliesHaveRTTs`), the fields of a traceroute event are numbers and booleans
(`EventsAreTracked`), an address is a sequence of bytes of at least one bit and a prefix no
longer than its address (`AddressesHaveBytes`). TLC evaluates them in the runs. Three theorems
have a hypothesis more: `PingerStaysWithinCount`, `PingerCompleteAtEnd` and
`ScannerCloseIsLast` hold while the network brings at most one reply to a packet
(`MaxReplies = 1`). It cannot be dropped: `pinger_count` shows what two replies do to the
pinger, and with `MaxReplies = 2` in `MCBlockScanner.cfg` TLC finds the scanner closing
its output with a ping outstanding. Losing and reordering replies is covered, and so are
socket errors and cancellation.

The proofs of a component that uses the tracker rest on those of the tracker. Each step of
the scanner or the pinger is a step of `TrackerNext` or leaves the tracker alone
(`ScannerUsesTracker`, `PingerUsesTracker`), so its invariants hold inside; the end of
`ICMPTrackerProofs` says what a user may rely on: what a call changes, when an event is
delivered, and that the tracker stops only when it is told to (`TrackerStepKeeps`).

The parts of the console that compute something from a list (`ConsoleDataProofs`) need
induction over the list. The induction theorems of the library take an operator as a
parameter, which the provers cannot instantiate; the proofs use least elements instead
(`LeastElement`): the lengths for which a claim about a recursive function fails are a set
of natural numbers, and if it is not empty its least element contradicts the step from the
length before. This is why loops, filters and folds are written as recursive functions of
a length or a text (`Only`, `Cut`, `Shifted`, …), and the sort by the number of
elements that come first (`SortedBy`). What each computes is a lemma beside
it, and the properties follow from the lemmas for lists of any length.

Every invariant of a passing run is stated by a theorem, and every action property that is
not liveness. Only model-checked is *liveness* (`EverySentIsSettled`, `ScanEnds`,
`CancelEndsPing`, `EveryStreamEnds`, `PingEnds`, `BrokenIsRemoved`, `AgentComesBack`,
`LeavingStopsAgents`, `RunningLaunches`): TLAPS does not reason about ENABLED, and so not
about fairness. The runs that end in a violation are TLC's as well, by their nature.

## 7. Abstractions

Packets, addresses, nodes and events are model values or numbers; payloads,
formatting, JSON, logs, names and IP information are left out. An error is its kind.
Not modelled inside modelled components: TTL generators, PMTU and the rate limiter in
front of the ICMP pinger; `Run` and `Close` of the transceivers; the argument checks of
`pingCIDR` and the range checks of the handlers, which are one nondeterministic choice;
`Len`, `Keys`, `Dump` and `Close` of the map. The HTTP middleware of the sliding window
calls Consume once per request and is not a step of its own.

In the console: an attribute of a traceroute event that follows the rule of another (the
last that is not empty) is that other one; a latency, sequence number or TTL of 0 stands
for an absent one; a typed list is a sequence of words with blanks or without. A render
and its effects belong to the task that caused them. Not modelled inside modelled
components: MSS, the columns of AS and place and the drawing of the map of a ping panel;
tabs, headings and the printed report of a traceroute; the filter of the HTTP event list;
fields of the form that nothing checks (record type, headers, HTTP version and the like);
orientation, tabs and summary numbers of the query panels; mock data.

### Not modelled

Drawing and layout (`components/worldmap.tsx`, reports as canvases, cards, headings) is
computed from inputs and keeps nothing; its correctness is what it looks like. The login
page makes one request. Terminal UI, e-mail worker, MCP tools and command line turn an
input into one request each. The rest is on the plan.

## 8. Plan

Written so far, in this order: tracker, sliding window, transceiver with scanner and
pinger, token pool, registration, TCP, ping task; panels of the console with their
abstract feed, transforms, statistics and tables, task form, provider queries, labels.
Next:

1. *Pure algorithms* of the agent and the tools, with reference definitions: AutoTTL and
   RangeTTL (`pinger/request.go:373-469`), longest-prefix match (`routing/routing.go`), the
   dimensions of the heat map (`bitmap/bitmap.go`), members of a prefix and offsets
   (`utils/get_member_addrs.go`, `utils/offset.go`), subset tests (`utils/addr.go`).
2. *HTTP and DNS probes of the agent*: the logger channel, dialling goroutines that
   outlive the request, redirects, the body loop.
3. *IP information cache* and *conversation manager*: atomic sections and lost updates.
4. *RPC over RabbitMQ*: caller, responder, external broker.
5. *Login*: visitor ticket, OIDC redirect with nonce, session, token, log-out.
6. *Abstract specifications*: "a probe gets one verdict" for both trackers, "a lossy
   FIFO that may be cut off" for a stream of `PingTask`, "a counter per period" for the
   token pool, "an event list of one reader" for the HTTP panel, with refinement mappings.
7. *Theorems*: the refinements of item 6, from the inductive invariants there are.

A property that is implied by a refinement gives way to it, and a type invariant that is
proved leaves the runs.
