---------------------------- MODULE ConsoleProofs ---------------------------
(***************************************************************************)
(* TLAPS proofs about the console's form that creates tasks, for any task  *)
(* types, agents, inputs and number of tasks; about the panels that ask    *)
(* several providers, for any providers, entries, page size and streams;   *)
(* and about the panels that show live streams, for any number of streams, *)
(* events and pairs: first those of ping and traceroute tasks              *)
(* (SamplePanels), then those of DNS and HTTP tasks, and with them all     *)
(* four kinds (ProbePanels).                                               *)
(*                                                                         *)
(* The argument for the form: Add Task works on a form of its own, and     *)
(* only when it is done the dialog opens; from then on nothing edits the   *)
(* form, so what the dialog looks at is what was derived.  For the panels  *)
(* with providers: a provider is read by one stream at most, and both that *)
(* stream and the cursor stand right behind the entries that are shown.    *)
(*                                                                         *)
(* For the live panels: a live stream is the one that is followed or was   *)
(* told to stop; a panel that is paused, removed or about to launch        *)
(* follows none; and a stream that was not asked for has sent nothing, so  *)
(* that a panel that begins to follow one has none of its rows.  For DNS:  *)
(* the stream that is followed is always the newest, and every other one   *)
(* that is still live was given up before its answer arrived.  For HTTP: a *)
(* loop that is neither over nor that of the current reader was caught in  *)
(* a read, and what is listed comes from the one or the other.             *)
(***************************************************************************)
EXTENDS TaskCreator, ProviderQueries, ProbePanels, SequenceTheorems, TLAPS

\* What the dialog has let through.
Runnable(t) ==
  /\ t.sources # {}
  /\ t.type # "route" => EffectiveTargets(t) # 0
  /\ t.type = "traceroute" => ~(EffectiveTargets(t) > 1)
  /\ OptionsFit(t)
  /\ Derived(t)

\* The fields that forms have.
FormFields ==
  {"type", "sources", "taskId", "targetsInput", "domainsInput", "resolversInput",
   "routeQueryTgt", "targets", "dnsTargets", "httpTargets", "preferV4", "preferV6",
   "useUDP", "pmtu"}

IsForm(f) == f = [x \in FormFields |-> f[x]]

TaskInv ==
  /\ IsForm(form) /\ IsForm(adding.form)
  /\ adding = [on |-> adding.on, form |-> adding.form]
  /\ OptionsFit(form)
  /\ adding.on => OptionsFit(adding.form)
  /\ dialog => ~adding.on /\ Derived(form)
  /\ \A t \in tasks : Runnable(t)

----------------------------------------------------------------------------

LEMMA ExpandedForm ==
  ASSUME NEW f, NEW id, IsForm(f), OptionsFit(f)
  PROVE  /\ IsForm(ExpandTask(f, id))
         /\ OptionsFit(ExpandTask(f, id))
         /\ Derived(ExpandTask(f, id))
<1> DEFINE e == ExpandTask(f, id)
<1> DEFINE dns == DNSTargets(ParseList(f.domainsInput), ParseList(f.resolversInput))
<1> DEFINE list == ParseList(f.targetsInput)
<1>1. e = [[[f EXCEPT !.targets = list, !.taskId = id] EXCEPT !.dnsTargets = dns]
             EXCEPT !.httpTargets = list]
  BY DEF ExpandTask, ExpandHTTPProbes, ExpandDNSProbeTask, IsForm, FormFields
<1> HIDE DEF e, dns, list
<1>2. /\ IsForm(e)
      /\ e.targets = list /\ e.httpTargets = list /\ e.dnsTargets = dns
      /\ e.targetsInput = f.targetsInput
      /\ e.domainsInput = f.domainsInput /\ e.resolversInput = f.resolversInput
      /\ e.type = f.type /\ e.useUDP = f.useUDP /\ e.pmtu = f.pmtu
      /\ e.preferV4 = f.preferV4 /\ e.preferV6 = f.preferV6
  BY <1>1 DEF IsForm, FormFields
<1>3. OptionsFit(e)
  BY <1>2 DEF OptionsFit
<1>4. Derived(e)
  BY <1>2 DEF Derived, dns, list
<1> QED
  BY <1>2, <1>3, <1>4 DEF e

\* The dialog accepts runnable forms only.
LEMMA AcceptedForm ==
  ASSUME NEW f, Derived(f), OptionsFit(f), Accepts(f)
  PROVE  Runnable(f)
<1>1. f.sources # {} /\ NumValidTargets(f) # 0
  BY DEF Accepts
<1>2. f.httpTargets = f.targets
  BY DEF Derived
<1>3. f.type # "route" => EffectiveTargets(f) # 0
  BY <1>1, <1>2 DEF EffectiveTargets, NumValidTargets
<1>4. f.type = "traceroute" => ~(EffectiveTargets(f) > 1)
  BY DEF Accepts, EffectiveTargets
<1> QED
  BY <1>1, <1>3, <1>4 DEF Runnable

----------------------------------------------------------------------------
(* The invariant.                                                          *)

LEMMA InitialForm == IsForm(NewForm) /\ OptionsFit(NewForm)
  BY DEF NewForm, IsForm, FormFields, OptionsFit

LEMMA TaskInvInit == TaskInit => TaskInv
  BY InitialForm DEF TaskInit, TaskInv, NotAdding

\* An edit that keeps the options in order keeps the invariant.
LEMMA EditKeepsInv ==
  ASSUME TaskInv, NEW f, Edit(f), IsForm(f), OptionsFit(f)
  PROVE  TaskInv'
<1>1. form' = f /\ adding' = adding /\ tasks' = tasks /\ ~dialog'
  BY DEF Edit
<1>2. IsForm(form)' /\ OptionsFit(form)'
  BY <1>1 DEF IsForm, OptionsFit
<1>3. IsForm(adding.form)' /\ (adding.on => OptionsFit(adding.form))'
  BY <1>1 DEF TaskInv, IsForm, OptionsFit
<1>4. (\A t \in tasks : Runnable(t))'
  BY <1>1 DEF TaskInv
<1>5. adding' = [on |-> adding'.on, form |-> adding'.form]
  BY <1>1 DEF TaskInv
<1> QED
  BY <1>1, <1>2, <1>3, <1>4, <1>5 DEF TaskInv

\* Every edit of the form keeps the options in order.
LEMMA EditsFit ==
  ASSUME TaskInv, FormEdited
  PROVE  \E f : Edit(f) /\ IsForm(f) /\ OptionsFit(f)
<1> USE DEF IsForm, FormFields, OptionsFit
<1>0. IsForm(form) /\ OptionsFit(form)
  BY DEF TaskInv
<1>1. ASSUME NEW type \in TaskTypes, ChooseType(type)
      PROVE  \E f : Edit(f) /\ IsForm(f) /\ OptionsFit(f)
  <2> DEFINE f == [form EXCEPT !.type = type,
                               !.pmtu = IF type \in {"ping", "tcpping"} THEN FALSE ELSE @,
                               !.useUDP = IF type = "tcpping" THEN FALSE ELSE @]
  <2>1. Edit(f)
    BY <1>1 DEF ChooseType
  <2>2. IsForm(f) /\ OptionsFit(f)
    BY <1>0
  <2> QED
    BY <2>1, <2>2
<1>2. ASSUME NEW words \in ListInputs,
             TypeTargets(words) \/ TypeURLs(words) \/ TypeIPs(words)
      PROVE  \E f : Edit(f) /\ IsForm(f) /\ OptionsFit(f)
  <2> DEFINE f == [form EXCEPT !.targetsInput = words]
  <2>1. Edit(f)
    BY <1>2 DEF TypeTargets, TypeURLs, TypeIPs, TargetsTyped
  <2>2. IsForm(f) /\ OptionsFit(f)
    BY <1>0
  <2> QED
    BY <2>1, <2>2
<1>3. ASSUME NEW domains \in ListInputs, NEW resolvers \in ListInputs,
             TypeDNSPlan(domains, resolvers)
      PROVE  \E f : Edit(f) /\ IsForm(f) /\ OptionsFit(f)
  <2> DEFINE f == [form EXCEPT !.domainsInput = domains, !.resolversInput = resolvers]
  <2>1. Edit(f)
    BY <1>3 DEF TypeDNSPlan
  <2>2. IsForm(f) /\ OptionsFit(f)
    BY <1>0
  <2> QED
    BY <2>1, <2>2
<1>4. ASSUME NEW words \in RouteInputs, TypeRouteQuery(words)
      PROVE  \E f : Edit(f) /\ IsForm(f) /\ OptionsFit(f)
  <2> DEFINE f == [form EXCEPT !.routeQueryTgt = words]
  <2>1. Edit(f)
    BY <1>4 DEF TypeRouteQuery
  <2>2. IsForm(f) /\ OptionsFit(f)
    BY <1>0
  <2> QED
    BY <2>1, <2>2
<1>5. ASSUME NEW on \in BOOLEAN, PreferV4(on)
      PROVE  \E f : Edit(f) /\ IsForm(f) /\ OptionsFit(f)
  <2> DEFINE f == [form EXCEPT !.preferV4 = on, !.preferV6 = IF on THEN FALSE ELSE @]
  <2>1. Edit(f)
    BY <1>5 DEF PreferV4
  <2>2. IsForm(f) /\ OptionsFit(f)
    BY <1>0
  <2> QED
    BY <2>1, <2>2
<1>6. ASSUME NEW on \in BOOLEAN, PreferV6(on)
      PROVE  \E f : Edit(f) /\ IsForm(f) /\ OptionsFit(f)
  <2> DEFINE f == [form EXCEPT !.preferV6 = on, !.preferV4 = IF on THEN FALSE ELSE @]
  <2>1. Edit(f)
    BY <1>6 DEF PreferV6
  <2>2. IsForm(f) /\ OptionsFit(f)
    BY <1>0
  <2> QED
    BY <2>1, <2>2
<1>7. ASSUME NEW on \in BOOLEAN, UseUDP(on)
      PROVE  \E f : Edit(f) /\ IsForm(f) /\ OptionsFit(f)
  <2> DEFINE f == [form EXCEPT !.useUDP = on]
  <2>1. Edit(f) /\ form.type # "tcpping"
    BY <1>7 DEF UseUDP
  <2>2. IsForm(f) /\ OptionsFit(f)
    BY <1>0, <2>1
  <2> QED
    BY <2>1, <2>2
<1>8. ASSUME NEW on \in BOOLEAN, PMTU(on)
      PROVE  \E f : Edit(f) /\ IsForm(f) /\ OptionsFit(f)
  <2> DEFINE f == [form EXCEPT !.pmtu = on]
  <2>1. Edit(f) /\ form.type = "traceroute"
    BY <1>8 DEF PMTU
  <2>2. IsForm(f) /\ OptionsFit(f)
    BY <1>0, <2>1
  <2> QED
    BY <2>1, <2>2
<1>9. ASSUME NEW o \in Agents \cup Providers, Select(o)
      PROVE  \E f : Edit(f) /\ IsForm(f) /\ OptionsFit(f)
  <2> DEFINE marked == form.sources \cap options
             chosen == IF o \in marked THEN marked \ {o} ELSE marked \cup {o}
             f == [form EXCEPT !.sources = chosen]
  <2>1. Edit(f)
    BY <1>9 DEF Select
  <2> HIDE DEF chosen
  <2>2. IsForm(f) /\ OptionsFit(f)
    BY <1>0
  <2> QED
    BY <2>1, <2>2
<1> HIDE DEF IsForm, FormFields, OptionsFit
<1> QED
  BY <1>1, <1>2, <1>3, <1>4, <1>5, <1>6, <1>7, <1>8, <1>9 DEF FormEdited

LEMMA TaskInvNext == TaskInv /\ [TaskNext]_taskVars => TaskInv'
<1> SUFFICES ASSUME TaskInv, [TaskNext]_taskVars PROVE TaskInv'
  OBVIOUS
<1>1. ASSUME \E f : Edit(f) /\ IsForm(f) /\ OptionsFit(f) PROVE TaskInv'
  BY <1>1, EditKeepsInv
<1>2. ASSUME UNCHANGED <<form, adding, dialog, tasks>> PROVE TaskInv'
  BY <1>2 DEF TaskInv, IsForm, OptionsFit, Derived
<1>3. ASSUME AddTask PROVE TaskInv'
  <2>1. /\ form' = form /\ tasks' = tasks /\ ~dialog'
        /\ adding' = [on |-> TRUE, form |-> form]
    BY <1>3 DEF AddTask
  <2>2. adding'.form = form /\ adding'.on = TRUE
    BY <2>1
  <2> QED
    BY <2>1, <2>2 DEF TaskInv, IsForm, OptionsFit
<1>4. ASSUME NEW id \in TaskIds, Expanded(id) PROVE TaskInv'
  <2>1. /\ adding.on /\ form' = ExpandTask(adding.form, id)
        /\ adding' = NotAdding /\ tasks' = tasks
    BY <1>4 DEF Expanded
  <2>2. IsForm(adding.form) /\ OptionsFit(adding.form)
    BY <2>1 DEF TaskInv
  <2>3. IsForm(form') /\ OptionsFit(form') /\ Derived(form')
    BY <2>1, <2>2, ExpandedForm
  <2>4. adding'.form = NewForm /\ adding'.on = FALSE
    BY <2>1 DEF NotAdding
  <2>5. IsForm(adding'.form) /\ adding' = [on |-> adding'.on, form |-> adding'.form]
    BY <2>1, <2>4, InitialForm DEF NotAdding
  <2> QED
    BY <2>1, <2>3, <2>4, <2>5 DEF TaskInv
<1>5. ASSUME Confirm PROVE TaskInv'
  <2>1. /\ dialog /\ Accepts(form)
        /\ form' = form /\ adding' = adding /\ ~dialog' /\ tasks' = tasks \cup {form}
    BY <1>5 DEF Confirm
  <2>2. Runnable(form)
    BY <2>1, AcceptedForm DEF TaskInv
  <2>3. \A t \in tasks' : Runnable(t)
    BY <2>1, <2>2 DEF TaskInv
  <2> QED
    BY <2>1, <2>3 DEF TaskInv
<1>6. ASSUME CancelDialog PROVE TaskInv'
  <2>1. form' = form /\ adding' = adding /\ ~dialog' /\ tasks' = tasks
    BY <1>6 DEF CancelDialog
  <2> QED
    BY <2>1 DEF TaskInv
<1>7. ASSUME NEW id \in TaskIds, DeleteTask(id) PROVE TaskInv'
  <2>1. /\ form' = form /\ adding' = adding /\ dialog' = dialog
        /\ \A t \in tasks' : t \in tasks
    BY <1>7 DEF DeleteTask
  <2> QED
    BY <2>1 DEF TaskInv
<1>8. CASE UNCHANGED taskVars
  BY <1>2, <1>8 DEF taskVars
<1>9. CASE TaskNext
  <2>1. CASE OpenSelector \/ \E filter \in SUBSET Filters : OptionsArrive(filter)
    BY <1>2, <2>1 DEF OpenSelector, OptionsArrive
  <2> QED
    BY <1>1, <1>3, <1>4, <1>5, <1>6, <1>7, <1>9, <2>1, EditsFit DEF TaskNext
<1> QED
  BY <1>8, <1>9

LEMMA TaskInvHolds == TaskSpec => []TaskInv
  BY TaskInvInit, TaskInvNext, PTL DEF TaskSpec

----------------------------------------------------------------------------
(* Theorems.                                                               *)

\* Whatever is typed, chosen and confirmed in whatever order, every task the
\* page runs (app/page.tsx) has a source, something to probe unless it is a
\* route task, one target if it is a traceroute, and options that fit its type.
THEOREM TasksAreRunnable == TaskSpec => []LaunchedIsRunnable
<1>1. TaskInv => LaunchedIsRunnable
  BY DEF TaskInv, Runnable, LaunchedIsRunnable
<1> QED
  BY <1>1, TaskInvHolds, PTL

\* Add Task (components/TaskCreatorPanel.tsx) derives the targets from the form
\* it took and puts both back together: no edit made meanwhile mixes with them.
THEOREM TasksMatchInputs == TaskSpec => []DerivedMatchesInputs
<1>1. TaskInv => DerivedMatchesInputs
  BY DEF TaskInv, Runnable, DerivedMatchesInputs
<1> QED
  BY <1>1, TaskInvHolds, PTL

----------------------------------------------------------------------------
(* The panels that ask several providers.                                  *)

StreamRec ==
  [prov : ProviderSet \cup {"all"}, from : Nat, next : Nat,
   phase : {"fetching", "reading", "over"}, heard : SUBSET ProviderSet]

StateOf(E) == [entries : Seq(E), running : BOOLEAN, error : BOOLEAN, cursor : Nat]

Answer == [ip : QueriedIPs, failed : BOOLEAN]

ReadBy(p) == \E s \in DOMAIN streams : QueryLive(s) /\ streams[s].prov = p

\* Entries taken from a provider since the query was made.
Taken(p) == Len(pages[p]) + Len(providerMap[p].entries)

\* The entries of the earlier pages, and those of the page after them.
PagesCount(p) == \A i \in 1..Len(pages[p]) : pages[p][i] = i

PageFollows(p) ==
  \A i \in 1..Len(providerMap[p].entries) :
    providerMap[p].entries[i] = Len(pages[p]) + i

\* A stream goes on behind what was taken, and has given no cursor before its
\* last line when only that line carries one.
StreamFollows(s) ==
  LET st == streams[s]
  IN /\ st.prov \in DOMAIN providerMap
     /\ st.next = Taken(st.prov) + 1
     /\ cursors = "page" /\ st.next <= PageEnd(st) =>
          providerMap[st.prov].cursor = NoCursor

CursorFollows(p) ==
  providerMap[p].cursor # NoCursor => providerMap[p].cursor = Taken(p) + 1

RouteTyped ==
  providerMap \in [ProviderSet -> StateOf(Nat)] \/ DOMAIN providerMap = {}

OneStreamEach ==
  \A s, t \in DOMAIN streams :
    QueryLive(s) /\ QueryLive(t) /\ streams[s].prov = streams[t].prov => s = t

RunningFollows ==
  panel = "yes" =>
    \A p \in DOMAIN providerMap :
      providerMap[p].running <=> ReadBy(p) \/ p \in preempted

RouteInv ==
  /\ RouteTyped
  /\ \A s \in DOMAIN streams : QueryLive(s) => StreamFollows(s)
  /\ OneStreamEach
  /\ \A p \in ProviderSet : PagesCount(p)
  /\ \A p \in DOMAIN providerMap : PageFollows(p) /\ CursorFollows(p)
  /\ \A p \in preempted : ~ReadBy(p)
  /\ RunningFollows

\* What a panel of an IP task knows of a provider that has answered.
Heard(p) == providerMap[p].entries # <<>>

IPInv ==
  /\ providerMap \in [ProviderSet -> StateOf(Answer)] \/ DOMAIN providerMap = {}
  /\ \A s \in DOMAIN streams :
       QueryLive(s) => /\ DOMAIN providerMap = ProviderSet
                       /\ streams[s].prov = "all"
                       /\ streams[s].heard = {p \in ProviderSet : Heard(p)}
  /\ \A s, t \in DOMAIN streams : QueryLive(s) /\ QueryLive(t) => s = t
  /\ \A p \in DOMAIN providerMap : ~Heard(p) => providerMap[p].running
  /\ panel = "yes" =>
       \A p \in DOMAIN providerMap :
         Heard(p) => (providerMap[p].running <=> ReadBy("all"))

QueryTyped ==
  /\ asks \in {"route", "ip"} /\ cursors \in {"line", "page"}
  /\ panel \in {"no", "yes", "gone"}
  /\ streams \in Seq(StreamRec)
  /\ pages \in [ProviderSet -> Seq(Nat)]
  /\ preempted \subseteq ProviderSet

QueryInv ==
  /\ QueryTyped
  /\ OnlyOwnStreams
  /\ panel = "no" => /\ streams = <<>> /\ DOMAIN providerMap = {} /\ preempted = {}
                     /\ pages = [p \in ProviderSet |-> <<>>]
  /\ asks = "route" => RouteInv
  /\ asks = "ip" => IPInv

\* What is known of the streams and of the map of a route panel.
LEMMA StreamsTyped ==
  ASSUME QueryTyped
  PROVE  /\ Len(streams) \in Nat /\ DOMAIN streams = 1..Len(streams)
         /\ \A s \in DOMAIN streams :
              /\ streams[s] \in StreamRec /\ streams[s].from \in Nat /\ streams[s].next \in Nat
              /\ PageEnd(streams[s]) \in Int
  <1>1. /\ Len(streams) \in Nat /\ DOMAIN streams = 1..Len(streams)
        /\ streams \in [1..Len(streams) -> StreamRec]
    BY LenProperties DEF QueryTyped
  <1>2. ASSUME NEW s \in DOMAIN streams
        PROVE  /\ streams[s] \in StreamRec /\ streams[s].from \in Nat
               /\ streams[s].next \in Nat
    <2>1. streams[s] \in StreamRec BY <1>1
    <2> QED BY <2>1 DEF StreamRec
  <1>3. \A st \in StreamRec : PageEnd(st) \in Int
    BY ProviderQueriesConstants DEF PageEnd, StreamRec
  <1> QED BY <1>1, <1>2, <1>3

LEMMA RouteMapTyped ==
  ASSUME QueryTyped, RouteInv
  PROVE  /\ \A p \in ProviderSet : pages[p] \in Seq(Nat) /\ Len(pages[p]) \in Nat
         /\ \A p \in DOMAIN providerMap :
              /\ p \in ProviderSet /\ p # "all"
              /\ providerMap \in [ProviderSet -> StateOf(Nat)]
              /\ providerMap[p] \in StateOf(Nat)
              /\ providerMap[p].entries \in Seq(Nat) /\ Len(providerMap[p].entries) \in Nat
              /\ providerMap[p].cursor \in Nat /\ providerMap[p].running \in BOOLEAN
              /\ Taken(p) \in Nat
<1>1. \A p \in ProviderSet : pages[p] \in Seq(Nat) /\ Len(pages[p]) \in Nat
  BY LenProperties DEF QueryTyped
<1>2. ASSUME NEW p \in DOMAIN providerMap
      PROVE  /\ p \in ProviderSet /\ p # "all"
             /\ providerMap \in [ProviderSet -> StateOf(Nat)]
             /\ providerMap[p] \in StateOf(Nat)
             /\ providerMap[p].entries \in Seq(Nat) /\ Len(providerMap[p].entries) \in Nat
             /\ providerMap[p].cursor \in Nat /\ providerMap[p].running \in BOOLEAN
             /\ Taken(p) \in Nat
  <2>1. providerMap \in [ProviderSet -> StateOf(Nat)] BY <1>2 DEF RouteInv, RouteTyped
  <2>2. p \in ProviderSet /\ p # "all" BY <2>1, <1>2, ProviderQueriesConstants
  <2>3. providerMap[p] \in StateOf(Nat) BY <2>1, <2>2
  <2>4. /\ providerMap[p].entries \in Seq(Nat) /\ providerMap[p].cursor \in Nat
        /\ providerMap[p].running \in BOOLEAN
    BY <2>3 DEF StateOf
  <2>5. Len(providerMap[p].entries) \in Nat BY <2>4, LenProperties
  <2>6. Len(pages[p]) \in Nat BY <1>1, <2>2
  <2>7. \A m, n \in Nat : m + n \in Nat OBVIOUS
  <2>8. Taken(p) \in Nat BY ONLY <2>5, <2>6, <2>7 DEF Taken
  <2> QED BY <2>1, <2>2, <2>3, <2>4, <2>5, <2>8
<1> QED BY <1>1, <1>2

\* A stream that is aborted is over, and no other changes.
LEMMA AbortKeeps ==
  ASSUME QueryTyped, NEW given
  PROVE  /\ Aborted(streams, given) \in Seq(StreamRec)
         /\ Len(Aborted(streams, given)) = Len(streams)
         /\ \A s \in DOMAIN streams :
              /\ s \in given => Aborted(streams, given)[s].phase = "over"
              /\ s \notin given => Aborted(streams, given)[s] = streams[s]
<1> DEFINE kept == Aborted(streams, given)
<1>1. /\ Len(streams) \in Nat /\ DOMAIN streams = 1..Len(streams)
      /\ \A s \in DOMAIN streams : streams[s] \in StreamRec
  BY StreamsTyped
<1>2. \A st \in StreamRec : Over(st) \in StreamRec /\ Over(st).phase = "over"
  BY DEF Over, StreamRec
<1>3. kept = [s \in 1..Len(streams) |-> IF s \in given THEN Over(streams[s]) ELSE streams[s]]
  BY <1>1 DEF Aborted
<1>4. kept \in [1..Len(streams) -> StreamRec] BY <1>1, <1>2, <1>3
<1>5. kept \in Seq(StreamRec) BY <1>1, <1>4, SeqDef
<1>6. Len(kept) = Len(streams) BY <1>1, <1>4, <1>5, LenProperties
<1> QED BY <1>1, <1>2, <1>3, <1>5, <1>6

\* One stream changes.
LEMMA StreamGoesKeeps ==
  ASSUME QueryTyped, NEW s \in DOMAIN streams, NEW change \in StreamRec,
         StreamGoes(s, change)
  PROVE  /\ QueryTyped' /\ DOMAIN streams' = DOMAIN streams
         /\ streams'[s] = change
         /\ \A t \in DOMAIN streams : t # s => streams'[t] = streams[t]
<1>1. /\ streams' = [streams EXCEPT ![s] = change]
      /\ UNCHANGED <<asks, hasQuery, cursors, panel, pages, mains, more, preempted>>
  BY DEF StreamGoes
<1>2. /\ Len(streams) \in Nat /\ DOMAIN streams = 1..Len(streams)
      /\ streams \in [1..Len(streams) -> StreamRec]
  BY StreamsTyped, LenProperties DEF QueryTyped
<1>3. streams' \in [1..Len(streams) -> StreamRec] BY <1>1, <1>2
<1>4. streams' \in Seq(StreamRec) BY <1>2, <1>3, SeqDef
<1> QED BY <1>1, <1>2, <1>3, <1>4 DEF QueryTyped

\* What a line, an end or an answer does to a route panel: one stream, and the
\* state of the provider it reads, change together.
LEMMA RouteStreamKeeps ==
  ASSUME QueryTyped, RouteInv, OnlyOwnStreams,
         NEW s \in DOMAIN streams, QueryLive(s), NEW p, p = streams[s].prov,
         NEW change \in StreamRec, StreamGoes(s, change),
         NEW state \in StateOf(Nat), SetState(p, state),
         change.prov = p,
         \/ /\ change.phase # "over"
            /\ state.running = providerMap[p].running
            /\ change.next = Len(pages[p]) + Len(state.entries) + 1
            /\ cursors = "page" /\ change.next <= PageEnd(change) => state.cursor = NoCursor
         \/ change.phase = "over" /\ state.running = FALSE,
         state.cursor # NoCursor =>
           state.cursor = Len(pages[p]) + Len(state.entries) + 1,
         \A i \in 1..Len(state.entries) :
           state.entries[i] = Len(pages[p]) + i
  PROVE  QueryTyped' /\ RouteInv' /\ OnlyOwnStreams'
<1>1. /\ p \in DOMAIN providerMap /\ p \in ProviderSet
      /\ providerMap \in [ProviderSet -> StateOf(Nat)]
  BY RouteMapTyped DEF RouteInv, StreamFollows
<1>2. /\ QueryTyped' /\ DOMAIN streams' = DOMAIN streams /\ streams'[s] = change
      /\ \A t \in DOMAIN streams : t # s => streams'[t] = streams[t]
      /\ UNCHANGED <<asks, cursors, panel, pages, mains, more, preempted>>
  BY StreamGoesKeeps DEF StreamGoes
<1>3. /\ providerMap' \in [ProviderSet -> StateOf(Nat)]
      /\ DOMAIN providerMap' = DOMAIN providerMap
      /\ providerMap'[p] = state
      /\ \A q \in DOMAIN providerMap : q # p => providerMap'[q] = providerMap[q]
  BY <1>1 DEF SetState
<1>4. \A t \in DOMAIN streams : t # s => (QueryLive(t)' <=> QueryLive(t))
  BY <1>2 DEF QueryLive
<1>5. QueryLive(s)' <=> change.phase # "over"
  BY <1>2 DEF QueryLive, StreamRec
<1>6. \A t \in DOMAIN streams : QueryLive(t) /\ t # s => streams[t].prov # p
  BY DEF RouteInv, OneStreamEach
<1>7. \A q : q # p => (ReadBy(q)' <=> ReadBy(q))
  BY <1>2, <1>4 DEF ReadBy
<1>8. ReadBy(p) /\ (ReadBy(p)' <=> change.phase # "over")
  BY <1>2, <1>4, <1>5, <1>6 DEF ReadBy
<1>9. \A q \in DOMAIN providerMap : q # p => Taken(q)' = Taken(q)
  BY <1>2, <1>3 DEF Taken
<1>10. Taken(p)' = Len(pages[p]) + Len(state.entries)
  BY <1>2, <1>3 DEF Taken
<1>11. ASSUME NEW t \in DOMAIN streams, QueryLive(t)' PROVE StreamFollows(t)'
  <2>1. CASE t = s
    <3>1. change.prov = p /\ streams'[t] = change BY <1>2, <2>1
    <3>2. /\ change.next = Taken(p)' + 1
          /\ cursors = "page" /\ change.next <= PageEnd(change) =>
               providerMap'[p].cursor = NoCursor
      BY <1>3, <1>5, <1>10, <1>11, <2>1
    <3> QED BY <1>1, <1>2, <1>3, <3>1, <3>2 DEF StreamFollows, PageEnd
  <2>2. CASE t # s
    <3>1. QueryLive(t) /\ StreamFollows(t) /\ streams[t].prov # p
      BY <1>4, <1>6, <1>11, <2>2 DEF RouteInv
    <3> QED BY <1>2, <1>3, <1>9, <2>2, <3>1 DEF StreamFollows, PageEnd
  <2> QED BY <2>1, <2>2
<1>12. OneStreamEach'
  BY <1>2, <1>4 DEF RouteInv, OneStreamEach
<1>13. \A q \in ProviderSet : PagesCount(q)'
  BY <1>2 DEF RouteInv, PagesCount
<1>14. ASSUME NEW q \in DOMAIN providerMap PROVE PageFollows(q)' /\ CursorFollows(q)'
  <2>1. CASE q = p
    BY <1>2, <1>3, <1>10, <2>1 DEF PageFollows, CursorFollows
  <2>2. CASE q # p
    <3>1. PageFollows(q) /\ CursorFollows(q) BY DEF RouteInv
    <3> QED BY <1>2, <1>3, <1>9, <2>2, <3>1 DEF PageFollows, CursorFollows
  <2> QED BY <2>1, <2>2
<1>15. \A q \in preempted' : ~ReadBy(q)'
  BY <1>2, <1>7, <1>8 DEF RouteInv
<1>16. RunningFollows'
  <2>1. p \notin preempted BY <1>8 DEF RouteInv
  <2> SUFFICES ASSUME panel = "yes", NEW q \in DOMAIN providerMap
               PROVE  providerMap'[q].running <=> ReadBy(q)' \/ q \in preempted
    BY <1>2, <1>3 DEF RunningFollows
  <2>2. providerMap[q].running <=> ReadBy(q) \/ q \in preempted
    BY DEF RouteInv, RunningFollows
  <2>3. CASE q = p
    <3>1. change.phase # "over" => state.running = providerMap[p].running OBVIOUS
    <3>2. change.phase = "over" => state.running = FALSE OBVIOUS
    <3> QED BY <1>3, <1>8, <2>1, <2>2, <2>3, <3>1, <3>2
  <2>4. CASE q # p BY <1>3, <1>7, <2>2, <2>4
  <2> QED BY <2>3, <2>4
<1>17. OnlyOwnStreams'
  BY <1>2, <1>4 DEF OnlyOwnStreams
<1> QED
  BY <1>2, <1>3, <1>11, <1>12, <1>13, <1>14, <1>15, <1>16, <1>17
  DEF RouteInv, RouteTyped

\* What is live has been asked for by an open panel, for a provider of the query.
LEMMA LiveIsAsked ==
  ASSUME QueryInv, NEW s \in DOMAIN streams
  PROVE  panel # "no" /\ streams[s] \in StreamRec
<1>1. DOMAIN streams = 1..Len(streams) /\ streams[s] \in StreamRec
  BY StreamsTyped DEF QueryInv
<1>2. streams # <<>> BY EmptySeq, <1>1 DEF QueryInv, QueryTyped
<1> QED BY <1>1, <1>2 DEF QueryInv

LEMMA RouteLineKeeps ==
  ASSUME QueryInv, NEW s \in DOMAIN streams, RouteLine(s)
  PROVE  QueryInv'
<1> DEFINE st == streams[s]
           p == st.prov
           cur == providerMap[p]
           cursor == IF CursorOf(st) = NoCursor THEN cur.cursor ELSE CursorOf(st)
           state == [cur EXCEPT !.entries = Append(cur.entries, st.next), !.cursor = cursor]
           change == [st EXCEPT !.next = st.next + 1]
<1>1. /\ asks = "route" /\ QueryLive(s) /\ st.phase = "reading" /\ st.next <= PageEnd(st)
      /\ SetState(p, state) /\ StreamGoes(s, change)
  BY DEF RouteLine
<1>2. /\ QueryTyped /\ RouteInv /\ OnlyOwnStreams /\ panel # "no" /\ st \in StreamRec
  BY <1>1, LiveIsAsked DEF QueryInv
<1>3. /\ st.next = Taken(p) + 1 /\ p \in DOMAIN providerMap
      /\ cursors = "page" => cur.cursor = NoCursor
  BY <1>1, <1>2 DEF RouteInv, StreamFollows
<1>4. /\ cur \in StateOf(Nat) /\ cur.entries \in Seq(Nat) /\ Len(cur.entries) \in Nat
      /\ cur.cursor \in Nat /\ Len(pages[p]) \in Nat
  BY <1>2, <1>3, RouteMapTyped
<1>5. st.next \in Nat /\ PageEnd(st) \in Int BY <1>2, StreamsTyped
<1>6. /\ change \in StreamRec /\ change.prov = p /\ change.phase # "over"
      /\ change.next = st.next + 1 /\ change.from = st.from
  BY <1>1, <1>2, <1>5 DEF StreamRec
<1>7. CursorOf(st) \in {NoCursor, st.next + 1} /\ NoCursor \in Nat
  BY DEF CursorOf, NoCursor
<1>8. cursor \in Nat BY <1>4, <1>5, <1>7
<1>9. /\ Append(cur.entries, st.next) \in Seq(Nat)
      /\ Len(Append(cur.entries, st.next)) = Len(cur.entries) + 1
      /\ \A i \in 1..Len(cur.entries) : Append(cur.entries, st.next)[i] = cur.entries[i]
      /\ Append(cur.entries, st.next)[Len(cur.entries) + 1] = st.next
  BY <1>4, <1>5, AppendProperties
<1>10. /\ state \in StateOf(Nat) /\ state.running = cur.running
       /\ state.entries = Append(cur.entries, st.next) /\ state.cursor = cursor
  BY <1>4, <1>8, <1>9 DEF StateOf
<1> HIDE DEF state, change
<1>11. st.next = Len(pages[p]) + Len(state.entries)
  <2>1. st.next = Len(pages[p]) + Len(cur.entries) + 1 BY <1>3 DEF Taken
  <2>2. Len(state.entries) = Len(cur.entries) + 1 BY <1>9, <1>10
  <2>3. \A a, b, c \in Nat : a + b + 1 = a + (b + 1) OBVIOUS
  <2> QED BY <1>4, <2>1, <2>2, <2>3
<1>12. state.cursor # NoCursor => state.cursor = Len(pages[p]) + Len(state.entries) + 1
  <2>1. CASE CursorOf(st) # NoCursor BY <1>7, <1>10, <1>11, <2>1
  <2>2. CASE CursorOf(st) = NoCursor
    <3>1. cursors # "line" BY <1>5, <2>2 DEF CursorOf, NoCursor
    <3>2. cur.cursor = NoCursor BY <1>2, <1>3, <3>1 DEF QueryTyped
    <3> QED BY <1>10, <2>2, <3>2
  <2> QED BY <2>1, <2>2
<1>13. cursors = "page" /\ change.next <= PageEnd(change) => state.cursor = NoCursor
  <2> SUFFICES ASSUME cursors = "page", change.next <= PageEnd(change)
               PROVE  state.cursor = NoCursor
    OBVIOUS
  <2>1. PageEnd(change) = PageEnd(st) BY <1>6 DEF PageEnd
  <2>2. st.next # PageEnd(st) BY <1>5, <1>6, <2>1
  <2>3. CursorOf(st) = NoCursor BY <2>2 DEF CursorOf
  <2> QED BY <1>3, <1>10, <2>3
<1>14. \A i \in 1..Len(state.entries) : state.entries[i] = Len(pages[p]) + i
  <2> SUFFICES ASSUME NEW i \in 1..Len(state.entries)
               PROVE  state.entries[i] = Len(pages[p]) + i
    OBVIOUS
  <2>1. \A j \in 1..Len(cur.entries) : cur.entries[j] = Len(pages[p]) + j
    BY <1>2, <1>3 DEF RouteInv, PageFollows
  <2>2. i \in 1..Len(cur.entries) \/ i = Len(state.entries) BY <1>4, <1>9, <1>10
  <2>3. i = Len(state.entries) => state.entries[i] = st.next BY <1>9, <1>10
  <2> QED BY <1>9, <1>10, <1>11, <2>1, <2>2, <2>3
<1>15. change.next = Len(pages[p]) + Len(state.entries) + 1 BY <1>6, <1>11
<1>16. QueryTyped' /\ RouteInv' /\ OnlyOwnStreams'
  BY <1>1, <1>2, <1>6, <1>10, <1>12, <1>13, <1>14, <1>15, RouteStreamKeeps
<1> QED BY <1>1, <1>2, <1>16 DEF QueryInv, StreamGoes

\* An answer, a line with an error, and the two ends of a stream.
LEMMA RouteOtherKeeps ==
  ASSUME QueryInv, asks = "route", NEW s \in DOMAIN streams,
         \/ QueryAnswered(s) \/ RouteErrorLine(s) \/ RouteDone(s) \/ RouteBroken(s)
  PROVE  QueryInv'
<1> DEFINE st == streams[s]
           p == st.prov
           cur == providerMap[p]
<1>1. QueryLive(s)
  BY DEF QueryAnswered, RouteErrorLine, RouteDone, RouteBroken
<1>2. /\ QueryTyped /\ RouteInv /\ OnlyOwnStreams /\ panel # "no" /\ st \in StreamRec
  BY LiveIsAsked DEF QueryInv
<1>3. /\ st.next = Taken(p) + 1 /\ p \in DOMAIN providerMap
      /\ cursors = "page" /\ st.next <= PageEnd(st) => cur.cursor = NoCursor
      /\ \A i \in 1..Len(cur.entries) : cur.entries[i] = Len(pages[p]) + i
      /\ cur.cursor # NoCursor => cur.cursor = Taken(p) + 1
  BY <1>1, <1>2 DEF RouteInv, StreamFollows, PageFollows, CursorFollows
<1>4. /\ cur \in StateOf(Nat) /\ providerMap \in [ProviderSet -> StateOf(Nat)]
      /\ st.from \in Nat
  BY <1>2, <1>3, RouteMapTyped, StreamsTyped
<1>5. Taken(p) = Len(pages[p]) + Len(cur.entries) BY DEF Taken
<1>6. ASSUME NEW change \in StreamRec, StreamGoes(s, change),
             NEW state \in StateOf(Nat), SetState(p, state),
             state.entries = cur.entries, state.cursor = cur.cursor,
             change.prov = p, change.from = st.from,
             \/ /\ change.phase # "over" /\ state.running = cur.running
                /\ change.next = st.next
             \/ change.phase = "over" /\ state.running = FALSE
      PROVE  QueryInv'
  <2>1. PageEnd(change) = PageEnd(st) BY <1>6 DEF PageEnd
  <2>2. QueryTyped' /\ RouteInv' /\ OnlyOwnStreams'
    BY <1>1, <1>2, <1>3, <1>5, <1>6, <2>1, RouteStreamKeeps
  <2> QED BY <1>2, <1>6, <2>2 DEF QueryInv, StreamGoes
<1>7. CASE QueryAnswered(s)
  <2> DEFINE change == [st EXCEPT !.phase = "reading"]
  <2>1. /\ change \in StreamRec /\ change.prov = p /\ change.from = st.from
        /\ change.phase = "reading" /\ change.next = st.next
    BY <1>2 DEF StreamRec
  <2>2. StreamGoes(s, change) /\ providerMap' = providerMap BY <1>7 DEF QueryAnswered
  <2>3. SetState(p, cur) BY <1>4, <2>2 DEF SetState
  <2> HIDE DEF change
  <2> QED BY <1>4, <1>6, <2>1, <2>2, <2>3
<1>8. CASE RouteErrorLine(s)
  <2> DEFINE state == [cur EXCEPT !.error = TRUE]
  <2>1. /\ state \in StateOf(Nat) /\ state.entries = cur.entries
        /\ state.cursor = cur.cursor /\ state.running = cur.running
    BY <1>4 DEF StateOf
  <2>2. SetState(p, state) /\ StreamGoes(s, st) /\ st.phase = "reading"
    BY <1>8 DEF RouteErrorLine
  <2> HIDE DEF state
  <2> QED BY <1>2, <1>6, <2>1, <2>2
<1>9. CASE RouteDone(s) \/ RouteBroken(s)
  <2>1. /\ Over(st) \in StreamRec /\ Over(st).prov = p /\ Over(st).from = st.from
        /\ Over(st).phase = "over"
    BY <1>2 DEF Over, StreamRec
  <2>2. StreamGoes(s, Over(st)) BY <1>9 DEF RouteDone, RouteBroken
  <2>3. CASE RouteDone(s)
    <3> DEFINE state == [cur EXCEPT !.running = FALSE]
    <3>1. /\ state \in StateOf(Nat) /\ state.entries = cur.entries
          /\ state.cursor = cur.cursor /\ state.running = FALSE
      BY <1>4 DEF StateOf
    <3>2. SetState(p, state) BY <2>3 DEF RouteDone
    <3> HIDE DEF state
    <3> QED BY <1>6, <2>1, <2>2, <3>1, <3>2
  <2>4. CASE RouteBroken(s)
    <3> DEFINE state == [cur EXCEPT !.running = FALSE,
                                    !.error = cur.error \/ st.phase = "fetching"]
    <3>1. /\ state \in StateOf(Nat) /\ state.entries = cur.entries
          /\ state.cursor = cur.cursor /\ state.running = FALSE
      BY <1>4 DEF StateOf
    <3>2. SetState(p, state) BY <2>4 DEF RouteBroken
    <3> HIDE DEF state
    <3> QED BY <1>6, <2>1, <2>2, <3>1, <3>2
  <2> QED BY <1>9, <2>3, <2>4
<1> QED BY <1>7, <1>8, <1>9

LEMMA NewAreTyped ==
  /\ \A E : NewState \in StateOf(E)
  /\ NewState.entries = <<>> /\ Len(<<>>) = 0 /\ DOMAIN <<>> = {}
  /\ NewState.running = TRUE /\ NewState.cursor = NoCursor
  /\ \A p \in ProviderSet \cup {"all"}, from \in Nat :
       /\ NewStream(p, from) \in StreamRec
       /\ NewStream(p, from).prov = p /\ NewStream(p, from).phase = "fetching"
       /\ NewStream(p, from).next = from /\ NewStream(p, from).from = from
       /\ NewStream(p, from).heard = {}
<1>1. Len(<<>>) = 0 /\ \A E : <<>> \in Seq(E) BY EmptySeq
<1>2. DOMAIN <<>> = {} BY <1>1, LenProperties
<1>3. \A E : NewState \in StateOf(E) BY <1>1 DEF NewState, StateOf, NoCursor
<1>4. NewState.entries = <<>> /\ NewState.running = TRUE /\ NewState.cursor = NoCursor
  BY DEF NewState
<1>5. \A p \in ProviderSet \cup {"all"}, from \in Nat :
        /\ NewStream(p, from) \in StreamRec
        /\ NewStream(p, from).prov = p /\ NewStream(p, from).phase = "fetching"
        /\ NewStream(p, from).next = from /\ NewStream(p, from).from = from
        /\ NewStream(p, from).heard = {}
  BY DEF NewStream, StreamRec
<1> QED BY <1>1, <1>2, <1>3, <1>4, <1>5

\* The streams an effect starts: one for each provider, or one for all.
LEMMA FirstStreamsTyped ==
  /\ FirstStreams \in Seq(StreamRec)
  /\ \A i \in 1..Len(FirstStreams) :
       /\ FirstStreams[i].next = 1 /\ FirstStreams[i].heard = {}
       /\ FirstStreams[i].phase = "fetching"
  /\ asks = "route" =>
       /\ \A i, j \in 1..Len(FirstStreams) :
            FirstStreams[i].prov = FirstStreams[j].prov => i = j
       /\ \A i \in 1..Len(FirstStreams) : FirstStreams[i].prov \in ProviderSet
       /\ \A p \in ProviderSet : \E i \in 1..Len(FirstStreams) : FirstStreams[i].prov = p
  /\ asks = "ip" => Len(FirstStreams) = 1 /\ FirstStreams[1].prov = "all"
<1>1. CASE asks = "ip"
  <2>1. FirstStreams = <<NewStream("all", 1)>> BY <1>1 DEF FirstStreams
  <2>2. NewStream("all", 1) \in StreamRec BY NewAreTyped
  <2>3. FirstStreams \in Seq(StreamRec) /\ Len(FirstStreams) = 1
        /\ FirstStreams[1] = NewStream("all", 1)
    BY <2>1, <2>2
  <2>4. /\ NewStream("all", 1).next = 1 /\ NewStream("all", 1).heard = {}
        /\ NewStream("all", 1).phase = "fetching" /\ NewStream("all", 1).prov = "all"
    BY NewAreTyped
  <2> QED BY <1>1, <2>3, <2>4
<1>2. CASE asks # "ip"
  <2>1. /\ FirstStreams = [i \in 1..Len(QueryProviders) |-> NewStream(QueryProviders[i], 1)]
        /\ Len(QueryProviders) \in Nat /\ DOMAIN QueryProviders = 1..Len(QueryProviders)
        /\ \A i \in 1..Len(QueryProviders) : QueryProviders[i] \in ProviderSet
    BY <1>2, ProviderQueriesConstants, LenProperties DEF FirstStreams
  <2>2. \A i \in 1..Len(QueryProviders) : NewStream(QueryProviders[i], 1) \in StreamRec
    BY <2>1, NewAreTyped
  <2>3. FirstStreams \in [1..Len(QueryProviders) -> StreamRec] BY <2>1, <2>2
  <2>4. FirstStreams \in Seq(StreamRec) BY <2>1, <2>3, SeqDef
  <2>5. Len(FirstStreams) = Len(QueryProviders) BY <2>1, <2>3, <2>4, LenProperties
  <2>6. \A i \in 1..Len(FirstStreams) :
          /\ FirstStreams[i].next = 1 /\ FirstStreams[i].heard = {}
          /\ FirstStreams[i].phase = "fetching" /\ FirstStreams[i].prov = QueryProviders[i]
    BY <2>1, <2>5, NewAreTyped
  <2>7. \A p \in ProviderSet : \E i \in 1..Len(QueryProviders) : QueryProviders[i] = p
    BY <2>1 DEF ProviderSet, ToSet
  <2>8. \A i, j \in 1..Len(QueryProviders) : QueryProviders[i] = QueryProviders[j] => i = j
    BY <2>1, ProviderQueriesConstants DEF IsInjective
  <2> QED BY <1>2, <2>1, <2>4, <2>5, <2>6, <2>7, <2>8
<1> QED BY <1>1, <1>2

\* The effect starts a query over when nothing of the one before is live.
LEMMA StartKeeps ==
  ASSUME QueryTyped, NEW kept \in Seq(StreamRec),
         \A s \in 1..Len(kept) : kept[s].phase = "over",
         StartQuery(kept), panel' = "yes", preempted' = {},
         pages' = [p \in ProviderSet |-> <<>>], UNCHANGED <<asks, hasQuery, cursors>>
  PROVE  QueryInv'
<1>1. /\ <<>> \in Seq(Nat) /\ Len(<<>>) = 0 /\ DOMAIN <<>> = {}
      /\ Len(kept) \in Nat /\ DOMAIN kept = 1..Len(kept)
  BY EmptySeq, NewAreTyped, LenProperties
<1>2. /\ pages' \in [ProviderSet -> Seq(Nat)]
      /\ \A p \in ProviderSet : pages'[p] = <<>> /\ PagesCount(p)'
  BY <1>1 DEF PagesCount
<1>3. CASE asks = "route" /\ ~hasQuery
  <2>1. providerMap' = <<>> /\ streams' = kept BY <1>3 DEF StartQuery
  <2>2. DOMAIN providerMap' = {} /\ \A s \in DOMAIN streams' : ~QueryLive(s)'
    BY <1>1, <2>1 DEF QueryLive
  <2>3. QueryTyped' BY <1>2, <2>1 DEF QueryTyped
  <2>4. RouteInv'
    BY <1>2, <2>2 DEF RouteInv, RouteTyped, OneStreamEach, RunningFollows
  <2>5. OnlyOwnStreams' BY <2>2 DEF OnlyOwnStreams
  <2> QED BY <1>3, <2>3, <2>4, <2>5 DEF QueryInv
<1>4. CASE ~(asks = "route" /\ ~hasQuery)
  <2> DEFINE k == Len(kept)
             f == Len(FirstStreams)
  <2>1. /\ providerMap' = [p \in ProviderSet |-> NewState]
        /\ streams' = kept \o FirstStreams /\ mains' = (k + 1)..(k + f)
    BY <1>4 DEF StartQuery
  <2>2. FirstStreams \in Seq(StreamRec) /\ f \in Nat
    BY FirstStreamsTyped, LenProperties
  <2>3. /\ streams' \in Seq(StreamRec) /\ Len(streams') = k + f
        /\ DOMAIN streams' = 1..(k + f)
        /\ \A s \in 1..(k + f) :
             streams'[s] = IF s <= k THEN kept[s] ELSE FirstStreams[s - k]
    BY <2>1, <2>2, ConcatProperties, LenProperties
  <2> HIDE DEF k, f
  <2>4. k \in Nat /\ \A s \in 1..(k + f) : s <= k => s \in 1..k BY <1>1 DEF k
  <2>5. \A s \in 1..k : kept[s].phase = "over" BY DEF k
  <2>6. \A s \in DOMAIN streams' :
          QueryLive(s)' => s \in (k + 1)..(k + f) /\ s - k \in 1..f
                           /\ streams'[s] = FirstStreams[s - k]
    <3> SUFFICES ASSUME NEW s \in 1..(k + f), streams'[s].phase # "over"
                 PROVE  s \in (k + 1)..(k + f) /\ s - k \in 1..f
                        /\ streams'[s] = FirstStreams[s - k]
      BY <2>3 DEF QueryLive
    <3>1. ~(s <= k) BY <2>3, <2>4, <2>5
    <3> QED BY <2>2, <2>3, <2>4, <3>1
  <2>7. \A i \in 1..f : /\ k + i \in DOMAIN streams' /\ streams'[k + i] = FirstStreams[i]
                        /\ QueryLive(k + i)'
    <3> SUFFICES ASSUME NEW i \in 1..f
                 PROVE  /\ k + i \in DOMAIN streams' /\ streams'[k + i] = FirstStreams[i]
                        /\ QueryLive(k + i)'
      OBVIOUS
    <3>1. k + i \in 1..(k + f) /\ ~(k + i <= k) /\ k + i - k = i BY <2>2, <2>4
    <3>2. streams'[k + i] = FirstStreams[i]
      <4>1. \A s \in 1..(k + f) : \A j :
              ~(s <= k) /\ s - k = j => streams'[s] = FirstStreams[j]
        BY <2>3
      <4> DEFINE s == k + i
      <4>2. s \in 1..(k + f) /\ ~(s <= k) /\ s - k = i BY <2>2, <2>4, <3>1
      <4> HIDE DEF s
      <4>3. streams'[s] = FirstStreams[i] BY <4>1, <4>2
      <4> QED BY <4>3 DEF s
    <3>3. FirstStreams[i].phase = "fetching" BY FirstStreamsTyped DEF f
    <3> QED BY <2>3, <3>1, <3>2, <3>3 DEF QueryLive
  <2>8. OnlyOwnStreams' BY <2>1, <2>6 DEF OnlyOwnStreams
  <2>9. QueryTyped' BY <1>2, <2>3 DEF QueryTyped
  <2>10. /\ DOMAIN providerMap' = ProviderSet
         /\ \A E : providerMap' \in [ProviderSet -> StateOf(E)]
         /\ \A p \in ProviderSet : /\ providerMap'[p] = NewState
                                   /\ providerMap'[p].entries = <<>>
                                   /\ providerMap'[p].running = TRUE
                                   /\ providerMap'[p].cursor = NoCursor
    BY <2>1, NewAreTyped
  <2>11. ASSUME asks = "route" PROVE RouteInv'
    <3>1. /\ \A i, j \in 1..f : FirstStreams[i].prov = FirstStreams[j].prov => i = j
          /\ \A i \in 1..f : FirstStreams[i].prov \in ProviderSet /\ FirstStreams[i].next = 1
          /\ \A p \in ProviderSet : \E i \in 1..f : FirstStreams[i].prov = p
      BY <2>11, FirstStreamsTyped DEF f
    <3>2. \A p \in ProviderSet : Taken(p)' = 0 BY <1>1, <1>2, <2>10 DEF Taken
    <3>3. ASSUME NEW s \in DOMAIN streams', QueryLive(s)' PROVE StreamFollows(s)'
      <4>1. /\ streams'[s].prov \in ProviderSet /\ streams'[s].next = 1
        BY <2>6, <3>1, <3>3
      <4> QED BY <2>10, <3>2, <4>1 DEF StreamFollows
    <3>4. OneStreamEach'
      <4> SUFFICES ASSUME NEW s \in DOMAIN streams', NEW t \in DOMAIN streams',
                          QueryLive(s)', QueryLive(t)', streams'[s].prov = streams'[t].prov
                   PROVE  s = t
        BY DEF OneStreamEach
      <4>1. s - k = t - k /\ s \in Int /\ t \in Int BY <2>3, <2>6, <3>1
      <4> QED BY <2>4, <4>1
    <3>5. \A p \in ProviderSet : PageFollows(p)' /\ CursorFollows(p)'
      BY <1>1, <2>10 DEF PageFollows, CursorFollows
    <3>6. \A p \in ProviderSet : ReadBy(p)' BY <2>7, <3>1 DEF ReadBy
    <3>7. RunningFollows' BY <2>10, <3>6 DEF RunningFollows
    <3> QED
      BY <1>2, <2>10, <3>3, <3>4, <3>5, <3>7 DEF RouteInv, RouteTyped
  <2>12. ASSUME asks = "ip" PROVE IPInv'
    <3>1. f = 1 /\ FirstStreams[1].prov = "all" /\ FirstStreams[1].heard = {}
      <4>1. f = 1 /\ FirstStreams[1].prov = "all" BY <2>12, FirstStreamsTyped DEF f
      <4>2. \A i \in 1..f : FirstStreams[i].heard = {} BY FirstStreamsTyped DEF f
      <4> QED BY <4>1, <4>2
    <3>2. \A s \in DOMAIN streams' :
            QueryLive(s)' => s = k + 1 /\ streams'[s].prov = "all" /\ streams'[s].heard = {}
      <4>1. \A i \in 1..f : i = 1 BY <3>1
      <4>2. \A s : s \in (k + 1)..(k + f) => s = k + 1 BY <2>4, <3>1
      <4> QED BY <2>6, <3>1, <4>1, <4>2
    <3>3. \A p \in ProviderSet : ~Heard(p)' BY <2>10 DEF Heard
    <3> QED BY <2>10, <3>2, <3>3 DEF IPInv
  <2> QED BY <2>8, <2>9, <2>11, <2>12 DEF QueryInv
<1> QED BY <1>3, <1>4

LEMMA ConcatCounts ==
  ASSUME NEW a \in Seq(Nat), NEW b \in Seq(Nat),
         \A i \in 1..Len(a) : a[i] = i, \A i \in 1..Len(b) : b[i] = Len(a) + i
  PROVE  \A i \in 1..Len(a \o b) : (a \o b)[i] = i
<1>1. Len(a) \in Nat /\ Len(b) \in Nat BY LenProperties
<1>2. /\ Len(a \o b) = Len(a) + Len(b)
      /\ \A i \in 1..(Len(a) + Len(b)) :
           (a \o b)[i] = IF i <= Len(a) THEN a[i] ELSE b[i - Len(a)]
  BY ConcatProperties
<1> SUFFICES ASSUME NEW i \in 1..(Len(a) + Len(b)) PROVE (a \o b)[i] = i
  BY <1>2
<1>3. CASE i <= Len(a) BY <1>1, <1>2, <1>3
<1>4. CASE ~(i <= Len(a))
  <2> DEFINE j == i - Len(a)
  <2>1. j \in 1..Len(b) /\ Len(a) + j = i BY <1>1, <1>4
  <2>2. (a \o b)[i] = b[j] BY <1>2, <1>4
  <2> HIDE DEF j
  <2> QED BY <2>1, <2>2
<1> QED BY <1>3, <1>4

\* The next page of a provider goes on where the cursor says, and aborts the
\* page that another provider may be loading.
LEMMA LoadMoreKeeps ==
  ASSUME QueryInv, NEW p \in ProviderSet, LoadMore(p)
  PROVE  QueryInv'
<1> DEFINE cur == providerMap[p]
           kept == Aborted(streams, {more})
           new == NewStream(p, cur.cursor)
<1>0. PICK n : n = Len(streams) OBVIOUS
<1>1. /\ panel = "yes" /\ asks = "route" /\ p \in DOMAIN providerMap
      /\ cur.cursor # NoCursor /\ ~cur.running
      /\ pages' = [pages EXCEPT ![p] = pages[p] \o cur.entries]
      /\ providerMap' = [providerMap EXCEPT ![p] = NewState]
      /\ streams' = Append(kept, new) /\ more' = n + 1
      /\ preempted' = IF QueryLive(more) THEN preempted \cup {streams[more].prov}
                      ELSE preempted
      /\ UNCHANGED <<asks, hasQuery, cursors, panel, mains>>
  BY <1>0 DEF LoadMore, LoadMoreShown, SetState
<1>2. QueryTyped /\ RouteInv /\ OnlyOwnStreams BY <1>1 DEF QueryInv
<1>3. /\ providerMap \in [ProviderSet -> StateOf(Nat)] /\ cur.entries \in Seq(Nat)
      /\ Len(cur.entries) \in Nat /\ cur.cursor \in Nat
      /\ pages[p] \in Seq(Nat) /\ Len(pages[p]) \in Nat
      /\ DOMAIN providerMap = ProviderSet
  BY <1>1, <1>2, RouteMapTyped
<1>4. cur.cursor = Taken(p) + 1 BY <1>1, <1>2 DEF RouteInv, CursorFollows
<1>5. /\ new \in StreamRec /\ new.prov = p /\ new.phase = "fetching"
      /\ new.next = Taken(p) + 1
  BY <1>3, <1>4, NewAreTyped
<1>6. /\ kept \in Seq(StreamRec) /\ Len(kept) = n /\ n \in Nat /\ DOMAIN streams = 1..n
      /\ \A s \in 1..n : /\ s = more => kept[s].phase = "over"
                         /\ s # more => kept[s] = streams[s]
  BY <1>0, <1>2, AbortKeeps, StreamsTyped
<1>7. /\ streams' \in Seq(StreamRec) /\ DOMAIN streams' = 1..(n + 1)
      /\ \A s \in 1..n : streams'[s] = kept[s]
      /\ streams'[n + 1] = new
  <2> HIDE DEF new, kept
  <2>1. /\ streams' \in Seq(StreamRec) /\ Len(streams') = Len(kept) + 1
        /\ \A s \in 1..Len(kept) : streams'[s] = kept[s]
        /\ streams'[Len(kept) + 1] = new
    BY <1>1, <1>5, <1>6, AppendProperties
  <2> QED BY <1>6, <2>1, LenProperties
<1> HIDE DEF new, kept
<1>a. /\ DOMAIN streams \subseteq DOMAIN streams' /\ n + 1 \in DOMAIN streams'
      /\ streams'[n + 1] = new
      /\ \A s \in DOMAIN streams' : s \in DOMAIN streams \/ s = n + 1
      /\ \A s \in DOMAIN streams : /\ s = more => streams'[s].phase = "over"
                                   /\ s # more => streams'[s] = streams[s]
  BY <1>6, <1>7
<1>8. \A s \in DOMAIN streams : /\ QueryLive(s)' <=> (QueryLive(s) /\ s # more)
                                /\ QueryLive(s)' => (streams'[s] = streams[s])
  BY <1>a DEF QueryLive
<1>9. QueryLive(n + 1)' /\ \A s \in DOMAIN streams' : s \in DOMAIN streams \/ s = n + 1
  BY <1>5, <1>a DEF QueryLive
<1>10. ~ReadBy(p) /\ p \notin preempted
  BY <1>1, <1>2 DEF RouteInv, RunningFollows
<1>11. \A s \in DOMAIN streams : QueryLive(s) => streams[s].prov # p
  BY <1>10 DEF ReadBy
<1>12. QueryLive(more) => more \in DOMAIN streams BY DEF QueryLive
<1>13. ASSUME NEW q, q # p
       PROVE  ReadBy(q)' <=> ReadBy(q) /\ ~(QueryLive(more) /\ streams[more].prov = q)
  <2>1. ReadBy(q)' => \E s \in DOMAIN streams : QueryLive(s) /\ s # more /\ streams[s].prov = q
    BY <1>5, <1>a, <1>8, <1>9, <1>13 DEF ReadBy
  <2>2. (\E s \in DOMAIN streams : QueryLive(s) /\ s # more /\ streams[s].prov = q) => ReadBy(q)'
    BY <1>a, <1>8 DEF ReadBy
  <2>3. ASSUME NEW s \in DOMAIN streams, QueryLive(s), streams[s].prov = q
        PROVE  s # more <=> ~(QueryLive(more) /\ streams[more].prov = q)
    BY <1>2, <1>12, <2>3 DEF RouteInv, OneStreamEach
  <2> QED BY <2>1, <2>2, <2>3 DEF ReadBy
<1>14. ReadBy(p)' BY <1>5, <1>a, <1>9 DEF ReadBy
<1>15. QueryLive(more) => streams[more].prov \in ProviderSet /\ streams[more].prov # p
  BY <1>2, <1>3, <1>11, <1>12 DEF RouteInv, StreamFollows
<1>16. /\ DOMAIN providerMap' = ProviderSet /\ providerMap' \in [ProviderSet -> StateOf(Nat)]
       /\ providerMap'[p].entries = <<>> /\ providerMap'[p].cursor = NoCursor
       /\ providerMap'[p].running = TRUE
       /\ \A q \in ProviderSet : q # p => providerMap'[q] = providerMap[q]
  BY <1>1, <1>3, NewAreTyped
<1>17. /\ pages' \in [ProviderSet -> Seq(Nat)] /\ pages'[p] = pages[p] \o cur.entries
       /\ \A q \in ProviderSet : q # p => pages'[q] = pages[q]
       /\ Len(pages'[p]) = Len(pages[p]) + Len(cur.entries)
  <2>1. pages \in [ProviderSet -> Seq(Nat)] BY <1>2 DEF QueryTyped
  <2>2. pages[p] \o cur.entries \in Seq(Nat) BY <1>3, ConcatProperties
  <2>3. Len(pages[p] \o cur.entries) = Len(pages[p]) + Len(cur.entries)
    BY <1>3, ConcatProperties
  <2> HIDE DEF cur
  <2> QED BY <1>1, <2>1, <2>2, <2>3
<1>18. PagesCount(p)'
  <2>1. /\ \A i \in 1..Len(pages[p]) : pages[p][i] = i
        /\ \A i \in 1..Len(cur.entries) : cur.entries[i] = Len(pages[p]) + i
    BY <1>1, <1>2 DEF RouteInv, PagesCount, PageFollows
  <2>2. \A i \in 1..Len(pages[p] \o cur.entries) : (pages[p] \o cur.entries)[i] = i
    BY <1>3, <2>1, ConcatCounts
  <2> QED BY <1>17, <2>2 DEF PagesCount
<1>19. Taken(p)' = Taken(p) /\ \A q \in ProviderSet : q # p => Taken(q)' = Taken(q)
  <2>1. \A a, b \in Nat : (a + b) + 0 = a + b OBVIOUS
  <2>2. Taken(p)' = (Len(pages[p]) + Len(cur.entries)) + 0
    BY <1>16, <1>17, NewAreTyped DEF Taken
  <2> QED BY <1>3, <1>16, <1>17, <2>1, <2>2 DEF Taken
<1>20. ASSUME NEW s \in DOMAIN streams', QueryLive(s)' PROVE StreamFollows(s)'
  <2>1. CASE s = n + 1
    BY <1>5, <1>a, <1>16, <1>19, <2>1 DEF StreamFollows
  <2>2. CASE s \in DOMAIN streams
    <3>1. QueryLive(s) /\ streams'[s] = streams[s] /\ StreamFollows(s) /\ streams[s].prov # p
      BY <1>2, <1>8, <1>11, <1>20, <2>2 DEF RouteInv
    <3> QED BY <1>1, <1>3, <1>16, <1>19, <3>1 DEF StreamFollows, PageEnd
  <2> QED BY <1>9, <2>1, <2>2
<1>21. OneStreamEach'
  <2> SUFFICES ASSUME NEW s \in DOMAIN streams', NEW t \in DOMAIN streams',
                      QueryLive(s)', QueryLive(t)', streams'[s].prov = streams'[t].prov
               PROVE  s = t
    BY DEF OneStreamEach
  <2>1. \A r \in DOMAIN streams : QueryLive(r)' => streams'[r].prov # p
    BY <1>8, <1>11
  <2>2. streams'[n + 1].prov = p BY <1>5, <1>a
  <2>3. CASE s \in DOMAIN streams /\ t \in DOMAIN streams
    BY <1>2, <1>8, <2>3 DEF RouteInv, OneStreamEach
  <2> QED BY <1>9, <2>1, <2>2, <2>3
<1>22. \A q \in ProviderSet : PagesCount(q)'
  BY <1>2, <1>17, <1>18 DEF RouteInv, PagesCount
<1>23. \A q \in ProviderSet : PageFollows(q)' /\ CursorFollows(q)'
  <2>1. PageFollows(p)' /\ CursorFollows(p)'
    BY <1>16, NewAreTyped DEF PageFollows, CursorFollows
  <2>2. ASSUME NEW q \in ProviderSet, q # p PROVE PageFollows(q)' /\ CursorFollows(q)'
    <3>1. PageFollows(q) /\ CursorFollows(q) BY <1>2, <1>3 DEF RouteInv
    <3>2. providerMap'[q] = providerMap[q] /\ pages'[q] = pages[q] /\ Taken(q)' = Taken(q)
      BY <1>16, <1>17, <1>19, <2>2
    <3> QED BY <3>1, <3>2 DEF PageFollows, CursorFollows
  <2> QED BY <2>1, <2>2
<1>24. preempted' \subseteq ProviderSet /\ \A q \in preempted' : q # p /\ ~ReadBy(q)'
  BY <1>1, <1>2, <1>10, <1>13, <1>15 DEF RouteInv, QueryTyped
<1>25. RunningFollows'
  <2> SUFFICES ASSUME NEW q \in ProviderSet
               PROVE  providerMap'[q].running <=> ReadBy(q)' \/ q \in preempted'
    BY <1>16 DEF RunningFollows
  <2>1. CASE q = p BY <1>14, <1>16, <2>1
  <2>2. CASE q # p
    <3>1. providerMap[q].running <=> ReadBy(q) \/ q \in preempted
      BY <1>1, <1>2, <1>3 DEF RouteInv, RunningFollows
    <3>2. QueryLive(more) /\ streams[more].prov = q => ReadBy(q)
      BY <1>12 DEF ReadBy
    <3> QED BY <1>1, <1>13, <1>16, <2>2, <3>1, <3>2
  <2> QED BY <2>1, <2>2
<1>26. RouteInv'
  BY <1>16, <1>20, <1>21, <1>22, <1>23, <1>24, <1>25 DEF RouteInv, RouteTyped
<1>27. OnlyOwnStreams'
  <2>1. ASSUME NEW s \in DOMAIN streams, QueryLive(s)' PROVE s \in mains
    BY <1>2, <1>8, <2>1 DEF OnlyOwnStreams
  <2> QED BY <1>1, <1>9, <2>1 DEF OnlyOwnStreams
<1>28. QueryTyped' BY <1>1, <1>2, <1>7, <1>17, <1>24 DEF QueryTyped
<1> QED BY <1>1, <1>26, <1>27, <1>28 DEF QueryInv

\* Closing the panel aborts the streams of its effect.
LEMMA ClosePanelKeeps ==
  ASSUME QueryInv, ClosePanel
  PROVE  QueryInv'
<1> DEFINE kept == Aborted(streams, mains)
<1>1. /\ panel = "yes" /\ panel' = "gone" /\ streams' = kept
      /\ UNCHANGED <<asks, hasQuery, cursors, providerMap, pages, mains, more, preempted>>
  BY DEF ClosePanel
<1>2. QueryTyped /\ OnlyOwnStreams BY DEF QueryInv
<1>3. /\ kept \in Seq(StreamRec) /\ DOMAIN kept = DOMAIN streams
      /\ \A s \in DOMAIN streams : /\ s \in mains => kept[s].phase = "over"
                                   /\ s \notin mains => kept[s] = streams[s]
  BY <1>2, AbortKeeps, StreamsTyped, LenProperties
<1> HIDE DEF kept
<1>4. \A s \in DOMAIN streams :
        QueryLive(s)' => QueryLive(s) /\ s \notin mains /\ streams'[s] = streams[s]
  BY <1>1, <1>3 DEF QueryLive
<1>5. DOMAIN streams' = DOMAIN streams BY <1>1, <1>3
<1>6. \A q : ReadBy(q)' => ReadBy(q) BY <1>4, <1>5 DEF ReadBy
<1>7. OnlyOwnStreams' BY <1>1, <1>2, <1>4, <1>5 DEF OnlyOwnStreams
<1>8. QueryTyped' BY <1>1, <1>2, <1>3 DEF QueryTyped
<1>9. ASSUME RouteInv PROVE RouteInv'
  <2>1. ASSUME NEW s \in DOMAIN streams', QueryLive(s)' PROVE StreamFollows(s)'
    <3>1. StreamFollows(s) /\ streams'[s] = streams[s]
      BY <1>4, <1>5, <1>9, <2>1 DEF RouteInv
    <3> QED BY <1>1, <3>1 DEF StreamFollows, Taken, PageEnd
  <2>2. OneStreamEach' BY <1>4, <1>5, <1>9 DEF RouteInv, OneStreamEach
  <2>3. \A q \in ProviderSet : PagesCount(q)' BY <1>1, <1>9 DEF RouteInv, PagesCount
  <2>4. \A q \in DOMAIN providerMap' : PageFollows(q)' /\ CursorFollows(q)'
    BY <1>1, <1>9 DEF RouteInv, PageFollows, CursorFollows, Taken
  <2>5. \A q \in preempted' : ~ReadBy(q)' BY <1>1, <1>6, <1>9 DEF RouteInv
  <2>6. RunningFollows' BY <1>1 DEF RunningFollows
  <2> QED BY <1>1, <1>9, <2>1, <2>2, <2>3, <2>4, <2>5, <2>6 DEF RouteInv, RouteTyped
<1>10. ASSUME IPInv PROVE IPInv'
  BY <1>1, <1>4, <1>5, <1>10 DEF IPInv, Heard
<1> QED BY <1>1, <1>7, <1>8, <1>9, <1>10 DEF QueryInv

----------------------------------------------------------------------------
(* A panel of an IP task.                                                  *)

LEMMA IPMapTyped ==
  ASSUME QueryTyped, IPInv
  PROVE  \A p \in DOMAIN providerMap :
           /\ p \in ProviderSet /\ providerMap \in [ProviderSet -> StateOf(Answer)]
           /\ providerMap[p] \in StateOf(Answer)
           /\ providerMap[p].entries \in Seq(Answer) /\ providerMap[p].running \in BOOLEAN
BY DEF IPInv, StateOf

\* A stream goes on: what it has heard is what is shown, and that is running.
LEMMA IPStreamKeeps ==
  ASSUME QueryInv, asks = "ip", NEW s \in DOMAIN streams, QueryLive(s),
         NEW change \in StreamRec, StreamGoes(s, change),
         change.prov = "all", change.heard = {p \in ProviderSet : Heard(p)'},
         change.phase # "over",
         providerMap' \in [ProviderSet -> StateOf(Answer)],
         \A p \in ProviderSet : providerMap'[p].running = providerMap[p].running
                                \/ (Heard(p)' /\ providerMap'[p].running = TRUE),
         \A p \in ProviderSet : Heard(p) => Heard(p)',
         \A p \in ProviderSet :
           Heard(p)' /\ ~Heard(p) => providerMap'[p].running = TRUE
  PROVE  QueryInv'
<1>1. QueryTyped /\ IPInv /\ OnlyOwnStreams /\ panel # "no" BY LiveIsAsked DEF QueryInv
<1>2. /\ QueryTyped' /\ DOMAIN streams' = DOMAIN streams /\ streams'[s] = change
      /\ \A t \in DOMAIN streams : t # s => streams'[t] = streams[t]
      /\ UNCHANGED <<asks, hasQuery, cursors, panel, pages, mains, more, preempted>>
  BY <1>1, StreamGoesKeeps DEF StreamGoes
<1>3. DOMAIN providerMap = ProviderSet /\ \A t \in DOMAIN streams : QueryLive(t) => s = t
  BY <1>1 DEF IPInv
<1>4. \A t \in DOMAIN streams : QueryLive(t)' => t = s
  BY <1>2, <1>3 DEF QueryLive
<1>5. QueryLive(s)' /\ streams[s].prov = "all" BY <1>1, <1>2 DEF QueryLive, StreamRec, IPInv
<1>6. ReadBy("all") /\ ReadBy("all")' BY <1>2, <1>5 DEF ReadBy
<1>7. /\ DOMAIN providerMap' = ProviderSet
      /\ \A p \in ProviderSet : ~Heard(p) => providerMap[p].running
  BY <1>1, <1>3 DEF IPInv
<1>8. panel = "yes" => \A p \in ProviderSet : Heard(p) => providerMap[p].running
  BY <1>1, <1>3, <1>6 DEF IPInv
<1>9. \A p \in ProviderSet : ~Heard(p)' => providerMap'[p].running
  BY <1>7
<1>10. panel = "yes" => \A p \in ProviderSet : Heard(p)' => providerMap'[p].running
  BY <1>8
<1>11. IPInv'
  BY <1>2, <1>4, <1>6, <1>7, <1>9, <1>10 DEF IPInv
<1>12. OnlyOwnStreams' BY <1>1, <1>2, <1>4 DEF OnlyOwnStreams
<1> QED BY <1>1, <1>2, <1>11, <1>12 DEF QueryInv

LEMMA IPLineKeeps ==
  ASSUME QueryInv, NEW s \in DOMAIN streams, NEW p \in ProviderSet, NEW ip \in QueriedIPs,
         IPLine(s, p, ip)
  PROVE  QueryInv'
<1> DEFINE st == streams[s]
           change == [st EXCEPT !.heard = st.heard \cup {p}]
<1>1. PICK failed \in BOOLEAN :
        providerMap' = [providerMap EXCEPT ![p] =
          [providerMap[p] EXCEPT !.entries = Append(providerMap[p].entries,
                                                    [ip |-> ip, failed |-> failed]),
             !.running = TRUE, !.error = providerMap[p].error \/ failed]]
  BY DEF IPLine, SetState
<1>2. /\ asks = "ip" /\ QueryLive(s) /\ st.phase = "reading" /\ StreamGoes(s, change)
  BY DEF IPLine
<1>3. QueryTyped /\ IPInv /\ st \in StreamRec BY <1>2, LiveIsAsked DEF QueryInv
<1>4. /\ DOMAIN providerMap = ProviderSet /\ st.prov = "all"
      /\ st.heard = {q \in ProviderSet : Heard(q)}
  BY <1>2, <1>3 DEF IPInv
<1>5. /\ providerMap \in [ProviderSet -> StateOf(Answer)]
      /\ providerMap[p] \in StateOf(Answer) /\ providerMap[p].entries \in Seq(Answer)
  BY <1>3, <1>4, IPMapTyped
<1> DEFINE more2 == Append(providerMap[p].entries, [ip |-> ip, failed |-> failed])
           new == [providerMap[p] EXCEPT !.entries = more2, !.running = TRUE,
                                         !.error = providerMap[p].error \/ failed]
<1>6. more2 \in Seq(Answer) /\ more2 # <<>>
  <2>1. [ip |-> ip, failed |-> failed] \in Answer BY DEF Answer
  <2> QED BY <1>5, <2>1, AppendProperties
<1> HIDE DEF more2
<1>7. new \in StateOf(Answer) /\ new.entries = more2 /\ new.running = TRUE
  BY <1>5, <1>6 DEF StateOf
<1>8. providerMap' = [providerMap EXCEPT ![p] = new] BY <1>1 DEF more2
<1> HIDE DEF new
<1>9. /\ providerMap' \in [ProviderSet -> StateOf(Answer)]
      /\ providerMap'[p] = new
      /\ \A q \in ProviderSet : q # p => providerMap'[q] = providerMap[q]
  BY <1>5, <1>7, <1>8
<1>10. Heard(p)' /\ \A q \in ProviderSet : q # p => (Heard(q)' <=> Heard(q))
  BY <1>6, <1>7, <1>9 DEF Heard
<1>11. change \in StreamRec /\ change.prov = "all" /\ change.phase = "reading"
       /\ change.heard = st.heard \cup {p}
  BY <1>2, <1>3, <1>4 DEF StreamRec
<1>12. st.heard \cup {p} = {q \in ProviderSet : Heard(q)'} BY <1>4, <1>10
<1> HIDE DEF change
<1>13. \A q \in ProviderSet : providerMap'[q].running = providerMap[q].running
                              \/ (Heard(q)' /\ providerMap'[q].running = TRUE)
  BY <1>7, <1>9, <1>10
<1> QED
  BY <1>2, <1>7, <1>9, <1>10, <1>11, <1>12, <1>13, IPStreamKeeps

LEMMA IPAnsweredKeeps ==
  ASSUME QueryInv, asks = "ip", NEW s \in DOMAIN streams, QueryAnswered(s)
  PROVE  QueryInv'
<1> DEFINE st == streams[s]
           change == [st EXCEPT !.phase = "reading"]
<1>1. QueryLive(s) /\ StreamGoes(s, change) /\ providerMap' = providerMap
  BY DEF QueryAnswered
<1>2. QueryTyped /\ IPInv /\ st \in StreamRec BY LiveIsAsked DEF QueryInv
<1>3. /\ DOMAIN providerMap = ProviderSet /\ st.prov = "all"
      /\ st.heard = {q \in ProviderSet : Heard(q)}
  BY <1>1, <1>2 DEF IPInv
<1>4. /\ change \in StreamRec /\ change.prov = "all" /\ change.heard = st.heard
      /\ change.phase = "reading"
  BY <1>2, <1>3 DEF StreamRec
<1>5. \A q : Heard(q)' <=> Heard(q) BY <1>1 DEF Heard
<1>6. providerMap' \in [ProviderSet -> StateOf(Answer)]
  <2>1. CASE ProviderSet = {} BY <1>1, <1>2, <1>3, <2>1 DEF IPInv
  <2>2. CASE ProviderSet # {} BY <1>1, <1>2, <1>3, <2>2, IPMapTyped
  <2> QED BY <2>1, <2>2
<1> HIDE DEF change
<1> QED BY <1>1, <1>3, <1>4, <1>5, <1>6, IPStreamKeeps

LEMMA IPEndsKeeps ==
  ASSUME QueryInv, NEW s \in DOMAIN streams, IPEnds(s)
  PROVE  QueryInv'
<1> DEFINE st == streams[s]
<1>1. /\ asks = "ip" /\ QueryLive(s) /\ StreamGoes(s, Over(st))
      /\ providerMap' = [q \in ProviderSet |->
                           IF q \in st.heard THEN [providerMap[q] EXCEPT !.running = FALSE]
                           ELSE providerMap[q]]
  BY DEF IPEnds
<1>2. QueryTyped /\ IPInv /\ OnlyOwnStreams /\ st \in StreamRec /\ panel # "no"
  BY <1>1, LiveIsAsked DEF QueryInv
<1>3. /\ DOMAIN providerMap = ProviderSet /\ st.heard = {q \in ProviderSet : Heard(q)}
      /\ \A t \in DOMAIN streams : QueryLive(t) => s = t
  BY <1>1, <1>2 DEF IPInv
<1>4. Over(st) \in StreamRec /\ Over(st).phase = "over"
  BY <1>2 DEF Over, StreamRec
<1>5. /\ QueryTyped' /\ DOMAIN streams' = DOMAIN streams /\ streams'[s] = Over(st)
      /\ \A t \in DOMAIN streams : t # s => streams'[t] = streams[t]
      /\ UNCHANGED <<asks, hasQuery, cursors, panel, pages, mains, more, preempted>>
  BY <1>1, <1>2, <1>4, StreamGoesKeeps DEF StreamGoes
<1>6. \A t \in DOMAIN streams' : ~QueryLive(t)'
  BY <1>3, <1>4, <1>5 DEF QueryLive
<1>7. \A q \in ProviderSet : providerMap[q] \in StateOf(Answer)
  BY <1>2, <1>3, IPMapTyped
<1>8. \A q \in ProviderSet :
        LET off == [providerMap[q] EXCEPT !.running = FALSE]
        IN off \in StateOf(Answer) /\ off.entries = providerMap[q].entries
           /\ off.running = FALSE
  BY <1>7 DEF StateOf
<1>9. /\ providerMap' \in [ProviderSet -> StateOf(Answer)]
      /\ \A q \in ProviderSet :
           /\ Heard(q)' <=> Heard(q)
           /\ Heard(q) => providerMap'[q].running = FALSE
           /\ ~Heard(q) => providerMap'[q] = providerMap[q]
  BY <1>1, <1>3, <1>7, <1>8 DEF Heard
<1>10. ~ReadBy("all")' BY <1>6 DEF ReadBy
<1>11. IPInv' BY <1>2, <1>3, <1>6, <1>9, <1>10 DEF IPInv
<1>12. OnlyOwnStreams' BY <1>6 DEF OnlyOwnStreams
<1> QED BY <1>1, <1>2, <1>5, <1>11, <1>12 DEF QueryInv

----------------------------------------------------------------------------

LEMMA QueryInvInit == QueryInit => QueryInv
<1> SUFFICES ASSUME QueryInit PROVE QueryInv
  OBVIOUS
<1>1. /\ asks \in {"route", "ip"} /\ cursors \in {"line", "page"} /\ panel = "no"
      /\ providerMap = <<>> /\ streams = <<>> /\ preempted = {}
      /\ pages = [p \in ProviderSet |-> <<>>]
  BY DEF QueryInit
<1>2. DOMAIN <<>> = {} /\ Len(<<>>) = 0 /\ \A E : <<>> \in Seq(E) BY NewAreTyped, EmptySeq
<1>3. QueryTyped BY <1>1, <1>2 DEF QueryTyped
<1>4. OnlyOwnStreams BY <1>1, <1>2 DEF OnlyOwnStreams
<1>5. RouteInv
  BY <1>1, <1>2
  DEF RouteInv, RouteTyped, OneStreamEach, PagesCount, RunningFollows
<1>6. IPInv BY <1>1, <1>2 DEF IPInv
<1> QED BY <1>1, <1>2, <1>3, <1>4, <1>5, <1>6 DEF QueryInv

LEMMA QueryStutter ==
  ASSUME QueryInv, UNCHANGED queryVars
  PROVE  QueryInv'
<1>1. /\ UNCHANGED <<asks, hasQuery, cursors, panel, providerMap, pages, streams, mains>>
      /\ UNCHANGED <<more, preempted>>
  BY DEF queryVars
<1>2. QueryTyped' /\ OnlyOwnStreams'
  BY <1>1 DEF QueryInv, QueryTyped, OnlyOwnStreams, QueryLive
<1>3. (\A s : QueryLive(s)' <=> QueryLive(s)) /\ \A q : ReadBy(q)' <=> ReadBy(q)
  BY <1>1 DEF ReadBy, QueryLive
<1>4. RouteInv => RouteInv'
  BY <1>1, <1>3
  DEF RouteInv, RouteTyped, StreamFollows, OneStreamEach, PagesCount, PageFollows,
      CursorFollows, Taken, RunningFollows, PageEnd
<1>5. IPInv => IPInv' BY <1>1, <1>3 DEF IPInv, Heard
<1> QED BY <1>1, <1>2, <1>4, <1>5 DEF QueryInv

LEMMA QueryInvNext == QueryInv /\ [QueryNext]_queryVars => QueryInv'
<1> SUFFICES ASSUME QueryInv, QueryNext PROVE QueryInv'
  BY QueryStutter
<1>1. CASE Open
  <2>1. /\ panel = "no" /\ panel' = "yes" /\ StartQuery(streams)
        /\ UNCHANGED <<asks, hasQuery, cursors, pages, preempted>>
    BY <1>1 DEF Open
  <2>2. /\ QueryTyped /\ streams = <<>> /\ preempted = {}
        /\ pages = [p \in ProviderSet |-> <<>>]
    BY <2>1 DEF QueryInv
  <2>3. streams \in Seq(StreamRec) /\ \A s \in 1..Len(streams) : streams[s].phase = "over"
    BY <2>2, EmptySeq DEF QueryTyped
  <2> QED BY <2>1, <2>2, <2>3, StartKeeps
<1>2. CASE Refresh
  <2> DEFINE given == mains \cup {more}
             kept == Aborted(streams, given)
  <2>1. /\ panel = "yes" /\ preempted' = {} /\ StartQuery(kept)
        /\ pages' = [p \in ProviderSet |-> <<>>]
        /\ UNCHANGED <<asks, hasQuery, cursors, panel>>
    BY <1>2 DEF Refresh
  <2>2. QueryTyped /\ OnlyOwnStreams BY DEF QueryInv
  <2>3. /\ kept \in Seq(StreamRec) /\ DOMAIN streams = 1..Len(kept)
        /\ \A s \in DOMAIN streams :
             /\ s \in given => kept[s].phase = "over"
             /\ s \notin given => kept[s] = streams[s]
             /\ streams[s] \in StreamRec
    BY <2>2, AbortKeeps, StreamsTyped
  <2>4. ASSUME NEW s \in 1..Len(kept) PROVE kept[s].phase = "over"
    <3>1. CASE s \in given BY <2>3, <3>1
    <3>2. CASE s \notin given
      <4>1. ~QueryLive(s) /\ streams[s] \in StreamRec /\ kept[s] = streams[s]
        BY <2>2, <2>3, <3>2 DEF OnlyOwnStreams
      <4> HIDE DEF kept
      <4> QED BY <2>3, <4>1 DEF QueryLive, StreamRec
    <3> QED BY <3>1, <3>2
  <2> HIDE DEF kept
  <2> QED BY <2>1, <2>2, <2>3, <2>4, StartKeeps
<1>3. CASE ClosePanel BY <1>3, ClosePanelKeeps
<1>4. ASSUME NEW p \in ProviderSet, LoadMore(p) PROVE QueryInv'
  BY <1>4, LoadMoreKeeps
<1>5. ASSUME NEW s \in DOMAIN streams, QueryAnswered(s) PROVE QueryInv'
  BY <1>5, RouteOtherKeeps, IPAnsweredKeeps DEF QueryInv, QueryTyped
<1>6. ASSUME NEW s \in DOMAIN streams,
             RouteLine(s) \/ RouteErrorLine(s) \/ RouteDone(s) \/ RouteBroken(s)
      PROVE  QueryInv'
  <2>1. asks = "route" BY <1>6 DEF RouteLine, RouteErrorLine, RouteDone, RouteBroken
  <2> QED BY <1>6, <2>1, RouteLineKeeps, RouteOtherKeeps
<1>7. ASSUME NEW s \in DOMAIN streams, IPEnds(s) PROVE QueryInv'
  BY <1>7, IPEndsKeeps
<1>8. ASSUME NEW s \in DOMAIN streams, NEW p \in ProviderSet, NEW ip \in QueriedIPs,
             IPLine(s, p, ip)
      PROVE  QueryInv'
  BY <1>8, IPLineKeeps
<1> QED BY <1>1, <1>2, <1>3, <1>4, <1>5, <1>6, <1>7, <1>8 DEF QueryNext

LEMMA QueryInvHolds == QuerySpec => []QueryInv
<1> QED
  BY QueryInvInit, QueryInvNext, PTL DEF QuerySpec

\* A panel shows a beginning of what each provider has, in order and each entry
\* once, and reads no stream but those of its query (the callbacks and the
\* abort controllers of RouteQueryResultDisplay.tsx and apis/mrtProviders.ts).
THEOREM OwnEntriesAreShown == QuerySpec => []ShowsOwnEntries
<1>1. QueryInv => ShowsOwnEntries
  <2> SUFFICES ASSUME QueryInv, asks = "route", NEW p \in DOMAIN providerMap
               PROVE  EntriesShown(p) = [i \in 1..Len(EntriesShown(p)) |-> i]
    BY DEF QueryInv, ShowsOwnEntries, EntriesArePrefix
  <2>1. QueryTyped /\ RouteInv BY DEF QueryInv
  <2>2. /\ p \in ProviderSet /\ pages[p] \in Seq(Nat)
        /\ providerMap[p].entries \in Seq(Nat)
    BY <2>1, RouteMapTyped
  <2>3. PagesCount(p) /\ PageFollows(p) BY <2>1, <2>2 DEF RouteInv
  <2>4. \A i \in 1..Len(EntriesShown(p)) : EntriesShown(p)[i] = i
    BY <2>2, <2>3, ConcatCounts DEF PagesCount, PageFollows, EntriesShown
  <2>5. EntriesShown(p) \in Seq(Nat) BY <2>2, ConcatProperties DEF EntriesShown
  <2>6. EntriesShown(p) \in [1..Len(EntriesShown(p)) -> Nat] BY <2>5, LenProperties
  <2> HIDE DEF EntriesShown
  <2> QED BY <2>4, <2>6
<1> QED
  BY <1>1, QueryInvHolds, PTL

\* A provider is shown as running while it is read, and for as long as nobody
\* tells it that its page was aborted or its answers did not come (setRunning
\* of the callbacks, loadMoreAcRef, runningProviders).
THEOREM RunningMeansRead == QuerySpec => []RunningIsRead
<1>1. QueryInv => RunningIsRead
  <2> SUFFICES ASSUME QueryInv, panel = "yes", NEW p \in DOMAIN providerMap
               PROVE  LET read == \E s \in DOMAIN streams :
                                    QueryLive(s) /\ streams[s].prov \in {p, "all"}
                      IN IF asks = "route"
                           THEN providerMap[p].running <=> read \/ p \in preempted
                           ELSE /\ providerMap[p].running <=>
                                     read \/ providerMap[p].entries = <<>>
                                /\ CellsSettle
    BY DEF RunningIsRead
  <2>1. CASE asks = "route"
    <3>1. QueryTyped /\ RouteInv BY <2>1 DEF QueryInv
    <3>2. \A s \in DOMAIN streams : QueryLive(s) => streams[s].prov # "all"
      BY <3>1, RouteMapTyped DEF RouteInv, StreamFollows
    <3>3. providerMap[p].running <=> ReadBy(p) \/ p \in preempted
      BY <3>1 DEF RouteInv, RunningFollows
    <3> QED BY <2>1, <3>2, <3>3 DEF ReadBy
  <2>2. CASE asks # "route"
    <3>1. QueryTyped /\ IPInv BY <2>2 DEF QueryInv, QueryTyped
    <3>2. \A s \in DOMAIN streams : QueryLive(s) => streams[s].prov = "all"
      BY <3>1 DEF IPInv
    <3>3. \A q \in DOMAIN providerMap :
            /\ Heard(q) => (providerMap[q].running <=> ReadBy("all"))
            /\ ~Heard(q) => providerMap[q].running
      BY <3>1 DEF IPInv
    <3>4. providerMap[p].running <=>
            (\E s \in DOMAIN streams : QueryLive(s) /\ streams[s].prov \in {p, "all"})
              \/ providerMap[p].entries = <<>>
      BY <3>2, <3>3 DEF ReadBy, Heard
    <3>5. ASSUME NEW q \in DOMAIN providerMap PROVE ~NoResultsShown(q)
      BY <3>3 DEF NoResultsShown, Heard
    <3>6. ASSUME NEW q \in DOMAIN providerMap, \A s \in DOMAIN streams : ~QueryLive(s)
          PROVE  LET cells == {IPCell(q, ip) : ip \in QueriedIPs}
                 IN "spinner" \in cells <=> cells = {"spinner"}
      <4>1. CASE Heard(q)
        <5>1. ~providerMap[q].running BY <3>3, <3>6, <4>1 DEF ReadBy
        <5>2. \A ip : IPCell(q, ip) # "spinner" BY <5>1 DEF IPCell
        <5> QED BY <5>2
      <4>2. CASE ~Heard(q)
        <5>1. providerMap[q].running /\ providerMap[q].entries = <<>>
          BY <3>3, <4>2 DEF Heard
        <5>2. \A ip : FindEntry(q, ip) = {} BY <5>1, NewAreTyped DEF FindEntry
        <5>3. \A ip : IPCell(q, ip) = "spinner" BY <5>1, <5>2 DEF IPCell
        <5> QED BY <5>3
      <4> QED BY <4>1, <4>2
    <3> QED BY <2>2, <3>4, <3>5, <3>6 DEF CellsSettle
  <2> QED BY <2>1, <2>2
<1> QED
  BY <1>1, QueryInvHolds, PTL

----------------------------------------------------------------------------
(* The panels that follow a live stream.                                   *)

\* A stream that was not asked for has sent nothing.
NewAreUntouched ==
  \A s \in Streams : s > launched => phase[s] = "new" /\ emitted[s] = 0

LiveAreKnown == \A s \in Streams : Live(s) => s = ref \/ s \in stopped

OpenIsLive == \A s \in open : Live(s)

\* When no stream is followed.
IdleFollowsNone == (mounted # "yes" \/ ~active \/ timer) => ref = None

FrozenWhilePaused ==
  /\ snapshot.set <=> (kind = "trace" /\ ~active)
  /\ snapshot.set => rows = <<>>

KindInv ==
  /\ SamplePanel
  /\ ref \notin stopped
  /\ mounted = "no" => active /\ rows = <<>>
  /\ kind = "trace" => stopped = {}
  /\ timer => kind = "ping" /\ mounted = "yes" /\ active

PanelInv ==
  /\ SamplePanelsTypeOK
  /\ NewAreUntouched
  /\ LiveAreKnown
  /\ OpenIsLive
  /\ IdleFollowsNone
  /\ FrozenWhilePaused
  /\ KindInv
  /\ OpenIsFollowedOrEarly

----------------------------------------------------------------------------
(* Types.                                                                  *)

Table == Seq(Streams \X (1..MaxEvents))

Phases == {"new", "fetching", "reading", "ended", "broken"}

----------------------------------------------------------------------------
(* The four things a step does to a panel.                                 *)

\* A new stream is followed, from the rows that are there or from none.
LEMMA FollowKeepsInv ==
  ASSUME PanelInv, Fetch, ref = None, ref' = launched',
         mounted' = "yes", active' = TRUE, timer' = FALSE,
         kind' = kind, stopped' = stopped, early' = early, isRunning' = isRunning,
         rows' \in {rows, <<>>}, snapshot' \in {snapshot, NoSnapshot},
         ~snapshot'.set
  PROVE  PanelInv'
<1> DEFINE new == launched + 1
<1>1. /\ launched \in Nat /\ MaxStreams \in Nat /\ launched < MaxStreams
      /\ launched' = new /\ new \in Streams /\ ref' = new
      /\ phase' = [phase EXCEPT ![new] = "fetching"]
      /\ open' = open \cup {new} /\ emitted' = emitted
  BY HubStreamsConstants DEF Fetch, Streams, PanelInv, SamplePanelsTypeOK, StreamsTypeOK
<1>2. /\ phase \in [Streams -> Phases] /\ emitted \in [Streams -> 0..MaxEvents]
      /\ open \subseteq 1..launched /\ stopped \subseteq 1..launched
      /\ early \subseteq 1..launched /\ isRunning \in BOOLEAN
      /\ rows \in Table /\ snapshot \in [set : BOOLEAN, rows : Table]
  BY DEF PanelInv, SamplePanelsTypeOK, StreamsTypeOK, Phases, Table
<1> HIDE DEF new
<1>3. /\ rows' \in Table /\ snapshot' \in [set : BOOLEAN, rows : Table]
  <2>1. <<>> \in Table
    BY EmptySeq DEF Table
  <2>2. NoSnapshot \in [set : BOOLEAN, rows : Table]
    BY <2>1, Zenon DEF NoSnapshot
  <2> QED
    BY <1>2, <2>1, <2>2
<1>4. new = launched + 1
  BY DEF new
<1>5. phase' \in [Streams -> Phases]
  BY <1>1, <1>2 DEF Phases
<1>6. SamplePanelsTypeOK'
  <2>1. /\ launched' \in 0..MaxStreams /\ ref' \in 0..launched'
        /\ \A s \in 1..launched : s \in 1..launched'
        /\ new \in 1..launched'
    BY <1>1, <1>4
  <2>2. /\ open' \subseteq 1..launched' /\ stopped' \subseteq 1..launched'
        /\ early' \subseteq 1..launched'
    BY <1>1, <1>2, <2>1
  <2>3. StreamsTypeOK'
    BY <1>1, <1>2, <1>5, <2>1, <2>2 DEF StreamsTypeOK, Phases
  <2> QED
    BY <1>2, <1>3, <2>1, <2>2, <2>3 DEF SamplePanelsTypeOK, Table
<1>7. NewAreUntouched'
  BY <1>1, <1>2, <1>4 DEF NewAreUntouched, PanelInv, Streams
<1>8. \A s \in Streams : s # new => phase'[s] = phase[s]
  BY <1>1, <1>2
<1>9. phase'[new] = "fetching"
  BY <1>1, <1>2
<1>10. LiveAreKnown'
  BY <1>1, <1>8 DEF LiveAreKnown, PanelInv, Live, None
<1>11. new # None
  BY <1>1, <1>4 DEF None
<1>12. OpenIsLive'
  <2> SUFFICES ASSUME NEW s \in open' PROVE Live(s)'
    BY DEF OpenIsLive
  <2>1. CASE s = new
    BY <1>9, <1>11, <2>1 DEF Live
  <2>2. CASE s # new
    <3>1. s \in open /\ s \in Streams
      BY <1>1, <1>2, <2>2 DEF Streams
    <3> QED
      BY <3>1, <1>8, <2>2 DEF Live, OpenIsLive, PanelInv
  <2> QED
    BY <2>1, <2>2
<1>15. IdleFollowsNone' /\ FrozenWhilePaused'
  BY DEF IdleFollowsNone, FrozenWhilePaused
<1>16. KindInv'
  BY <1>1, <1>2, <1>4 DEF KindInv, PanelInv, SamplePanel
<1>17. OpenIsFollowedOrEarly'
  <2>1. None \notin open
    BY <1>1, <1>2 DEF None
  <2> QED
    BY <1>1, <2>1 DEF OpenIsFollowedOrEarly, PanelInv, SamplePanel
<1> QED
  BY <1>6, <1>7, <1>10, <1>12, <1>15, <1>16, <1>17 DEF PanelInv

\* A line of the followed stream becomes the last row; a line of a stream that
\* was told to stop becomes none.
LEMMA LineKeepsInv ==
  ASSUME PanelInv, NEW s \in Streams, Line(s),
         rows' = IF s \in stopped THEN rows ELSE Append(rows, <<s, emitted'[s]>>),
         UNCHANGED <<mounted, active, timer, ref, stopped, snapshot, isRunning, early,
                     kind>>
  PROVE  /\ PanelInv'
         /\ s \notin stopped => s = ref /\ ref # None /\ ~snapshot.set
         /\ emitted'[s] = emitted[s] + 1
         /\ \A r \in Streams : r # s => emitted'[r] = emitted[r]
<1>1. /\ phase \in [Streams -> Phases] /\ emitted \in [Streams -> 0..MaxEvents]
      /\ open \subseteq 1..launched /\ rows \in Table /\ MaxEvents \in Nat
      /\ launched \in Nat
  BY HubStreamsConstants
  DEF PanelInv, SamplePanelsTypeOK, StreamsTypeOK, Phases, Table
<1>2. /\ launched' = launched /\ phase' = phase /\ open' = open
      /\ emitted' = [emitted EXCEPT ![s] = @ + 1]
      /\ phase[s] = "reading" /\ emitted[s] < MaxEvents
  BY DEF Line
<1>3. /\ emitted'[s] = emitted[s] + 1 /\ emitted'[s] \in 1..MaxEvents
      /\ emitted' \in [Streams -> 0..MaxEvents]
      /\ \A r \in Streams : r # s => emitted'[r] = emitted[r]
  BY <1>1, <1>2
<1>4. s # None /\ Live(s)
  BY <1>2 DEF Streams, None, Live
<1>5. s \notin stopped => s = ref /\ ref # None
  BY <1>4 DEF PanelInv, LiveAreKnown
<1>6. s \notin stopped => ~snapshot.set
  BY <1>5 DEF PanelInv, IdleFollowsNone, FrozenWhilePaused
<1>7. s <= launched
  BY <1>1, <1>2 DEF PanelInv, NewAreUntouched, Streams
<1>8. <<s, emitted'[s]>> \in Streams \X (1..MaxEvents)
  BY <1>3
<1>9. rows' \in Table
  BY <1>1, <1>8, AppendProperties DEF Table
<1>10. SamplePanelsTypeOK'
  <2>1. StreamsTypeOK'
    BY <1>2, <1>3 DEF PanelInv, SamplePanelsTypeOK, StreamsTypeOK
  <2> QED
    BY <1>2, <1>9, <2>1 DEF PanelInv, SamplePanelsTypeOK, Table
<1>11. NewAreUntouched'
  BY <1>1, <1>2, <1>3, <1>7 DEF PanelInv, NewAreUntouched, Streams
<1>12. LiveAreKnown' /\ OpenIsLive'
  BY <1>2 DEF PanelInv, LiveAreKnown, OpenIsLive, Live
<1>17. IdleFollowsNone'
  BY DEF PanelInv, IdleFollowsNone
<1>18. FrozenWhilePaused'
  BY <1>6 DEF PanelInv, FrozenWhilePaused
<1>19. KindInv' /\ OpenIsFollowedOrEarly'
  <2>1. mounted = "no" => rows' = rows
    BY <1>5 DEF PanelInv, IdleFollowsNone
  <2> QED
    BY <1>2, <2>1 DEF PanelInv, KindInv, OpenIsFollowedOrEarly, SamplePanel
<1> QED
  BY <1>3, <1>5, <1>6, <1>10, <1>11, <1>12, <1>17, <1>18, <1>19
  DEF PanelInv

\* The followed stream is given up: it ends, or it is told to stop and counted
\* among those that had no answer yet.
LEMMA GiveUpKeepsInv ==
  ASSUME PanelInv,
         \E given \in SUBSET {ref} :
           /\ Release(given)
           /\ Live(ref) => ref \in given \/ (ref \in stopped' /\ ref \in early'),
         ref' = None, kind' = kind,
         stopped' \in {stopped, stopped \cup ({ref} \ {None})},
         early' \in {early, early \cup {ref}},
         early' # early => ref # None,
         kind = "trace" => stopped' = stopped /\ early' = early,
         rows' \in {rows, <<>>}, snapshot' \in {snapshot, SnapshotOf(rows)},
         mounted' \in {"yes", "gone"}, active' \in BOOLEAN, timer' = FALSE,
         isRunning' \in BOOLEAN, FrozenWhilePaused'
  PROVE  PanelInv'
<1> PICK given \in SUBSET {ref} :
      /\ Release(given)
      /\ Live(ref) => ref \in given \/ (ref \in stopped' /\ ref \in early')
  OBVIOUS
<1>1. /\ phase \in [Streams -> Phases] /\ emitted \in [Streams -> 0..MaxEvents]
      /\ open \subseteq 1..launched /\ stopped \subseteq 1..launched
      /\ early \subseteq 1..launched /\ ref \in 0..launched
      /\ rows \in Table /\ snapshot \in [set : BOOLEAN, rows : Table]
      /\ launched \in Nat
  BY HubStreamsConstants
  DEF PanelInv, SamplePanelsTypeOK, StreamsTypeOK, Phases, Table
<1>2. /\ launched' = launched /\ emitted' = emitted /\ open' = open \ given
      /\ phase' = [s \in Streams |-> IF s \in given THEN "ended" ELSE phase[s]]
  BY DEF Release
<1>3. /\ phase' \in [Streams -> Phases]
      /\ \A s \in Streams : phase'[s] = IF s \in given THEN "ended" ELSE phase[s]
  BY <1>1, <1>2 DEF Phases
<1>4. /\ stopped' \subseteq 1..launched /\ early' \subseteq 1..launched
      /\ open' \subseteq 1..launched
  BY <1>1, <1>2 DEF None
<1>5. rows' \in Table /\ snapshot' \in [set : BOOLEAN, rows : Table]
  <2>1. <<>> \in Table
    BY EmptySeq DEF Table
  <2>2. SnapshotOf(rows) \in [set : BOOLEAN, rows : Table]
    BY <1>1, Zenon DEF SnapshotOf
  <2> QED
    BY <1>1, <2>1, <2>2
<1>6. SamplePanelsTypeOK'
  <2>1. StreamsTypeOK'
    BY <1>2, <1>3, <1>4 DEF PanelInv, SamplePanelsTypeOK, StreamsTypeOK, Phases
  <2>2. ref' \in 0..launched'
    BY <1>1, <1>2 DEF None
  <2> QED
    BY <1>2, <1>4, <1>5, <2>1, <2>2 DEF SamplePanelsTypeOK, Table
<1>7. \A s \in given : s = ref
  OBVIOUS
<1>8. \A s \in Streams : Live(s)' => Live(s) /\ s \notin given
  BY <1>3 DEF Live, None
<1>9. NewAreUntouched'
  BY <1>1, <1>2, <1>3 DEF PanelInv, NewAreUntouched, Streams
<1>10. LiveAreKnown'
  BY <1>8 DEF PanelInv, LiveAreKnown
<1>11. OpenIsLive'
  <2> SUFFICES ASSUME NEW s \in open' PROVE Live(s)'
    BY DEF OpenIsLive
  <2>1. s \in open /\ s \notin given /\ s \in Streams
    BY <1>1, <1>2, HubStreamsConstants
    DEF Streams, PanelInv, SamplePanelsTypeOK, StreamsTypeOK
  <2> QED
    BY <1>3, <2>1 DEF PanelInv, OpenIsLive, Live
<1>13. IdleFollowsNone'
  BY DEF IdleFollowsNone
<1>14. KindInv'
  BY <1>1 DEF PanelInv, KindInv, SamplePanel, None
<1>15. OpenIsFollowedOrEarly'
  <2> SUFFICES ASSUME SamplePanel
               PROVE /\ open' \subseteq {ref'} \cup early'
                     /\ kind = "trace" => early' = {}
    BY DEF OpenIsFollowedOrEarly, SamplePanel
  <2>1. \A s \in open' : s = ref => s \in early'
    BY <1>2 DEF PanelInv, OpenIsLive
  <2> QED
    BY <1>2, <2>1 DEF PanelInv, OpenIsFollowedOrEarly
<1> QED
  BY <1>6, <1>9, <1>10, <1>11, <1>13, <1>14, <1>15 DEF PanelInv

\* A response arrives, ends or breaks, or a click does not touch the streams.
LEMMA QuietKeepsInv ==
  ASSUME PanelInv, phase' \in [Streams -> Phases],
         \A s \in Streams : phase[s] = "new" => phase'[s] = "new",
         \A s \in Streams : Live(s)' => Live(s),
         open' \subseteq open, \A s \in open' : Live(s)',
         mounted' \in {mounted, "yes"}, active' \in BOOLEAN, timer' \in BOOLEAN,
         isRunning' \in BOOLEAN, IdleFollowsNone', FrozenWhilePaused', KindInv',
         UNCHANGED <<launched, emitted, ref, stopped, rows, snapshot, early, kind>>
  PROVE  PanelInv'
<1>1. SamplePanelsTypeOK'
  <2>1. StreamsTypeOK'
    BY DEF PanelInv, SamplePanelsTypeOK, StreamsTypeOK, Phases
  <2> QED
    BY <2>1 DEF PanelInv, SamplePanelsTypeOK
<1>2. NewAreUntouched' /\ LiveAreKnown' /\ OpenIsLive'
  BY DEF PanelInv, NewAreUntouched, LiveAreKnown, OpenIsLive
<1>4. OpenIsFollowedOrEarly'
  BY DEF PanelInv, OpenIsFollowedOrEarly, SamplePanel
<1> QED
  BY <1>1, <1>2, <1>4 DEF PanelInv

\* A response leaves every other stream alone and makes none live.
LEMMA ResponseIsQuiet ==
  ASSUME PanelInv, NEW s \in Streams, Answered(s) \/ Done(s) \/ Broken(s)
  PROVE  /\ phase' \in [Streams -> Phases]
         /\ \A r \in Streams : phase[r] = "new" => phase'[r] = "new"
         /\ \A r \in Streams : Live(r)' => Live(r)
         /\ open' \subseteq open /\ \A r \in open' : Live(r)'
         /\ launched' = launched /\ emitted' = emitted
<1>1. phase \in [Streams -> Phases] /\ open \subseteq Streams
  BY HubStreamsConstants
  DEF PanelInv, SamplePanelsTypeOK, StreamsTypeOK, Phases, Streams
<1>2. /\ phase[s] \in {"fetching", "reading"}
      /\ \E p \in {"reading", "ended", "broken"} : phase' = [phase EXCEPT ![s] = p]
      /\ phase'[s] # "reading" => open' = open \ {s}
      /\ phase'[s] = "reading" => open' = open
      /\ launched' = launched /\ emitted' = emitted
  BY <1>1 DEF Answered, Done, Broken
<1>3. /\ phase' \in [Streams -> Phases] /\ phase'[s] \in {"reading", "ended", "broken"}
      /\ \A r \in Streams : r # s => phase'[r] = phase[r]
  BY <1>1, <1>2 DEF Phases
<1>4. \A r \in Streams : Live(r)' => Live(r)
  BY <1>2, <1>3 DEF Live
<1>5. \A r \in open' : Live(r)'
  <2> SUFFICES ASSUME NEW r \in open' PROVE Live(r)'
    OBVIOUS
  <2>1. r \in open /\ r \in Streams /\ (r = s => phase'[s] = "reading")
    BY <1>1, <1>2, <1>3
  <2>2. Live(r)
    BY <2>1 DEF PanelInv, OpenIsLive
  <2> QED
    BY <1>3, <2>1, <2>2 DEF Live
<1> QED
  BY <1>2, <1>3, <1>4, <1>5

----------------------------------------------------------------------------
(* What a step shows.                                                      *)

LEMMA FollowIsShown ==
  ASSUME PanelInv, Fetch, ref = None, ref' = launched', kind' = kind,
         Shown' = IF kind = "ping" THEN Shown ELSE <<>>
  PROVE  Feed!Follow
<1>1. /\ launched \in Nat /\ launched' = launched + 1 /\ launched' \in Streams
      /\ SamplePanel /\ SamplePanel' /\ emitted' = emitted
  BY HubStreamsConstants
  DEF PanelInv, SamplePanelsTypeOK, StreamsTypeOK, Fetch, KindInv, SamplePanel, Streams
<1>2. launched' \in Streams \ (1..launched)
  BY <1>1
<1>3. Streams \ (1..launched') = (Streams \ (1..launched)) \ {launched'}
  BY <1>1 DEF Streams
<1>4. emitted'[ref'] = 0
  BY <1>1 DEF PanelInv, NewAreUntouched
<1> QED
  BY <1>1, <1>2, <1>3, <1>4 DEF Feed!Follow, None

LEMMA LineIsShown ==
  ASSUME PanelInv, NEW s \in Streams, launched' = launched,
         rows' = IF s \in stopped THEN rows ELSE Append(rows, <<s, emitted'[s]>>),
         s \notin stopped => s = ref /\ ref # None /\ ~snapshot.set,
         emitted'[s] = emitted[s] + 1,
         \A r \in Streams : r # s => emitted'[r] = emitted[r],
         UNCHANGED <<ref, snapshot, kind>>
  PROVE  Feed!Show \/ UNCHANGED Feed!vars
<1>1. /\ SamplePanel /\ SamplePanel'
      /\ ref # None => ref \in Streams
  BY HubStreamsConstants
  DEF PanelInv, KindInv, SamplePanel, SamplePanelsTypeOK, StreamsTypeOK, Streams, None
<1>2. CASE s \in stopped
  <2>1. s # ref
    BY <1>2 DEF PanelInv, KindInv
  <2> QED
    BY <1>1, <1>2, <2>1 DEF Feed!vars, Shown
<1>3. CASE s \notin stopped
  <2>1. Shown = rows /\ Shown' = Append(rows, <<ref, emitted'[ref]>>)
    BY <1>3 DEF Shown
  <2> QED
    BY <1>1, <1>3, <2>1 DEF Feed!Show, None
<1> QED
  BY <1>2, <1>3

LEMMA GiveUpIsShown ==
  ASSUME PanelInv, ref' = None, launched' = launched, kind' = kind,
         emitted' = emitted, Shown' = Shown
  PROVE  Feed!Stop \/ UNCHANGED Feed!vars
<1>1. SamplePanel /\ SamplePanel'
  BY DEF PanelInv, KindInv, SamplePanel
<1> QED
  BY <1>1 DEF Feed!Stop, Feed!vars, None

LEMMA QuietIsNotShown ==
  ASSUME PanelInv, UNCHANGED <<launched, emitted, ref, kind, rows, snapshot>>
  PROVE  UNCHANGED Feed!vars
BY DEF Feed!vars, Shown, SamplePanel

----------------------------------------------------------------------------

allVars == <<streamVars, panelVars, kind>>

LEMMA PanelInvInit ==
  ASSUME SamplePanelsInit
  PROVE  PanelInv /\ Feed!Init
<1>1. /\ launched = 0 /\ open = {} /\ mounted = "no" /\ active = TRUE /\ timer = FALSE
      /\ phase = [s \in Streams |-> "new"] /\ emitted = [s \in Streams |-> 0]
      /\ ref = None /\ stopped = {} /\ rows = <<>> /\ snapshot = NoSnapshot
      /\ isRunning = FALSE /\ early = {} /\ kind \in {"ping", "trace"}
  BY DEF SamplePanelsInit, PanelInit, StreamsInit
<1>2. <<>> \in Table
  BY EmptySeq DEF Table
<1>3. snapshot \in [set : BOOLEAN, rows : Table] /\ ~snapshot.set
  BY <1>1, <1>2, Zenon DEF NoSnapshot
<1>4. SamplePanelsTypeOK
  <2>1. StreamsTypeOK
    BY <1>1, HubStreamsConstants DEF StreamsTypeOK, Streams
  <2>2. /\ ref \in 0..launched /\ stopped \subseteq 1..launched
        /\ early \subseteq 1..launched
    BY <1>1 DEF None
  <2> QED
    BY <1>1, <1>2, <1>3, <2>1, <2>2 DEF SamplePanelsTypeOK, Table
<1>5. NewAreUntouched /\ LiveAreKnown /\ OpenIsLive
  BY <1>1 DEF NewAreUntouched, LiveAreKnown, OpenIsLive, Live
<1>6. IdleFollowsNone
  BY <1>1 DEF IdleFollowsNone
<1>7. FrozenWhilePaused /\ KindInv /\ OpenIsFollowedOrEarly
  BY <1>1, <1>3
  DEF FrozenWhilePaused, KindInv, OpenIsFollowedOrEarly, SamplePanel
<1>8. Feed!Init
  BY <1>1, <1>3 DEF Feed!Init, Shown, None
<1> QED
  BY <1>4, <1>5, <1>6, <1>7, <1>8 DEF PanelInv

LEMMA PanelInvNext ==
  ASSUME PanelInv, SamplePanelsNext
  PROVE  PanelInv' /\ (Feed!Next \/ UNCHANGED Feed!vars)
<1> USE DEF streamVars, panelVars
<1>1. kind' = kind
  BY DEF SamplePanelsNext
<1>2. /\ mounted \in {"no", "yes", "gone"} /\ active \in BOOLEAN /\ timer \in BOOLEAN
      /\ isRunning \in BOOLEAN /\ phase \in [Streams -> Phases]
  BY DEF PanelInv, SamplePanelsTypeOK, StreamsTypeOK, Phases
<1>3. /\ IdleFollowsNone /\ FrozenWhilePaused /\ KindInv /\ OpenIsLive
  BY DEF PanelInv
<1>4. ~NoSnapshot.set /\ \A table : SnapshotOf(table).set /\ SnapshotOf(table).rows = table
  BY DEF NoSnapshot, SnapshotOf
<1>5. CASE PingMount
  <2>1. IdleFollowsNone' /\ FrozenWhilePaused' /\ KindInv'
    BY <1>1, <1>3, <1>5
    DEF PingMount, IdleFollowsNone, FrozenWhilePaused, KindInv, SamplePanel
  <2>2. PanelInv'
    BY <1>1, <1>2, <1>3, <1>5, <2>1, QuietKeepsInv DEF PingMount, OpenIsLive, Live
  <2> QED
    BY <1>1, <1>5, <2>2, QuietIsNotShown DEF PingMount
<1>6. CASE LaunchStream
  <2>1. /\ ref = None /\ mounted = "yes" /\ active = TRUE /\ ~snapshot.set
    BY <1>2, <1>3, <1>6 DEF LaunchStream, IdleFollowsNone, KindInv, FrozenWhilePaused
  <2>2. PanelInv'
    BY <1>1, <1>6, <2>1, FollowKeepsInv DEF LaunchStream
  <2>3. kind = "ping" /\ Shown' = Shown
    BY <1>6 DEF LaunchStream, Shown
  <2>4. Feed!Follow
    BY <1>1, <1>6, <2>1, <2>3, FollowIsShown DEF LaunchStream
  <2> QED
    BY <2>2, <2>4 DEF Feed!Next
<1>7. CASE PingPause
  <2>1. FrozenWhilePaused' /\ Shown' = Shown
    BY <1>1, <1>3, <1>7 DEF PingPause, FrozenWhilePaused, Shown
  <2>2. PanelInv'
    BY <1>1, <1>2, <1>7, <2>1, GiveUpKeepsInv DEF PingPause, CancelStream, Live, Phases
  <2>3. launched' = launched /\ emitted' = emitted
    BY <1>7 DEF PingPause, CancelStream, Release
  <2> QED
    BY <1>1, <1>7, <2>1, <2>2, <2>3, GiveUpIsShown DEF PingPause, CancelStream, Feed!Next
<1>8. CASE PingResume
  <2>1. IdleFollowsNone' /\ FrozenWhilePaused' /\ KindInv'
    BY <1>1, <1>3, <1>8
    DEF PingResume, IdleFollowsNone, FrozenWhilePaused, KindInv, SamplePanel
  <2>2. PanelInv'
    BY <1>1, <1>2, <1>3, <1>8, <2>1, QuietKeepsInv DEF PingResume, OpenIsLive, Live
  <2> QED
    BY <1>1, <1>8, <2>2, QuietIsNotShown DEF PingResume
<1>9. CASE PingUnmount
  <2>1. FrozenWhilePaused' /\ Shown' = Shown
    BY <1>1, <1>3, <1>9 DEF PingUnmount, FrozenWhilePaused, Shown
  <2>2. PanelInv'
    BY <1>1, <1>2, <1>9, <2>1, GiveUpKeepsInv DEF PingUnmount, CancelStream, Live, Phases
  <2>3. launched' = launched /\ emitted' = emitted
    BY <1>9 DEF PingUnmount, CancelStream, Release
  <2> QED
    BY <1>1, <1>9, <2>1, <2>2, <2>3, GiveUpIsShown DEF PingUnmount, CancelStream, Feed!Next
<1>10. CASE TraceMount
  <2>1. /\ ref = None /\ active = TRUE /\ timer = FALSE /\ ~snapshot.set
        /\ kind = "trace" /\ rows = <<>>
    BY <1>2, <1>3, <1>10 DEF TraceMount, IdleFollowsNone, KindInv, FrozenWhilePaused
  <2>2. PanelInv'
    BY <1>1, <1>10, <2>1, FollowKeepsInv DEF TraceMount
  <2>3. Feed!Follow
    BY <1>1, <1>10, <2>1, FollowIsShown DEF TraceMount, Shown
  <2> QED
    BY <2>2, <2>3 DEF Feed!Next
<1>11. CASE StopTick
  <2>1. active /\ timer = FALSE /\ ~snapshot.set
    BY <1>2, <1>3, <1>11 DEF StopTick, ButtonEnabled, KindInv, FrozenWhilePaused
  <2>2. FrozenWhilePaused' /\ Shown' = Shown
    BY <1>1, <1>4, <1>11, <2>1 DEF StopTick, FrozenWhilePaused, Shown
  <2>3. PanelInv'
    BY <1>1, <1>11, <2>1, <2>2, GiveUpKeepsInv DEF StopTick
  <2>4. launched' = launched /\ emitted' = emitted
    BY <1>11 DEF StopTick, Release
  <2> QED
    BY <1>1, <1>11, <2>2, <2>3, <2>4, GiveUpIsShown DEF StopTick, Feed!Next
<1>12. CASE ResumeTick
  <2>1. ~active /\ timer = FALSE /\ ref = None /\ mounted = "yes" /\ kind = "trace"
    BY <1>2, <1>3, <1>12 DEF ResumeTick, ButtonEnabled, KindInv, IdleFollowsNone
  <2>2. rows = <<>> /\ ~snapshot'.set
    BY <1>3, <1>4, <1>12, <2>1 DEF ResumeTick, FrozenWhilePaused
  <2>3. PanelInv'
    BY <1>1, <1>12, <2>1, <2>2, FollowKeepsInv DEF ResumeTick
  <2>4. Shown' = <<>>
    BY <1>12, <2>2 DEF ResumeTick, Shown
  <2>5. Feed!Follow
    BY <1>1, <1>12, <2>1, <2>4, FollowIsShown DEF ResumeTick
  <2> QED
    BY <2>3, <2>5 DEF Feed!Next
<1>13. CASE TraceUnmount
  <2>1. timer = FALSE
    BY <1>2, <1>3, <1>13 DEF TraceUnmount, KindInv
  <2>2. FrozenWhilePaused' /\ Shown' = Shown
    BY <1>1, <1>3, <1>13 DEF TraceUnmount, FrozenWhilePaused, Shown
  <2>3. PanelInv'
    BY <1>1, <1>2, <1>13, <2>1, <2>2, GiveUpKeepsInv DEF TraceUnmount
  <2>4. launched' = launched /\ emitted' = emitted
    BY <1>13 DEF TraceUnmount, Release
  <2> QED
    BY <1>1, <1>13, <2>2, <2>3, <2>4, GiveUpIsShown DEF TraceUnmount, Feed!Next
<1>14. ASSUME NEW s \in Streams, PingResponse(s) PROVE PanelInv' /\ UNCHANGED Feed!vars
  <2>1. Answered(s) \/ Done(s) \/ Broken(s)
    BY <1>14 DEF PingResponse
  <2>2. IdleFollowsNone' /\ FrozenWhilePaused' /\ KindInv'
    BY <1>1, <1>3, <1>14
    DEF PingResponse, IdleFollowsNone, FrozenWhilePaused, KindInv, SamplePanel
  <2>3. PanelInv'
    BY <1>1, <1>2, <1>14, <2>1, <2>2, ResponseIsQuiet, QuietKeepsInv DEF PingResponse
  <2> QED
    BY <1>1, <1>14, <2>1, <2>3, ResponseIsQuiet, QuietIsNotShown DEF PingResponse
<1>15. ASSUME NEW s \in Streams, TraceAnswered(s) \/ TraceDone(s) \/ TraceBroken(s)
       PROVE  PanelInv' /\ UNCHANGED Feed!vars
  <2>1. /\ Answered(s) \/ Done(s) \/ Broken(s)
        /\ isRunning' \in BOOLEAN
        /\ UNCHANGED <<mounted, active, timer, ref, stopped, rows, snapshot, early>>
    BY <1>2, <1>15 DEF TraceAnswered, TraceDone, TraceBroken
  <2>2. IdleFollowsNone' /\ FrozenWhilePaused' /\ KindInv'
    BY <1>1, <1>3, <2>1 DEF IdleFollowsNone, FrozenWhilePaused, KindInv, SamplePanel
  <2>3. PanelInv'
    BY <1>1, <1>2, <2>1, <2>2, ResponseIsQuiet, QuietKeepsInv
  <2> QED
    BY <1>1, <2>1, <2>3, ResponseIsQuiet, QuietIsNotShown
<1>16. ASSUME NEW s \in Streams, PingSampleRead(s) \/ TraceEventRead(s)
       PROVE  PanelInv' /\ (Feed!Next \/ UNCHANGED Feed!vars)
  <2>1. /\ Line(s)
        /\ rows' = IF s \in stopped THEN rows ELSE Append(rows, <<s, emitted'[s]>>)
        /\ UNCHANGED <<mounted, active, timer, ref, stopped, snapshot, isRunning, early>>
    BY <1>3, <1>16 DEF PingSampleRead, TraceEventRead, KindInv
  <2>2. launched' = launched
    BY <2>1 DEF Line
  <2>3. /\ PanelInv'
        /\ s \notin stopped => s = ref /\ ref # None /\ ~snapshot.set
        /\ emitted'[s] = emitted[s] + 1
        /\ \A r \in Streams : r # s => emitted'[r] = emitted[r]
    BY <1>1, <2>1, LineKeepsInv
  <2>4. Feed!Show \/ UNCHANGED Feed!vars
    BY <1>1, <2>1, <2>2, <2>3, LineIsShown
  <2> QED
    BY <2>3, <2>4 DEF Feed!Next
<1> QED
  BY <1>5, <1>6, <1>7, <1>8, <1>9, <1>10, <1>11, <1>12, <1>13, <1>14, <1>15, <1>16
  DEF SamplePanelsNext

LEMMA PanelInvStutter ==
  ASSUME PanelInv, UNCHANGED allVars
  PROVE  PanelInv' /\ UNCHANGED Feed!vars
<1>1. /\ UNCHANGED <<launched, phase, open, emitted, mounted, active, timer, ref, stopped>>
      /\ UNCHANGED <<rows, snapshot, isRunning, early, kind>>
  BY DEF allVars, streamVars, panelVars
<1>2. SamplePanelsTypeOK'
  BY <1>1 DEF PanelInv, SamplePanelsTypeOK, StreamsTypeOK
<1>3. NewAreUntouched' /\ LiveAreKnown' /\ OpenIsLive'
  BY <1>1 DEF PanelInv, NewAreUntouched, LiveAreKnown, OpenIsLive, Live
<1>4. IdleFollowsNone' /\ FrozenWhilePaused' /\ KindInv' /\ OpenIsFollowedOrEarly'
  BY <1>1
  DEF PanelInv, IdleFollowsNone, FrozenWhilePaused, KindInv, OpenIsFollowedOrEarly,
      SamplePanel
<1> QED
  BY <1>1, <1>2, <1>3, <1>4, QuietIsNotShown DEF PanelInv

LEMMA PanelInvAlways == SamplePanelsSpec => []PanelInv
<1>1. PanelInv /\ [SamplePanelsNext]_allVars => PanelInv'
  BY PanelInvNext, PanelInvStutter
<1> QED
  BY <1>1, PanelInvInit, PTL DEF SamplePanelsSpec, allVars

\* What the hub still serves is the followed stream, or a ping stream that was
\* cancelled before its answer arrived (cancel() of generatePingSampleStream).
THEOREM ServedIsAccounted == SamplePanelsSpec => []OpenIsFollowedOrEarly
<1>1. PanelInv => OpenIsFollowedOrEarly
  BY DEF PanelInv
<1> QED
  BY <1>1, PanelInvAlways, PTL

\* The panels implement SampleFeed: one stream at a time, its events in order
\* and without a gap, nothing of a stream given up (readNext() of
\* pingdisplay.tsx, useTraceEventsRead of traceroutedisplay.tsx).
THEOREM FeedIsImplemented == SamplePanelsSpec => PanelsImplementFeed
<1>1. SamplePanelsInit => Feed!Init
  BY PanelInvInit
<1>2. PanelInv /\ [SamplePanelsNext]_allVars => [Feed!Next]_(Feed!vars)
  BY PanelInvNext, PanelInvStutter
<1> QED
  BY <1>1, <1>2, PanelInvAlways, PTL
  DEF SamplePanelsSpec, PanelsImplementFeed, Feed!Spec, allVars

\* Every variable of a panel keeps its type.
THEOREM PanelTypes == SamplePanelsSpec => []SamplePanelsTypeOK
<1>1. PanelInv => SamplePanelsTypeOK
  BY DEF PanelInv
<1> QED
  BY <1>1, PanelInvAlways, PTL


----------------------------------------------------------------------------
(* The streams, whatever panel reads them.                                 *)

StreamInv == StreamsTypeOK /\ NewAreUntouched

LEMMA LaunchedTyped ==
  ASSUME StreamInv
  PROVE  /\ launched \in Nat /\ MaxStreams \in Nat /\ launched <= MaxStreams
         /\ MaxEvents \in Nat
         /\ \A s \in 1..launched : s \in Streams /\ s # None
         /\ \A s \in Streams : s # None
         /\ phase \in [Streams -> Phases] /\ emitted \in [Streams -> 0..MaxEvents]
  BY HubStreamsConstants DEF StreamInv, StreamsTypeOK, Streams, None, Phases

\* A stream about which something is known was asked for.
LEMMA UsedIsLaunched ==
  ASSUME StreamInv, NEW s \in Streams, phase[s] # "new"
  PROVE  s \in 1..launched
  BY LaunchedTyped DEF StreamInv, NewAreUntouched, Streams

LEMMA FetchKeeps ==
  ASSUME StreamInv, Fetch
  PROVE  /\ StreamInv'
         /\ launched' = launched + 1 /\ launched' \in Streams /\ phase[launched'] = "new"
         /\ phase'[launched'] = "fetching"
         /\ \A s \in Streams : s # launched' => phase'[s] = phase[s]
<1>1. /\ launched \in Nat /\ launched' = launched + 1 /\ launched' \in Streams
      /\ launched' \in 0..MaxStreams
      /\ phase' = [phase EXCEPT ![launched'] = "fetching"]
      /\ open' = open \cup {launched'} /\ emitted' = emitted
  BY LaunchedTyped DEF Fetch, Streams
<1>2. phase \in [Streams -> Phases] /\ open \subseteq 1..launched
  BY DEF StreamInv, StreamsTypeOK, Phases
<1>3. /\ phase' \in [Streams -> Phases] /\ phase'[launched'] = "fetching"
      /\ \A s \in Streams : s # launched' => phase'[s] = phase[s]
  BY <1>1, <1>2 DEF Phases
<1>4. open' \subseteq 1..launched' BY <1>1, <1>2
<1>5. StreamsTypeOK'
  BY <1>1, <1>3, <1>4 DEF StreamInv, StreamsTypeOK, Phases
<1>6. NewAreUntouched' /\ phase[launched'] = "new"
  BY <1>1, <1>3 DEF StreamInv, NewAreUntouched, Streams
<1> QED BY <1>1, <1>3, <1>5, <1>6 DEF StreamInv

LEMMA ResponseKeeps ==
  ASSUME StreamInv, NEW s \in Streams, Answered(s) \/ Done(s) \/ Broken(s)
  PROVE  /\ StreamInv' /\ launched' = launched
         /\ s \in 1..launched
         /\ \A r \in Streams : Live(r)' => Live(r)
         /\ \A r \in Streams : r # s => phase'[r] = phase[r]
<1>1. /\ phase[s] \in {"fetching", "reading"}
      /\ \E p \in {"reading", "ended", "broken"} : phase' = [phase EXCEPT ![s] = p]
      /\ open' \subseteq open /\ launched' = launched /\ emitted' = emitted
  BY DEF Answered, Done, Broken
<1>2. /\ phase' \in [Streams -> Phases]
      /\ \A r \in Streams : r # s => phase'[r] = phase[r]
  BY <1>1, LaunchedTyped DEF Phases
<1>3. StreamsTypeOK'
  BY <1>1, <1>2 DEF StreamInv, StreamsTypeOK, Phases
<1>4. s \in 1..launched BY <1>1, UsedIsLaunched
<1>5. NewAreUntouched'
  BY <1>1, <1>2, <1>4, LaunchedTyped DEF StreamInv, NewAreUntouched
<1>6. \A r \in Streams : Live(r)' => Live(r)
  BY <1>1, <1>2 DEF Live
<1> QED BY <1>1, <1>2, <1>3, <1>4, <1>5, <1>6 DEF StreamInv

LEMMA LineKeeps ==
  ASSUME StreamInv, NEW s \in Streams, Line(s)
  PROVE  /\ StreamInv' /\ launched' = launched /\ phase' = phase
         /\ s \in 1..launched /\ Live(s)
         /\ emitted'[s] \in 1..MaxEvents
<1>1. /\ launched' = launched /\ phase' = phase /\ open' = open
      /\ emitted' = [emitted EXCEPT ![s] = @ + 1]
      /\ phase[s] = "reading" /\ emitted[s] < MaxEvents
  BY DEF Line
<1>2. emitted[s] \in 0..MaxEvents /\ MaxEvents \in Nat BY LaunchedTyped
<1>3. emitted[s] + 1 \in 1..MaxEvents BY <1>1, <1>2
<1>4. /\ emitted' \in [Streams -> 0..MaxEvents] /\ emitted'[s] \in 1..MaxEvents
      /\ \A r \in Streams : r # s => emitted'[r] = emitted[r]
  BY <1>1, <1>3, LaunchedTyped
<1>5. s \in 1..launched /\ Live(s) BY <1>1, UsedIsLaunched, LaunchedTyped DEF Live
<1>6. StreamsTypeOK' BY <1>1, <1>4 DEF StreamInv, StreamsTypeOK
<1>7. NewAreUntouched'
  BY <1>1, <1>4, <1>5, LaunchedTyped DEF StreamInv, NewAreUntouched
<1> QED BY <1>1, <1>4, <1>5, <1>6, <1>7 DEF StreamInv

LEMMA ReleaseKeeps ==
  ASSUME StreamInv, NEW given \in SUBSET Streams, Release(given),
         \A r \in given : Live(r)
  PROVE  /\ StreamInv' /\ launched' = launched
         /\ \A r \in Streams : Live(r)' => Live(r) /\ r \notin given
         /\ \A r \in Streams : r \notin given => phase'[r] = phase[r]
<1>1. /\ launched' = launched /\ emitted' = emitted /\ open' \subseteq open
      /\ phase' = [s \in Streams |-> IF s \in given THEN "ended" ELSE phase[s]]
  BY DEF Release
<1>2. /\ phase' \in [Streams -> Phases]
      /\ \A r \in Streams : r \notin given => phase'[r] = phase[r]
      /\ \A r \in given : phase'[r] = "ended"
  BY <1>1, LaunchedTyped DEF Phases
<1>3. StreamsTypeOK' BY <1>1, <1>2 DEF StreamInv, StreamsTypeOK, Phases
<1>4. NewAreUntouched' BY <1>1, <1>2 DEF StreamInv, NewAreUntouched, Live
<1> QED BY <1>1, <1>2, <1>3, <1>4 DEF Live, StreamInv

----------------------------------------------------------------------------
(* The invariant of the four panels.                                       *)

\* What a panel of another kind does not use stays as it was made.
SampleQuiet ==
  /\ active = TRUE /\ isRunning = FALSE /\ stopped = {}
  /\ rows = <<>> /\ snapshot = NoSnapshot

DNSQuiet == writer = [p \in Pairs |-> None] /\ loading = FALSE /\ spin = {}

HTTPQuiet ==
  /\ gen = 0 /\ reader = None /\ tick = None /\ evs = <<>> /\ caught = {}
  /\ key = [s \in Streams |-> 0]
  /\ loop = [s \in Streams |-> "none"]
  /\ queue = [s \in Streams |-> <<>>]

DNSTyped ==
  writer \in [Pairs -> 0..launched] /\ loading \in BOOLEAN /\ spin \subseteq 1..launched

\* A request that is live is the newest and followed, or was given up early.
DNSInv ==
  /\ DNSTyped
  /\ early \subseteq 1..launched
  /\ timer \in BOOLEAN
  /\ ref \in {None, launched}
  /\ timer \/ mounted # "yes" => ref = None
  /\ timer => mounted = "yes"
  /\ \A s \in Streams : Live(s) => s = ref \/ s \in early

Loops == {"none", "tick", "read", "over"}
Listed == [stream : Streams, id : EventIds]

HTTPTyped ==
  /\ gen \in 0..launched /\ key \in [Streams -> 0..gen]
  /\ reader \in 0..launched /\ tick \in 0..launched
  /\ loop \in [Streams -> Loops]
  /\ queue \in [Streams -> Seq(EventIds)]
  /\ evs \in Seq(Listed)
  /\ caught \subseteq 1..launched

Reading(s) == loop[s] \in {"tick", "read"}

\* A loop that goes on is that of the current reader or was caught in a read.
LoopsAreKnown == \A s \in Streams : Reading(s) => s = reader \/ s \in caught

HTTPInv ==
  /\ HTTPTyped
  /\ timer = FALSE /\ ref = None /\ early = {}
  /\ LoopsAreKnown
  /\ ListIsSound

ProbeInv ==
  /\ StreamInv
  /\ mounted \in {"no", "yes", "gone"}
  /\ \/ kind \in {"ping", "trace"} /\ PanelInv /\ DNSQuiet /\ HTTPQuiet
     \/ kind = "dns" /\ SampleQuiet /\ HTTPQuiet /\ DNSInv
     \/ kind = "http" /\ SampleQuiet /\ DNSQuiet /\ HTTPInv

LEMMA QuietTyped ==
  ASSUME StreamInv
  PROVE  /\ SampleQuiet => /\ active \in BOOLEAN /\ isRunning \in BOOLEAN
                           /\ stopped \subseteq 1..launched /\ rows \in Table
                           /\ snapshot \in [set : BOOLEAN, rows : Table]
         /\ DNSQuiet => DNSTyped
         /\ HTTPQuiet => HTTPTyped /\ ListIsSound /\ LoopsAreKnown
<1>1. <<>> \in Table /\ <<>> \in Seq(EventIds) /\ <<>> \in Seq(Listed)
  BY EmptySeq DEF Table
<1>2. NoSnapshot \in [set : BOOLEAN, rows : Table]
  BY <1>1, Zenon DEF NoSnapshot
<1>3. 0 \in 0..launched BY LaunchedTyped
<1>4. HTTPQuiet => HTTPTyped
  BY <1>1, <1>3 DEF HTTPQuiet, HTTPTyped, Loops, None
<1>5. HTTPQuiet => ListIsSound /\ LoopsAreKnown
  BY DEF HTTPQuiet, ListIsSound, ListedIsCurrentOrCaught, ListedOnce, LoopsAreKnown, Reading
<1> QED BY <1>1, <1>2, <1>3, <1>4, <1>5 DEF SampleQuiet, DNSQuiet, DNSTyped, None

LEMMA ProbeInvImplies ==
  ASSUME ProbeInv
  PROVE  ProbePanelsTypeOK /\ ListIsSound /\ OpenIsFollowedOrEarly
<1>1. /\ launched \in Nat /\ MaxStreams \in Nat /\ launched <= MaxStreams
  BY LaunchedTyped DEF ProbeInv
<1>2. SamplePanelsTypeOK
  <2>1. CASE PanelInv BY <2>1 DEF PanelInv
  <2>2. CASE SampleQuiet /\ DNSInv
    <3>1. ref \in 0..launched BY <1>1, <2>2 DEF DNSInv, None
    <3> QED
      BY <2>2, <3>1, QuietTyped DEF ProbeInv, StreamInv, DNSInv, SamplePanelsTypeOK, Table
  <2>3. CASE SampleQuiet /\ HTTPInv
    <3>1. ref \in 0..launched BY <1>1, <2>3 DEF HTTPInv, None
    <3> QED
      BY <2>3, <3>1, QuietTyped DEF ProbeInv, StreamInv, HTTPInv, SamplePanelsTypeOK, Table
  <2> QED BY <2>1, <2>2, <2>3 DEF ProbeInv
<1>3. DNSTyped /\ HTTPTyped /\ ListIsSound
  BY QuietTyped DEF ProbeInv, DNSInv, HTTPInv
<1>4. gen \in 0..MaxStreams BY <1>1, <1>3 DEF HTTPTyped
<1>5. ProbePanelsTypeOK
  BY <1>2, <1>3, <1>4 DEF ProbePanelsTypeOK, DNSTyped, HTTPTyped, Loops, Listed
<1>6. OpenIsFollowedOrEarly
  BY DEF ProbeInv, PanelInv, OpenIsFollowedOrEarly, SamplePanel
<1> QED BY <1>3, <1>5, <1>6

LEMMA ProbeInvInit == Init => ProbeInv
<1> SUFFICES ASSUME Init PROVE ProbeInv
  OBVIOUS
<1>1. PanelInit /\ StreamsInit BY DEF Init, ProbeInit, PanelInit
<1>2. StreamInv
  BY <1>1, HubStreamsConstants
  DEF StreamInv, StreamsInit, StreamsTypeOK, NewAreUntouched, Streams
<1>3. DNSQuiet /\ HTTPQuiet /\ SampleQuiet
  BY DEF Init, ProbeInit, PanelInit, DNSQuiet, HTTPQuiet, SampleQuiet
<1>4. CASE kind \in {"ping", "trace"}
  <2>1. PanelInv BY <1>1, <1>4, PanelInvInit DEF SamplePanelsInit
  <2> QED BY <1>1, <1>2, <1>3, <1>4, <2>1 DEF ProbeInv, PanelInit
<1>5. CASE kind = "dns"
  <2>1. DNSInv
    BY <1>1, <1>2, <1>3, QuietTyped DEF DNSInv, PanelInit, StreamsInit, Live
  <2> QED BY <1>1, <1>2, <1>3, <1>5, <2>1 DEF ProbeInv, PanelInit
<1>6. CASE kind = "http"
  <2>1. HTTPInv BY <1>1, <1>2, <1>3, QuietTyped DEF HTTPInv, PanelInit
  <2> QED BY <1>1, <1>2, <1>3, <1>6, <2>1 DEF ProbeInv, PanelInit
<1> QED BY <1>4, <1>5, <1>6 DEF Init

----------------------------------------------------------------------------
(* A step of a DNS panel.                                                  *)

Forward(p) == writer'[p] # writer[p] => writer'[p] > writer[p] \/ writer'[p] \in early

\* Cleanup of the effect: whatever was followed and is still live is early.
LEMMA CleanupKeeps ==
  ASSUME StreamInv, DNSInv, DNSCleanup
  PROVE  /\ StreamInv' /\ launched' = launched /\ ref' = None
         /\ early' \subseteq 1..launched
         /\ \A s \in Streams : Live(s)' => s \in early'
<1> DEFINE given == IF Live(ref) /\ phase[ref] = "reading" THEN {ref} ELSE {}
<1>1. ref \in {None} \cup (1..launched) /\ (ref # None => ref \in Streams)
  BY LaunchedTyped DEF DNSInv, None
<1>2. given \in SUBSET Streams /\ (\A r \in given : Live(r)) /\ Release(given)
  BY <1>1 DEF DNSCleanup, Live
<1>3. /\ StreamInv' /\ launched' = launched
      /\ \A r \in Streams : Live(r)' => Live(r) /\ r \notin given
      /\ \A r \in Streams : r \notin given => phase'[r] = phase[r]
  BY <1>2, ReleaseKeeps
<1>4. /\ ref' = None
      /\ early' = IF Live(ref) /\ phase[ref] = "fetching" THEN early \cup {ref} ELSE early
  BY DEF DNSCleanup
<1>5. early' \subseteq 1..launched BY <1>1, <1>4 DEF DNSInv, Live
<1>6. ASSUME NEW s \in Streams, Live(s)' PROVE s \in early'
  <2>1. Live(s) /\ s \notin given BY <1>3, <1>6
  <2>2. s # ref => s \in early BY <2>1 DEF DNSInv
  <2>3. s = ref => phase[ref] = "fetching" BY <2>1 DEF Live
  <2> QED BY <1>4, <2>1, <2>2, <2>3
<1> QED BY <1>3, <1>4, <1>5, <1>6

LEMMA DNSStep ==
  ASSUME ProbeInv, kind = "dns", ProbePanelsNext
  PROVE  ProbeInv' /\ \A p \in Pairs : Forward(p)
<1> USE DEF panelVars, dnsVars, httpVars
<1>1. /\ StreamInv /\ SampleQuiet /\ HTTPQuiet /\ DNSInv
      /\ mounted \in {"no", "yes", "gone"}
  BY DEF ProbeInv
<1> DEFINE Kept == /\ StreamInv' /\ SampleQuiet' /\ HTTPQuiet' /\ DNSInv' /\ kind' = "dns"
                   /\ mounted' \in {"no", "yes", "gone"}
                   /\ \A q \in Pairs : Forward(q)
<1>2. SUFFICES Kept BY DEF ProbeInv
<1>3. ASSUME writer' = writer PROVE \A p \in Pairs : Forward(p)
  BY <1>3 DEF Forward
<1>4. CASE DNSMount
  <2>1. StreamInv' BY <1>1, <1>4 DEF DNSMount, streamVars, StreamInv, StreamsTypeOK, NewAreUntouched
  <2>2. SampleQuiet' /\ HTTPQuiet' /\ kind' = "dns" /\ writer' = writer /\ mounted' = "yes"
    BY <1>1, <1>4 DEF DNSMount, SampleQuiet, HTTPQuiet
  <2>3. DNSInv' BY <1>1, <1>4 DEF DNSMount, DNSInv, DNSTyped, streamVars, Live
  <2> QED BY <1>3, <2>1, <2>2, <2>3
<1>5. CASE DNSLaunch
  <2>1. /\ StreamInv' /\ launched' = launched + 1 /\ launched' \in Streams
        /\ \A s \in Streams : s # launched' => phase'[s] = phase[s]
    BY <1>1, <1>5, FetchKeeps DEF DNSLaunch
  <2>2. /\ SampleQuiet' /\ HTTPQuiet' /\ kind' = "dns" /\ mounted' = mounted
        /\ UNCHANGED <<writer, loading, spin, early>>
        /\ timer' = FALSE /\ ref' = launched' /\ timer
    BY <1>1, <1>5 DEF DNSLaunch, SampleQuiet, HTTPQuiet
  <2>3. launched \in Nat /\ \A n : n \in 0..launched => n \in 0..launched'
    BY <1>1, <2>1, LaunchedTyped
  <2>4. \A n \in 1..launched : n \in 1..launched' BY <2>1, <2>3
  <2>5. DNSTyped' BY <1>1, <2>2, <2>3, <2>4 DEF DNSInv, DNSTyped
  <2>6. \A s \in Streams : Live(s)' => s = ref' \/ s \in early'
    BY <1>1, <2>1, <2>2 DEF DNSInv, Live, None
  <2>7. early' \subseteq 1..launched' BY <1>1, <2>2, <2>4 DEF DNSInv
  <2>8. mounted = "yes" BY <1>1, <2>2 DEF DNSInv
  <2>9. DNSInv' BY <2>2, <2>5, <2>6, <2>7, <2>8 DEF DNSInv
  <2> QED BY <1>1, <1>3, <2>1, <2>2, <2>9
<1>6. CASE DNSRefresh \/ DNSUnmount
  <2>1. /\ StreamInv' /\ launched' = launched /\ ref' = None
        /\ early' \subseteq 1..launched
        /\ \A s \in Streams : Live(s)' => s \in early'
    BY <1>1, <1>6, CleanupKeeps DEF DNSRefresh, DNSUnmount
  <2>2. /\ SampleQuiet' /\ HTTPQuiet' /\ kind' = "dns"
        /\ UNCHANGED <<writer, loading, spin>>
        /\ timer' \in BOOLEAN /\ mounted' \in {"yes", "gone"}
        /\ timer' => mounted' = "yes"
    BY <1>1, <1>6 DEF DNSRefresh, DNSUnmount, SampleQuiet, HTTPQuiet
  <2>3. DNSInv' BY <1>1, <2>1, <2>2 DEF DNSInv, DNSTyped
  <2> QED BY <1>3, <2>1, <2>2, <2>3
<1>7. ASSUME NEW s \in Streams, DNSResponse(s) PROVE Kept
  <2>1. /\ StreamInv' /\ launched' = launched
        /\ \A r \in Streams : Live(r)' => Live(r)
    BY <1>1, <1>7, ResponseKeeps DEF DNSResponse
  <2>2. SampleQuiet' /\ HTTPQuiet' /\ kind' = "dns" /\ writer' = writer /\ mounted' = mounted
    BY <1>1, <1>7 DEF DNSResponse, SampleQuiet, HTTPQuiet
  <2>3. DNSInv' BY <1>1, <1>7, <2>1 DEF DNSResponse, DNSInv, DNSTyped
  <2> QED BY <1>1, <1>3, <2>1, <2>2, <2>3
<1>8. ASSUME NEW s \in Streams, DNSSpinnerTimer(s) PROVE Kept
  <2>1. StreamInv'
    BY <1>1, <1>8 DEF DNSSpinnerTimer, streamVars, StreamInv, StreamsTypeOK, NewAreUntouched
  <2>2. SampleQuiet' /\ HTTPQuiet' /\ kind' = "dns" /\ writer' = writer /\ mounted' = mounted
    BY <1>1, <1>8 DEF DNSSpinnerTimer, SampleQuiet, HTTPQuiet
  <2>3. DNSInv' BY <1>1, <1>8 DEF DNSSpinnerTimer, DNSInv, DNSTyped, streamVars, Live
  <2> QED BY <1>1, <1>3, <2>1, <2>2, <2>3
<1>9. ASSUME NEW s \in Streams, NEW p \in Pairs, DNSAnswerRead(s, p) PROVE Kept
  <2>1. StreamInv' /\ launched' = launched /\ phase' = phase /\ s \in 1..launched /\ Live(s)
    BY <1>1, <1>9, LineKeeps DEF DNSAnswerRead
  <2>2. /\ SampleQuiet' /\ HTTPQuiet' /\ kind' = "dns" /\ mounted' = mounted
        /\ writer' = [writer EXCEPT ![p] = s] /\ loading' = TRUE /\ spin' = spin \cup {s}
        /\ UNCHANGED <<timer, ref, early>>
    BY <1>1, <1>9 DEF DNSAnswerRead, SampleQuiet, HTTPQuiet
  <2>3. launched \in Nat /\ writer \in [Pairs -> 0..launched]
    BY <1>1, LaunchedTyped DEF DNSInv, DNSTyped
  <2>4. DNSTyped'
    <3>1. writer' \in [Pairs -> 0..launched] BY <2>1, <2>2, <2>3
    <3> QED BY <1>1, <2>1, <2>2, <3>1 DEF DNSInv, DNSTyped
  <2>5. DNSInv' BY <1>1, <2>1, <2>2, <2>4 DEF DNSInv, Live
  <2>6. s = launched \/ s \in early BY <1>1, <2>1 DEF DNSInv, None
  <2>7. ASSUME NEW q \in Pairs PROVE Forward(q)
    <3>1. CASE q = p
      <4>1. writer'[q] = s /\ writer[q] \in 0..launched BY <2>2, <2>3, <3>1
      <4> QED BY <2>3, <2>6, <4>1 DEF Forward
    <3>2. CASE q # p BY <2>2, <2>3, <3>2 DEF Forward
    <3> QED BY <3>1, <3>2
  <2> QED BY <1>1, <2>1, <2>2, <2>5, <2>7
<1> QED
  BY <1>4, <1>5, <1>6, <1>7, <1>8, <1>9
  DEF ProbePanelsNext, HTTPMount, HTTPRefresh, HTTPFocus, HTTPUnmount, HTTPAnswered,
      HTTPEnds, HTTPBreaks, HTTPTick, HTTPRead, HTTPReadDone, HTTPLine

----------------------------------------------------------------------------
(* A step of an HTTP panel.                                                *)

\* What a step that launches or answers leaves of the loops and the list.
ListKept ==
  /\ \A s \in Streams : Reading(s)' => s = reader' \/ s \in caught'
  /\ evs' = <<>> \/ (evs' = evs /\ \A i \in DOMAIN evs : evs[i].stream \in {reader'} \cup caught')

LEMMA ListKeptIsSound ==
  ASSUME ListIsSound, ListKept
  PROVE  LoopsAreKnown' /\ ListIsSound'
  BY DEF ListKept, ListIsSound, ListedIsCurrentOrCaught, ListedOnce, LoopsAreKnown

\* Cleanup of the effect of useEVsRead, by a refresh or when the panel goes.
LEMMA EVsCleanupKeeps ==
  ASSUME StreamInv, HTTPInv, reader' = None,
         IF reader # None THEN EVsCleanup ELSE UNCHANGED <<tick, loop, evs, caught>>
  PROVE  /\ ListKept
         /\ tick' \in {tick, None} /\ loop' \in [Streams -> Loops] /\ evs' \in Seq(Listed)
         /\ caught' \subseteq 1..launched
<1>1. /\ reader \in 0..launched /\ loop \in [Streams -> Loops] /\ caught \subseteq 1..launched
      /\ evs \in Seq(Listed)
      /\ \A s \in Streams : Reading(s) => s = reader \/ s \in caught
      /\ \A i \in DOMAIN evs : evs[i].stream \in {reader} \cup caught
  BY DEF HTTPInv, HTTPTyped, LoopsAreKnown, ListIsSound, ListedIsCurrentOrCaught
<1>2. \A s \in Streams : s # None BY LaunchedTyped
<1>3. CASE reader # None
  <2>1. /\ tick' = None /\ evs' = <<>>
        /\ loop' = [s \in Streams |-> IF s = tick /\ loop[s] = "tick" THEN "over" ELSE loop[s]]
        /\ caught' = caught \cup {s \in Streams : loop'[s] \in {"tick", "read"}}
    BY <1>3 DEF EVsCleanup
  <2>2. /\ loop' \in [Streams -> Loops]
        /\ \A s \in Streams : Reading(s)' => Reading(s) /\ s \in caught'
    BY <1>1, <2>1 DEF Loops, Reading
  <2>3. ASSUME NEW s \in Streams, Reading(s) PROVE s \in 1..launched
    <3>1. s # 0 BY <1>2 DEF None
    <3>2. s = reader \/ s \in caught BY <1>1, <2>3
    <3>3. launched \in Nat BY LaunchedTyped
    <3>4. reader \in 0..launched /\ caught \subseteq 1..launched BY <1>1
    <3>5. CASE s = reader BY <3>1, <3>3, <3>4, <3>5
    <3>6. CASE s \in caught BY <3>4, <3>6
    <3> QED BY <3>2, <3>5, <3>6
  <2>4. caught' \subseteq 1..launched BY <1>1, <2>1, <2>2, <2>3 DEF Reading
  <2>5. <<>> \in Seq(Listed) BY EmptySeq
  <2> QED BY <2>1, <2>2, <2>4, <2>5 DEF ListKept
<1>4. CASE reader = None
  <2>1. UNCHANGED <<tick, loop, evs, caught>> BY <1>4
  <2> QED BY <1>1, <1>2, <1>4, <2>1 DEF ListKept, Reading
<1> QED BY <1>3, <1>4

\* A read is answered: the event is listed unless it is there, and the loop
\* goes on with tickRef, or ends when tickRef is undefined.
LEMMA HTTPReadKeeps ==
  ASSUME StreamInv, HTTPInv, NEW s \in Streams, HTTPRead(s)
  PROVE  HTTPInv'
<1>1. /\ UNCHANGED <<timer, ref, early, gen, key, reader, caught, launched>>
      /\ loop[s] = "read" /\ queue[s] # <<>>
      /\ queue' = [queue EXCEPT ![s] = Tail(queue[s])]
  BY DEF HTTPRead, panelVars, streamVars
<1>2. /\ loop \in [Streams -> Loops] /\ queue \in [Streams -> Seq(EventIds)]
      /\ evs \in Seq(Listed) /\ Reading(s)
      /\ s = reader \/ s \in caught
      /\ reader \in 0..launched /\ caught \subseteq 1..launched
  BY <1>1 DEF HTTPInv, HTTPTyped, LoopsAreKnown, Reading
<1>3. /\ queue[s] \in Seq(EventIds) /\ Head(queue[s]) \in EventIds
      /\ queue' \in [Streams -> Seq(EventIds)]
  <2>1. queue[s] \in Seq(EventIds) BY <1>2
  <2>2. Head(queue[s]) \in EventIds /\ Tail(queue[s]) \in Seq(EventIds)
    BY <1>1, <2>1, HeadTailProperties
  <2> QED BY <1>1, <1>2, <2>1, <2>2
<1>4. CASE tick = None
  <2>1. loop' = [loop EXCEPT ![s] = "over"] /\ tick' = tick /\ evs' = evs
    BY <1>4 DEF HTTPRead
  <2>2. loop' \in [Streams -> Loops] BY <1>2, <2>1 DEF Loops
  <2>3. HTTPTyped' BY <1>1, <1>3, <2>1, <2>2 DEF HTTPInv, HTTPTyped
  <2>4. \A r \in Streams : Reading(r)' => Reading(r) BY <1>2, <2>1 DEF Reading
  <2>5. ListKept
    BY <1>1, <2>1, <2>4
    DEF ListKept, HTTPInv, LoopsAreKnown, ListIsSound, ListedIsCurrentOrCaught
  <2> QED BY <1>1, <2>3, <2>5, ListKeptIsSound DEF HTTPInv
<1>5. CASE tick # None
  <2> DEFINE id == Head(queue[s])
             new == [stream |-> s, id |-> id]
  <2>1. loop' = [loop EXCEPT ![s] = "tick"] /\ tick' = s /\ evs' = AppendEvent(s, id)
    BY <1>5 DEF HTTPRead
  <2>2. loop' \in [Streams -> Loops] BY <1>2, <2>1 DEF Loops
  <2>3. s \in 0..launched
    <3>1. s \in 1..launched => s \in 0..launched BY LaunchedTyped
    <3> QED BY <1>2, <3>1
  <2>4. \A r \in Streams : Reading(r)' => Reading(r) BY <1>1, <1>2, <2>1 DEF Reading
  <2>5. LoopsAreKnown' BY <1>1, <2>4 DEF HTTPInv, LoopsAreKnown
  <2>6. CASE Known(id)
    <3>1. evs' = evs BY <2>1, <2>6 DEF AppendEvent
    <3>2. HTTPTyped' BY <1>1, <1>3, <2>1, <2>2, <2>3, <3>1 DEF HTTPInv, HTTPTyped
    <3>3. ListIsSound'
      BY <1>1, <3>1 DEF HTTPInv, ListIsSound, ListedIsCurrentOrCaught, ListedOnce
    <3> QED BY <1>1, <2>5, <3>2, <3>3 DEF HTTPInv
  <2>7. CASE ~Known(id)
    <3>1. evs' = Append(evs, new) BY <2>1, <2>7 DEF AppendEvent
    <3>2. new \in Listed BY <1>3 DEF Listed
    <3> HIDE DEF new
    <3>3. /\ evs' \in Seq(Listed) /\ Len(evs) \in Nat /\ Len(evs') = Len(evs) + 1
          /\ \A i \in 1..Len(evs) : evs'[i] = evs[i]
          /\ evs'[Len(evs) + 1] = new
          /\ DOMAIN evs = 1..Len(evs) /\ DOMAIN evs' = 1..Len(evs')
      BY <1>2, <3>1, <3>2, AppendProperties, LenProperties
    <3>4. new.stream = s /\ new.id = id BY DEF new
    <3> HIDE DEF id
    <3>5. \A i \in 1..Len(evs) : evs[i].id # id BY <2>7, <3>3 DEF Known
    <3>6. \A i \in DOMAIN evs' : i \in 1..Len(evs) \/ i = Len(evs) + 1 BY <3>3
    <3>7. ListedIsCurrentOrCaught'
      BY <1>1, <1>2, <3>3, <3>4, <3>6
      DEF HTTPInv, ListIsSound, ListedIsCurrentOrCaught
    <3>8. ListedOnce'
      <4> SUFFICES ASSUME NEW i \in DOMAIN evs', NEW j \in DOMAIN evs',
                          evs'[i].id = evs'[j].id
                   PROVE  i = j
        BY DEF ListedOnce
      <4>1. CASE i \in 1..Len(evs) /\ j \in 1..Len(evs)
        BY <3>3, <4>1 DEF HTTPInv, ListIsSound, ListedOnce
      <4> QED BY <3>3, <3>4, <3>5, <3>6, <4>1
    <3>9. HTTPTyped' BY <1>1, <1>3, <2>1, <2>2, <2>3, <3>3 DEF HTTPInv, HTTPTyped
    <3> QED BY <1>1, <2>5, <3>7, <3>8, <3>9 DEF HTTPInv, ListIsSound
  <2> QED BY <2>6, <2>7
<1> QED BY <1>4, <1>5

\* A request for the generation g, which the page may have just made.
LEMMA QueryKeeps ==
  ASSUME StreamInv, HTTPInv, NEW g, QueryFor(g), g \in {gen, gen + 1}
  PROVE  /\ StreamInv' /\ launched' = launched + 1
         /\ \A n \in 0..launched : n \in 0..launched'
         /\ \A n \in 1..launched : n \in 1..launched'
         /\ g \in 0..launched' /\ key' \in [Streams -> 0..g]
<1>1. StreamInv' /\ launched' = launched + 1 /\ launched' \in Streams
  BY FetchKeeps DEF QueryFor
<1>2. launched \in Nat /\ gen \in 0..launched BY LaunchedTyped DEF HTTPInv, HTTPTyped
<1>3. g \in 0..launched' /\ g \in Nat /\ \A n \in 0..gen : n \in 0..g BY <1>1, <1>2
<1>4. key \in [Streams -> 0..g] BY <1>3 DEF HTTPInv, HTTPTyped
<1>5. key' = [key EXCEPT ![launched'] = g] BY DEF QueryFor
<1>6. g \in 0..g BY <1>3
<1>7. key' \in [Streams -> 0..g] BY <1>4, <1>5, <1>6
<1>8. \A n : /\ n \in 0..launched => n \in 0..launched'
             /\ n \in 1..launched => n \in 1..launched'
  BY <1>1, <1>2
<1> QED BY <1>1, <1>3, <1>7, <1>8

\* The answer to a request becomes the reader of the panel when it is one for
\* the current key.
LEMMA HTTPAnsweredKeeps ==
  ASSUME StreamInv, HTTPInv, NEW s \in Streams, HTTPAnswered(s)
  PROVE  StreamInv' /\ HTTPInv'
<1>1. StreamInv' /\ launched' = launched /\ s \in 1..launched
  BY ResponseKeeps DEF HTTPAnswered
<1>2. UNCHANGED <<timer, ref, early, gen, key, queue>>
  BY DEF HTTPAnswered, panelVars
<1>3. /\ loop \in [Streams -> Loops] /\ caught \subseteq 1..launched /\ evs \in Seq(Listed)
      /\ reader \in 0..launched
      /\ \A r \in Streams : Reading(r) => r = reader \/ r \in caught
      /\ \A i \in DOMAIN evs : evs[i].stream \in {reader} \cup caught
  BY DEF HTTPInv, HTTPTyped, LoopsAreKnown, ListIsSound, ListedIsCurrentOrCaught
<1>4. /\ s \in 0..launched /\ s # None /\ <<>> \in Seq(Listed)
      /\ \A r \in Streams : r # None
  BY <1>1, LaunchedTyped, EmptySeq DEF None
<1>5. CASE mounted = "yes" /\ key[s] = gen /\ reader # None
  <2>1. /\ reader' = s /\ tick' = s /\ evs' = <<>>
        /\ loop' = [r \in Streams |-> CASE r = s -> "tick"
                                        [] r = tick /\ loop[r] = "tick" -> "over"
                                        [] OTHER -> loop[r]]
        /\ caught' = caught \cup {r \in Streams \ {s} : loop'[r] \in {"tick", "read"}}
    BY <1>5 DEF HTTPAnswered
  <2>2. /\ loop' \in [Streams -> Loops]
        /\ \A r \in Streams \ {s} : Reading(r)' => Reading(r) /\ r \in caught'
    BY <1>3, <2>1 DEF Loops, Reading
  <2>3. \A r \in Streams : Reading(r) => r \in 1..launched
    <3>1. reader \in 1..launched BY <1>3, <1>5, LaunchedTyped DEF None
    <3> QED BY <1>3, <3>1
  <2>4. caught' \subseteq 1..launched BY <1>3, <2>1, <2>2, <2>3 DEF Reading
  <2>5. ListKept BY <2>1, <2>2 DEF ListKept
  <2>6. HTTPTyped' BY <1>1, <1>2, <1>4, <2>1, <2>2, <2>4 DEF HTTPInv, HTTPTyped
  <2> QED BY <1>1, <1>2, <2>5, <2>6, ListKeptIsSound DEF HTTPInv
<1>6. CASE mounted = "yes" /\ key[s] = gen /\ reader = None
  <2>1. /\ reader' = s /\ tick' = s /\ evs' = evs /\ caught' = caught
        /\ loop' = [loop EXCEPT ![s] = "tick"]
    BY <1>6 DEF HTTPAnswered
  <2>2. /\ loop' \in [Streams -> Loops]
        /\ \A r \in Streams \ {s} : Reading(r)' => Reading(r)
    BY <1>3, <2>1 DEF Loops, Reading
  <2>3. \A i \in DOMAIN evs : evs[i].stream \in caught
    <3> SUFFICES ASSUME NEW i \in DOMAIN evs PROVE evs[i].stream \in caught
      OBVIOUS
    <3>1. evs[i] \in Listed BY <1>3
    <3>2. evs[i].stream \in Streams BY <3>1 DEF Listed
    <3> QED BY <1>3, <1>4, <1>6, <3>2
  <2>4. ListKept BY <1>3, <1>4, <1>6, <2>1, <2>2, <2>3 DEF ListKept
  <2>5. HTTPTyped' BY <1>1, <1>2, <1>3, <1>4, <2>1, <2>2 DEF HTTPInv, HTTPTyped
  <2> QED BY <1>1, <1>2, <2>4, <2>5, ListKeptIsSound DEF HTTPInv
<1>7. CASE ~(mounted = "yes" /\ key[s] = gen)
  <2>1. UNCHANGED <<reader, tick, loop, evs, caught>> BY <1>7 DEF HTTPAnswered
  <2>2. ListKept BY <1>3, <2>1 DEF ListKept, Reading
  <2>3. HTTPTyped' BY <1>1, <1>2, <2>1 DEF HTTPInv, HTTPTyped
  <2> QED BY <1>1, <1>2, <2>2, <2>3, ListKeptIsSound DEF HTTPInv
<1> QED BY <1>1, <1>5, <1>6, <1>7

\* An event reaches a stream that is being read.
LEMMA HTTPLineKeeps ==
  ASSUME StreamInv, HTTPInv, NEW s \in Streams, NEW p \in Pairs, HTTPLine(s, p)
  PROVE  StreamInv' /\ HTTPInv'
<1>1. StreamInv' /\ launched' = launched /\ emitted'[s] \in 1..MaxEvents
  BY LineKeeps DEF HTTPLine
<1>2. /\ UNCHANGED <<timer, ref, early, gen, key, reader, loop, tick, evs, caught>>
      /\ queue' = [queue EXCEPT ![s] = Append(queue[s], <<p, emitted'[s]>>)]
  BY DEF HTTPLine, panelVars
<1>3. queue \in [Streams -> Seq(EventIds)] BY DEF HTTPInv, HTTPTyped
<1>4. <<p, emitted'[s]>> \in EventIds BY <1>1 DEF EventIds
<1>5. Append(queue[s], <<p, emitted'[s]>>) \in Seq(EventIds) BY <1>3, <1>4, AppendProperties
<1>6. queue' \in [Streams -> Seq(EventIds)] BY <1>2, <1>3, <1>5
<1>7. HTTPTyped' BY <1>1, <1>2, <1>6 DEF HTTPInv, HTTPTyped
<1>8. LoopsAreKnown' /\ ListIsSound'
  BY <1>2
  DEF HTTPInv, LoopsAreKnown, Reading, ListIsSound, ListedIsCurrentOrCaught, ListedOnce
<1> QED BY <1>1, <1>2, <1>7, <1>8 DEF HTTPInv

\* A step that leaves the streams, the readers and the list alone, but for a
\* loop that goes from its timer to its read or ends.
LEMMA HTTPQuietKeeps ==
  ASSUME HTTPInv, launched' = launched,
         UNCHANGED <<timer, ref, early, gen, key, reader, tick, evs, caught>>,
         queue' \in [Streams -> Seq(EventIds)], loop' \in [Streams -> Loops],
         \A s \in Streams : Reading(s)' => Reading(s)
  PROVE  HTTPInv'
<1>1. HTTPTyped' BY DEF HTTPInv, HTTPTyped
<1>2. LoopsAreKnown' /\ ListIsSound'
  BY DEF HTTPInv, LoopsAreKnown, ListIsSound, ListedIsCurrentOrCaught, ListedOnce
<1> QED BY <1>1, <1>2 DEF HTTPInv

LEMMA HTTPStep ==
  ASSUME ProbeInv, kind = "http", ProbePanelsNext
  PROVE  ProbeInv' /\ \A p \in Pairs : Forward(p)
<1> USE DEF panelVars, dnsVars
<1>1. /\ StreamInv /\ SampleQuiet /\ DNSQuiet /\ HTTPInv
      /\ mounted \in {"no", "yes", "gone"}
  BY DEF ProbeInv
<1> DEFINE Rest == /\ kind' = kind /\ mounted' \in {"no", "yes", "gone"}
                   /\ UNCHANGED <<active, isRunning, stopped, rows, snapshot>>
                   /\ UNCHANGED <<writer, loading, spin>>
<1>2. SUFFICES Rest /\ StreamInv' /\ HTTPInv'
  <2> SUFFICES ASSUME Rest, StreamInv', HTTPInv'
               PROVE  ProbeInv' /\ \A p \in Pairs : Forward(p)
    BY <1>2
  <2>1. SampleQuiet' /\ DNSQuiet' BY <1>1 DEF SampleQuiet, DNSQuiet
  <2> QED BY <2>1 DEF ProbeInv, Forward
<1>3. /\ HTTPTyped /\ timer = FALSE /\ ref = None /\ early = {}
      /\ \A r \in Streams : Reading(r) => r = reader \/ r \in caught
      /\ \A i \in DOMAIN evs : evs[i].stream \in {reader} \cup caught
      /\ LoopsAreKnown /\ ListIsSound
  BY <1>1 DEF HTTPInv, LoopsAreKnown, ListIsSound, ListedIsCurrentOrCaught
<1>4. CASE HTTPMount \/ HTTPFocus
  <2>1. /\ QueryFor(gen) /\ Rest
        /\ UNCHANGED <<timer, ref, early, gen, reader, loop, tick, queue, evs, caught>>
    BY <1>1, <1>4 DEF HTTPMount, HTTPFocus
  <2>2. /\ StreamInv' /\ \A n \in 0..launched : n \in 0..launched'
        /\ \A n \in 1..launched : n \in 1..launched'
        /\ key' \in [Streams -> 0..gen]
    BY <1>1, <2>1, QueryKeeps
  <2>3. HTTPTyped' BY <1>3, <2>1, <2>2 DEF HTTPTyped
  <2>4. ListKept BY <1>3, <2>1 DEF ListKept, Reading
  <2> QED BY <1>3, <2>1, <2>2, <2>3, <2>4, ListKeptIsSound DEF HTTPInv
<1>5. CASE HTTPRefresh
  <2>1. /\ QueryFor(gen + 1) /\ gen' = gen + 1 /\ Rest /\ reader' = None
        /\ IF reader # None THEN EVsCleanup ELSE UNCHANGED <<tick, loop, evs, caught>>
        /\ UNCHANGED <<timer, ref, early, queue>>
    BY <1>1, <1>5 DEF HTTPRefresh
  <2>2. /\ StreamInv' /\ \A n \in 0..launched : n \in 0..launched'
        /\ \A n \in 1..launched : n \in 1..launched'
        /\ gen' \in 0..launched' /\ key' \in [Streams -> 0..gen']
    BY <1>1, <2>1, QueryKeeps
  <2>3. /\ ListKept /\ tick' \in {tick, None} /\ loop' \in [Streams -> Loops]
        /\ evs' \in Seq(Listed) /\ caught' \subseteq 1..launched
    BY <1>1, <2>1, EVsCleanupKeeps
  <2>4. None \in 0..launched BY <1>1, LaunchedTyped DEF None
  <2>5. HTTPTyped' BY <1>3, <2>1, <2>2, <2>3, <2>4 DEF HTTPTyped
  <2> QED BY <1>3, <2>1, <2>2, <2>3, <2>5, ListKeptIsSound DEF HTTPInv
<1>6. CASE HTTPUnmount
  <2>1. /\ Rest /\ reader' = None
        /\ IF reader # None THEN EVsCleanup ELSE UNCHANGED <<tick, loop, evs, caught>>
        /\ UNCHANGED <<timer, ref, early, queue, gen, key>>
        /\ UNCHANGED streamVars
    BY <1>1, <1>6 DEF HTTPUnmount
  <2>2. StreamInv' /\ launched' = launched
    BY <1>1, <2>1 DEF streamVars, StreamInv, StreamsTypeOK, NewAreUntouched
  <2>3. /\ ListKept /\ tick' \in {tick, None} /\ loop' \in [Streams -> Loops]
        /\ evs' \in Seq(Listed) /\ caught' \subseteq 1..launched
    BY <1>1, <2>1, EVsCleanupKeeps
  <2>4. None \in 0..launched BY <1>1, LaunchedTyped DEF None
  <2>5. HTTPTyped' BY <1>3, <2>1, <2>2, <2>3, <2>4 DEF HTTPTyped
  <2> QED BY <1>3, <2>1, <2>2, <2>3, <2>5, ListKeptIsSound DEF HTTPInv
<1>7. ASSUME NEW s \in Streams, HTTPAnswered(s) PROVE Rest /\ StreamInv' /\ HTTPInv'
  <2>1. Rest BY <1>1, <1>7 DEF HTTPAnswered
  <2> QED BY <1>1, <1>7, <2>1, HTTPAnsweredKeeps
<1>8. ASSUME NEW s \in Streams, NEW p \in Pairs, HTTPLine(s, p)
      PROVE  Rest /\ StreamInv' /\ HTTPInv'
  <2>1. Rest BY <1>1, <1>8 DEF HTTPLine
  <2> QED BY <1>1, <1>8, <2>1, HTTPLineKeeps
<1>9. ASSUME NEW s \in Streams, HTTPEnds(s) PROVE Rest /\ StreamInv' /\ HTTPInv'
  <2>1. Rest /\ UNCHANGED <<timer, ref, early>> /\ UNCHANGED httpVars
    BY <1>1, <1>9 DEF HTTPEnds
  <2>2. StreamInv' /\ launched' = launched BY <1>1, <1>9, ResponseKeeps DEF HTTPEnds
  <2>3. HTTPInv'
    BY <1>1, <1>3, <2>1, <2>2, HTTPQuietKeeps DEF httpVars, HTTPTyped, Reading
  <2> QED BY <2>1, <2>2, <2>3
<1>10. ASSUME NEW s \in Streams, HTTPTick(s) \/ HTTPReadDone(s)
       PROVE  Rest /\ StreamInv' /\ HTTPInv'
  <2>1. /\ Rest /\ UNCHANGED streamVars /\ Reading(s)
        /\ UNCHANGED <<timer, ref, early, gen, key, reader, tick, queue, evs, caught>>
        /\ \E x \in {"read", "over"} : loop' = [loop EXCEPT ![s] = x]
    BY <1>1, <1>10 DEF HTTPTick, HTTPReadDone, Reading
  <2>2. StreamInv' /\ launched' = launched
    BY <1>1, <2>1 DEF streamVars, StreamInv, StreamsTypeOK, NewAreUntouched
  <2>3. /\ loop' \in [Streams -> Loops] /\ queue' \in [Streams -> Seq(EventIds)]
        /\ \A r \in Streams : Reading(r)' => Reading(r)
    BY <1>3, <2>1 DEF HTTPTyped, Loops, Reading
  <2>4. HTTPInv' BY <1>1, <2>1, <2>2, <2>3, HTTPQuietKeeps
  <2> QED BY <2>1, <2>2, <2>4
<1>11. ASSUME NEW s \in Streams, HTTPBreaks(s) PROVE Rest /\ StreamInv' /\ HTTPInv'
  <2>1. /\ Rest /\ UNCHANGED <<timer, ref, early, gen, key, reader, loop, tick, evs, caught>>
        /\ queue' = [queue EXCEPT ![s] = <<>>]
    BY <1>1, <1>11 DEF HTTPBreaks
  <2>2. StreamInv' /\ launched' = launched BY <1>1, <1>11, ResponseKeeps DEF HTTPBreaks
  <2>3. <<>> \in Seq(EventIds) BY EmptySeq
  <2>4. queue' \in [Streams -> Seq(EventIds)]
    BY <1>3, <2>1, <2>3 DEF HTTPTyped
  <2>5. HTTPInv'
    BY <1>1, <1>3, <2>1, <2>2, <2>4, HTTPQuietKeeps DEF HTTPTyped, Reading
  <2> QED BY <2>1, <2>2, <2>5
<1>12. ASSUME NEW s \in Streams, HTTPRead(s) PROVE Rest /\ StreamInv' /\ HTTPInv'
  <2>1. Rest /\ UNCHANGED streamVars BY <1>1, <1>12 DEF HTTPRead
  <2>2. StreamInv'
    BY <1>1, <2>1 DEF streamVars, StreamInv, StreamsTypeOK, NewAreUntouched
  <2> QED BY <1>1, <1>12, <2>1, <2>2, HTTPReadKeeps
<1> HIDE DEF Rest
<1> QED
  BY <1>4, <1>5, <1>6, <1>7, <1>8, <1>9, <1>10, <1>11, <1>12
  DEF ProbePanelsNext, DNSMount, DNSLaunch, DNSRefresh, DNSUnmount, DNSResponse,
      DNSSpinnerTimer, DNSAnswerRead

----------------------------------------------------------------------------
(* Any step, of any panel.                                                 *)

\* A step of a ping or traceroute panel.
LEMMA SampleStep ==
  ASSUME ProbeInv, SamplePanelsNext, UNCHANGED <<dnsVars, httpVars>>
  PROVE  /\ ProbeInv' /\ (\A p \in Pairs : Forward(p))
         /\ Feed!Next \/ UNCHANGED Feed!vars
<1>1. kind \in {"ping", "trace"}
  BY DEF ProbeInv, SamplePanelsNext, PingMount, LaunchStream, PingPause, PingResume,
     PingUnmount, TraceMount, StopTick, ResumeTick, TraceUnmount, PingResponse,
     PingSampleRead, TraceAnswered, TraceEventRead, TraceDone, TraceBroken
<1>2. PanelInv /\ DNSQuiet /\ HTTPQuiet BY <1>1 DEF ProbeInv
<1>3. PanelInv' /\ (Feed!Next \/ UNCHANGED Feed!vars) BY <1>2, PanelInvNext
<1>4. kind' = kind BY DEF SamplePanelsNext
<1>5. DNSQuiet' /\ HTTPQuiet' /\ writer' = writer
  BY <1>2 DEF DNSQuiet, HTTPQuiet, dnsVars, httpVars
<1>6. StreamInv' /\ mounted' \in {"no", "yes", "gone"}
  BY <1>3 DEF PanelInv, SamplePanelsTypeOK, StreamInv
<1>7. ProbeInv' BY <1>1, <1>3, <1>4, <1>5, <1>6 DEF ProbeInv
<1> QED BY <1>3, <1>5, <1>7 DEF Forward

LEMMA ProbeStutter ==
  ASSUME ProbeInv, UNCHANGED probeVars
  PROVE  /\ ProbeInv' /\ (\A p \in Pairs : Forward(p)) /\ UNCHANGED Feed!vars
<1>1. /\ UNCHANGED allVars
      /\ UNCHANGED <<launched, phase, open, emitted>>
      /\ UNCHANGED <<mounted, active, timer, ref, stopped, rows, snapshot, isRunning>>
      /\ UNCHANGED <<early, kind, writer, loading, spin>>
      /\ UNCHANGED <<gen, key, reader, loop, tick, queue, evs, caught>>
  BY DEF probeVars, allVars, streamVars, panelVars, dnsVars, httpVars
<1>2. StreamInv' BY <1>1 DEF ProbeInv, StreamInv, StreamsTypeOK, NewAreUntouched
<1>4. /\ SampleQuiet => SampleQuiet'
      /\ DNSQuiet => DNSQuiet'
      /\ HTTPQuiet => HTTPQuiet'
  BY <1>1 DEF SampleQuiet, DNSQuiet, HTTPQuiet
<1>5. DNSInv => DNSInv' BY <1>1 DEF DNSInv, DNSTyped, Live
<1>6. HTTPInv => HTTPInv'
  <2> SUFFICES ASSUME HTTPInv PROVE HTTPInv'
    OBVIOUS
  <2>1. loop \in [Streams -> Loops] /\ queue \in [Streams -> Seq(EventIds)]
    BY DEF HTTPInv, HTTPTyped
  <2> QED BY <1>1, <2>1, HTTPQuietKeeps DEF Reading
<1>7. PanelInv => PanelInv' BY <1>1, PanelInvStutter
<1>8. UNCHANGED Feed!vars BY <1>1 DEF Feed!vars, Shown, SamplePanel
<1> QED BY <1>1, <1>2, <1>4, <1>5, <1>6, <1>7, <1>8 DEF ProbeInv, Forward

LEMMA ProbeInvNext ==
  ASSUME ProbeInv, [Next]_probeVars
  PROVE  /\ ProbeInv' /\ (\A p \in Pairs : Forward(p))
         /\ Feed!Next \/ UNCHANGED Feed!vars
<1>1. CASE SamplePanelsNext /\ UNCHANGED <<dnsVars, httpVars>>
  BY <1>1, SampleStep
<1>2. CASE ProbePanelsNext
  <2>1. kind' = kind /\ kind \in {"dns", "http"}
    BY <1>2
    DEF ProbePanelsNext, DNSMount, DNSLaunch, DNSRefresh, DNSUnmount, DNSResponse,
        DNSSpinnerTimer, DNSAnswerRead, HTTPMount, HTTPRefresh, HTTPFocus, HTTPUnmount,
        HTTPAnswered, HTTPEnds, HTTPBreaks, HTTPTick, HTTPRead, HTTPReadDone, HTTPLine
  <2>2. UNCHANGED Feed!vars BY <2>1 DEF Feed!vars, SamplePanel
  <2> QED BY <1>2, <2>1, <2>2, DNSStep, HTTPStep
<1>3. CASE UNCHANGED probeVars BY <1>3, ProbeStutter
<1> QED BY <1>1, <1>2, <1>3 DEF Next

LEMMA ProbeInvAlways == Spec => []ProbeInv
<1>1. ProbeInv /\ [Next]_probeVars => ProbeInv'
  BY ProbeInvNext
<1> QED
  BY <1>1, ProbeInvInit, PTL DEF Spec

\* Every variable of the four panels keeps its type.
THEOREM ProbeTypes == Spec => []ProbePanelsTypeOK
<1>1. ProbeInv => ProbePanelsTypeOK
  BY ProbeInvImplies
<1> QED
  BY <1>1, ProbeInvAlways, PTL

\* An answer in a DNS table is replaced by one of a newer request, or of one
\* that was refreshed before its answer arrived (doRead() and the cleanup of
\* components/dnsprobedisplay.tsx).
THEOREM AnswersAreForward == Spec => AnswersGoForward
<1>1. ProbeInv /\ [Next]_probeVars =>
        [\A p \in Pairs :
           writer'[p] # writer[p] => writer'[p] > writer[p] \/ writer'[p] \in early]_probeVars
  BY ProbeInvNext DEF Forward
<1> QED
  BY <1>1, ProbeInvAlways, PTL DEF Spec, AnswersGoForward

\* An HTTP panel lists an event once, and only events of the current reader or
\* of one that was replaced while it was read (useEVsRead and setEVs(...)).
THEOREM ListStaysSound == Spec => []ListIsSound
<1>1. ProbeInv => ListIsSound
  BY ProbeInvImplies
<1> QED
  BY <1>1, ProbeInvAlways, PTL

\* With the DNS and HTTP panels beside them, what the hub still serves to a ping
\* or traceroute panel stays accounted for.
THEOREM ServedByAnyIsAccounted == Spec => []OpenIsFollowedOrEarly
<1>1. ProbeInv => OpenIsFollowedOrEarly
  BY ProbeInvImplies
<1> QED
  BY <1>1, ProbeInvAlways, PTL

\* And the ping and traceroute panels implement SampleFeed.
THEOREM AnyPanelImplementsFeed == Spec => PanelsImplementFeed
<1>1. Init => Feed!Init
  <2> SUFFICES ASSUME Init PROVE Feed!Init
    OBVIOUS
  <2>1. PanelInit BY DEF Init, ProbeInit
  <2>2. CASE SamplePanel
    BY <2>1, <2>2, PanelInvInit DEF SamplePanelsInit, SamplePanel
  <2>3. CASE ~SamplePanel
    BY <2>3 DEF Feed!Init, None
  <2> QED BY <2>2, <2>3
<1>2. ProbeInv /\ [Next]_probeVars => [Feed!Next]_(Feed!vars)
  BY ProbeInvNext
<1> QED
  BY <1>1, <1>2, ProbeInvAlways, PTL DEF Spec, PanelsImplementFeed, Feed!Spec
=============================================================================
