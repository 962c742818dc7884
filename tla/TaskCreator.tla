----------------------------- MODULE TaskCreator -----------------------------
(***************************************************************************)
(* The form that creates tasks (components/TaskCreatorPanel.tsx and the    *)
(* panels and selectors it shows), the dialog that validates and confirms  *)
(* a task (components/taskconfirm.tsx) and the list of tasks of the page   *)
(* (app/page.tsx).  "Add Task" takes the form as it is, works on it for a  *)
(* second while the form stays usable, puts the result in place of the     *)
(* form and opens the dialog.                                              *)
(***************************************************************************)
EXTENDS Naturals, Sequences, FiniteSets

CONSTANTS TaskTypes,      \* the task types offered
          Agents,         \* agents the hub may list
          Abilities,      \* [Agents -> SUBSET Filters]: their attributes
          Providers,      \* providers of routes and of IP information
          ListInputs,     \* what may be typed where a list is expected
          RouteInputs,    \* the same for the query of a route task
          TaskIds,        \* identifiers generateRandomTaskId may draw
          MaxEdits,       \* bound: edits of the form
          MaxTasks        \* bound: tasks on the page

\* Attributes an agent may be asked for: SupportUDP, SupportPMTU, SupportTCP,
\* CapabilityDNSProbe, CapabilityHTTPProbe.
Filters == {"udp", "pmtu", "tcp", "dns", "http"}

VARIABLES form,       \* pendingTask
          options,    \* options of the selector that is shown
          asked,      \* filters of its requests that have no answer yet
          adding,     \* the form taken by Add Task, while isPending
          dialog,     \* openTaskConfirmDialog
          tasks,      \* onGoingTasks; their order is layout only
          edits       \* edits so far

taskVars == <<form, options, asked, adding, dialog, tasks, edits>>

----------------------------------------------------------------------------
(* From inputs to targets.  A typed list is a sequence of words; a word is  *)
(* its text and whether blanks surround it, an empty text is a blank word. *)

Dedup(words) ==
  LET firsts == SelectSeq([i \in DOMAIN words |-> i],
                          LAMBDA i : \A j \in 1..(i - 1) : words[j] # words[i])
  IN [k \in DOMAIN firsts |-> words[firsts[k]]]

\* Duplicates go before the blanks do: "a, a" is two words, and gives "a" twice.
ParseList(words) ==
  LET deduped == Dedup(words)
  IN SelectSeq([i \in DOMAIN deduped |-> deduped[i].text], LAMBDA t : t # "")

\* expandDNSProbePlan: every domain at every resolver, numbered in that order.
DNSTargets(domains, resolvers) ==
  [i \in 1..(Len(domains) * Len(resolvers)) |->
     [corrId |-> i - 1,
      target |-> domains[((i - 1) \div Len(resolvers)) + 1],
      addrport |-> resolvers[((i - 1) % Len(resolvers)) + 1]]]

ExpandDNSProbeTask(f) ==
  [f EXCEPT !.dnsTargets = DNSTargets(ParseList(f.domainsInput), ParseList(f.resolversInput))]

\* The URL of a target is its correlation identifier too.
ExpandHTTPProbes(f) == [f EXCEPT !.httpTargets = ParseList(f.targetsInput)]

\* expandTask: whatever the type of the task, all targets are derived.
ExpandTask(f, id) ==
  ExpandHTTPProbes(ExpandDNSProbeTask(
    [f EXCEPT !.targets = ParseList(f.targetsInput), !.taskId = id]))

NewForm ==
  [type |-> "ping", sources |-> {}, taskId |-> "",
   targetsInput |-> <<>>, domainsInput |-> <<>>, resolversInput |-> <<>>,
   routeQueryTgt |-> <<>>,
   targets |-> <<>>, dnsTargets |-> <<>>, httpTargets |-> <<>>,
   preferV4 |-> FALSE, preferV6 |-> FALSE, useUDP |-> FALSE, pmtu |-> FALSE]

NotAdding == [on |-> FALSE, form |-> NewForm]

TaskInit ==
  /\ form = NewForm
  /\ options = {} /\ asked = {}
  /\ adding = NotAdding
  /\ dialog = FALSE
  /\ tasks = {}
  /\ edits = 0

----------------------------------------------------------------------------
(* Edits of the form.  The dialog is modal; while Add Task works, the form *)
(* is not.                                                                 *)

Edit(f) ==
  /\ ~dialog /\ edits < MaxEdits
  /\ form' = f
  /\ edits' = edits + 1
  /\ UNCHANGED <<adding, dialog, tasks>>

\* Three selectors take turns; the one that leaves takes its options along.
SelectorOf(type) == IF type \in {"route", "ip-query"} THEN type ELSE "agents"

ChooseType(type) ==
  /\ type # form.type
  /\ Edit([form EXCEPT !.type = type,
                       !.pmtu = IF type \in {"ping", "tcpping"} THEN FALSE ELSE @,
                       !.useUDP = IF type = "tcpping" THEN FALSE ELSE @])
  /\ IF SelectorOf(type) = SelectorOf(form.type) THEN UNCHANGED <<options, asked>>
     ELSE options' = {} /\ asked' = {}

TransportShown == form.type \in {"ping", "traceroute", "tcpping"}

TargetsTyped(words) ==
  /\ words # form.targetsInput
  /\ Edit([form EXCEPT !.targetsInput = words])
  /\ UNCHANGED <<options, asked>>

\* Targets, URLs and addresses: three fields with one value behind them.
TypeTargets(words) == TransportShown /\ TargetsTyped(words)

TypeURLs(words) == form.type = "http" /\ TargetsTyped(words)

TypeIPs(words) == form.type = "ip-query" /\ TargetsTyped(words)

TypeDNSPlan(domains, resolvers) ==
  /\ form.type = "dns"
  /\ Edit([form EXCEPT !.domainsInput = domains, !.resolversInput = resolvers])
  /\ UNCHANGED <<options, asked>>

TypeRouteQuery(words) ==
  /\ form.type = "route" /\ words # form.routeQueryTgt
  /\ Edit([form EXCEPT !.routeQueryTgt = words])
  /\ UNCHANGED <<options, asked>>

PreferV4(on) ==
  /\ TransportShown /\ on # form.preferV4
  /\ Edit([form EXCEPT !.preferV4 = on, !.preferV6 = IF on THEN FALSE ELSE @])
  /\ UNCHANGED <<options, asked>>

PreferV6(on) ==
  /\ TransportShown /\ on # form.preferV6
  /\ Edit([form EXCEPT !.preferV6 = on, !.preferV4 = IF on THEN FALSE ELSE @])
  /\ UNCHANGED <<options, asked>>

UseUDP(on) ==
  /\ TransportShown /\ form.type # "tcpping" /\ on # form.useUDP
  /\ Edit([form EXCEPT !.useUDP = on])
  /\ UNCHANGED <<options, asked>>

PMTU(on) ==
  /\ form.type = "traceroute" /\ on # form.pmtu
  /\ Edit([form EXCEPT !.pmtu = on])
  /\ UNCHANGED <<options, asked>>

----------------------------------------------------------------------------
(* The selector of sources.                                                *)

\* What getOptions asks of an agent; useUDP and pmtu count for every type of
\* task, those that do not show them included.
FilterOf(f) ==
  {x \in Filters :
     \/ x = "udp" /\ f.useUDP
     \/ x = "pmtu" /\ f.pmtu
     \/ x = "tcp" /\ f.type = "tcpping"
     \/ x = "dns" /\ f.type = "dns"
     \/ x = "http" /\ f.type = "http"}

OpenSelector ==
  /\ ~dialog
  /\ asked' = asked \cup {FilterOf(form)}
  /\ UNCHANGED <<form, options, adding, dialog, tasks, edits>>

\* getCurrentPingerOptions: a failed request counts as an empty list.
AgentLists(filter) == {{a \in Agents : filter \subseteq Abilities[a]}, {}}

\* A failed request for providers changes nothing.
ProviderLists == {Providers, options}

\* Answers come in any order.
OptionsArrive(filter) ==
  /\ filter \in asked
  /\ asked' = asked \ {filter}
  /\ options' \in IF SelectorOf(form.type) = "agents" THEN AgentLists(filter) ELSE ProviderLists
  /\ UNCHANGED <<form, adding, dialog, tasks, edits>>

\* A click on an option: the sources become what is marked, with this one more
\* or less.  Sources that are no option, chosen for another type perhaps, go.
Select(o) ==
  LET marked == form.sources \cap options
  IN /\ o \in options
     /\ Edit([form EXCEPT !.sources = IF o \in marked THEN marked \ {o} ELSE marked \cup {o}])
     /\ UNCHANGED <<options, asked>>

----------------------------------------------------------------------------
(* Add Task, the dialog, the list.                                         *)

AddTask ==
  /\ ~dialog /\ ~adding.on /\ Cardinality(tasks) < MaxTasks
  /\ adding' = [on |-> TRUE, form |-> form]
  /\ UNCHANGED <<form, options, asked, dialog, tasks, edits>>

\* Mutant: the derived fields are merged into the form as it is by now.
Expanded_Merges(id) ==
  LET done == ExpandTask(adding.form, id)
  IN /\ adding.on
     /\ form' = [form EXCEPT !.targets = done.targets, !.dnsTargets = done.dnsTargets,
                             !.httpTargets = done.httpTargets, !.taskId = id]
     /\ adding' = NotAdding
     /\ dialog' = TRUE
     /\ UNCHANGED <<options, asked, tasks, edits>>

\* The form is replaced by what was taken a second ago: edits made meanwhile
\* are lost.  If the type goes back to one of another selector, so do options.
Expanded(id) ==
  /\ adding.on
  /\ form' = ExpandTask(adding.form, id)
  /\ IF SelectorOf(adding.form.type) = SelectorOf(form.type) THEN UNCHANGED <<options, asked>>
     ELSE options' = {} /\ asked' = {}
  /\ adding' = NotAdding
  /\ dialog' = TRUE
  /\ UNCHANGED <<tasks, edits>>

QueryWords(f) == SelectSeq(f.routeQueryTgt, LAMBDA w : w.text # "")

\* numValidTargets: an empty query of a route task counts the targets of the
\* other types' field.
NumValidTargets(f) ==
  IF f.type = "dns" THEN Len(f.dnsTargets)
  ELSE IF f.type = "http" /\ f.httpTargets # <<>> THEN Len(f.httpTargets)
  ELSE IF f.type = "route" /\ f.routeQueryTgt # <<>>
    THEN Len(QueryWords(f))
  ELSE Len(f.targets)

\* Mutant: the number of targets of a traceroute is not looked at.
Accepts_AnyTraceroute(f) == f.sources # {} /\ NumValidTargets(f) # 0

\* TaskConfirmDialog shows Confirm; otherwise it shows a note.
Accepts(f) ==
  /\ ~(f.type = "traceroute" /\ Len(f.targets) > 1)
  /\ f.sources # {} /\ NumValidTargets(f) # 0

Confirm ==
  /\ dialog /\ Accepts(form)
  /\ tasks' = tasks \cup {form}
  /\ dialog' = FALSE
  /\ UNCHANGED <<form, options, asked, adding, edits>>

CancelDialog ==
  /\ dialog
  /\ dialog' = FALSE
  /\ UNCHANGED <<form, options, asked, adding, tasks, edits>>

\* handleTaskDelete: all tasks with the identifier.
DeleteTask(id) ==
  /\ \E t \in tasks : t.taskId = id
  /\ tasks' = {t \in tasks : t.taskId # id}
  /\ UNCHANGED <<form, options, asked, adding, dialog, edits>>

FormEdited ==
  \/ \E type \in TaskTypes : ChooseType(type)
  \/ \E words \in ListInputs : TypeTargets(words) \/ TypeURLs(words) \/ TypeIPs(words)
  \/ \E domains, resolvers \in ListInputs : TypeDNSPlan(domains, resolvers)
  \/ \E words \in RouteInputs : TypeRouteQuery(words)
  \/ \E on \in BOOLEAN : PreferV4(on) \/ PreferV6(on) \/ UseUDP(on) \/ PMTU(on)
  \/ \E o \in Agents \cup Providers : Select(o)

TaskNext ==
  \/ FormEdited
  \/ OpenSelector
  \/ \E filter \in SUBSET Filters : OptionsArrive(filter)
  \/ AddTask
  \/ \E id \in TaskIds : Expanded(id) \/ DeleteTask(id)
  \/ Confirm
  \/ CancelDialog

TaskSpec == TaskInit /\ [][TaskNext]_taskVars

----------------------------------------------------------------------------
(* Properties                                                              *)

\* What the panel of a task probes or asks for.
EffectiveTargets(t) ==
  IF t.type = "dns" THEN Len(t.dnsTargets)
  ELSE IF t.type = "http" THEN Len(t.httpTargets)
  ELSE IF t.type = "route" THEN Len(QueryWords(t))
  ELSE Len(t.targets)

\* Transport options a type cannot have: TCP pings are not sent as UDP, pings do
\* not look for the path MTU, and one family of addresses at most is preferred.
OptionsFit(f) ==
  /\ f.type = "tcpping" => ~f.useUDP
  /\ f.type \in {"ping", "tcpping"} => ~f.pmtu
  /\ ~(f.preferV4 /\ f.preferV6)

\* Whatever was typed for the other types and in whatever order options and
\* types were chosen, a task on the page has a source and something to probe, a
\* traceroute has one target, and no task has options its type cannot have.  The
\* dialog asks for "one effective target", but a route task with an empty query
\* passes: its targets are counted in the field of the other types.
LaunchedIsRunnable ==
  \A t \in tasks :
    /\ t.sources # {}
    /\ t.type # "route" => EffectiveTargets(t) # 0
    /\ t.type = "traceroute" => ~(EffectiveTargets(t) > 1)
    /\ OptionsFit(t)

Derived(t) ==
  /\ t.targets = ParseList(t.targetsInput)
  /\ t.httpTargets = ParseList(t.targetsInput)
  /\ t.dnsTargets = DNSTargets(ParseList(t.domainsInput), ParseList(t.resolversInput))

\* What a task probes is what its own fields say, even if the user went on
\* typing while Add Task was at work.
DerivedMatchesInputs == \A t \in tasks : Derived(t)
=============================================================================
