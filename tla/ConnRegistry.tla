---------------------------- MODULE ConnRegistry ----------------------------
(***************************************************************************)
(* The connection registry of the hub, pkg/nodereg/agent.go, on top of the *)
(* actor map of pkg/safemap.  Every operation is one closure that the      *)
(* goroutine of the map executes, hence one step: an operator below maps a *)
(* registry, a function from the open keys to their entries, to the next.  *)
(***************************************************************************)

CONSTANTS Keys,        \* connection keys (uuids)
          NodeNames,
          Unnamed,     \* in place of the name, before the registration
          AttrKeys,
          AttrValues

ASSUME UnnamedIsNoName == Unnamed \notin NodeNames

Attributes == UNION {[K -> AttrValues] : K \in SUBSET AttrKeys}

\* ConnRegistryData: the times are reduced to whether they are set.
Entry == [node : NodeNames \cup {Unnamed}, attributes : Attributes,
          heartbeat : BOOLEAN]

EmptyRegistry == [k \in {} |-> {}]

Open(reg) == DOMAIN reg

NewEntry == [node |-> Unnamed, attributes |-> [a \in {} |-> {}], heartbeat |-> FALSE]

\* SafeMap.Set and SafeMap.Delete
With(reg, key, entry) ==
  [k \in Open(reg) \cup {key} |-> IF k = key THEN entry ELSE reg[k]]

OpenConnection(reg, key) == With(reg, key, NewEntry)

\* Mutant: the entry is emptied, but its key stays in the map.
CloseConnection_Empties(reg, key) == With(reg, key, NewEntry)

CloseConnection(reg, key) == [k \in Open(reg) \ {key} |-> reg[k]]

\* SafeMap.Get with a closure that changes the entry it finds: without an
\* entry nothing happens, and the caller gets an error.
Update(reg, key, entry) == IF key \in Open(reg) THEN [reg EXCEPT ![key] = entry] ELSE reg

\* Mutant: a missing entry is created on the fly.
Register_Creates(reg, key, name) == With(reg, key, [NewEntry EXCEPT !.node = name])

Register(reg, key, name) == Update(reg, key, [reg[key] EXCEPT !.node = name])

UpdateHeartbeat(reg, key) == Update(reg, key, [reg[key] EXCEPT !.heartbeat = TRUE])

\* Withdrawals are applied before the announced attributes.
Announced(attrs, withdrawals, announcement) ==
  [a \in (DOMAIN attrs \ withdrawals) \cup DOMAIN announcement |->
     IF a \in DOMAIN announcement THEN announcement[a] ELSE attrs[a]]

SetAttributes(reg, key, withdrawals, announcement) ==
  Update(reg, key, [reg[key] EXCEPT
                      !.attributes = Announced(@, withdrawals, announcement)])

TestAgainstAttributes(entry, expected) ==
  \A a \in DOMAIN expected :
    a \in DOMAIN entry.attributes /\ entry.attributes[a] = expected[a]

\* The keys SearchByAttributes may pick: the walk over the map has no order.
SearchByAttributes(reg, expected) ==
  {key \in Open(reg) : TestAgainstAttributes(reg[key], expected)}
=============================================================================
