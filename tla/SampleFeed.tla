----------------------------- MODULE SampleFeed -----------------------------
(***************************************************************************)
(* What a ping or traceroute panel promises its user: it follows at most   *)
(* one stream at a time, shows the events of that stream in the order the  *)
(* hub sent them, without a gap and without a repetition, and a panel that *)
(* is stopped stays as it is.  A panel of one kind starts every stream with *)
(* an empty screen, one of the other goes on with what it shows.  No event *)
(* of a stream the panel has given up is ever shown.                       *)
(***************************************************************************)
EXTENDS Naturals, Sequences

CONSTANT Streams

VARIABLES current,   \* the stream that is followed; 0 while the panel is stopped
          position,  \* how many events of it are shown
          fresh,     \* streams that were never followed
          shown,     \* the events on the screen: pairs of stream and position
          keeps      \* a new stream goes on with what is shown

vars == <<current, position, fresh, shown, keeps>>

Init ==
  /\ current = 0 /\ position = 0 /\ fresh = Streams /\ shown = <<>>
  /\ keeps \in BOOLEAN

Follow ==
  /\ current = 0
  /\ \E s \in fresh : current' = s /\ fresh' = fresh \ {s}
  /\ shown' = IF keeps THEN shown ELSE <<>>
  /\ UNCHANGED <<position, keeps>>

Show ==
  /\ current # 0
  /\ position' = position + 1
  /\ shown' = Append(shown, <<current, position'>>)
  /\ UNCHANGED <<current, fresh, keeps>>

Stop ==
  /\ current # 0
  /\ current' = 0 /\ position' = 0
  /\ UNCHANGED <<fresh, shown, keeps>>

Next == Follow \/ Show \/ Stop

Spec == Init /\ [][Next]_vars
=============================================================================
