-------------------------------- MODULE Fanout --------------------------------
(***************************************************************************)
(* What the event bus promises (include/telemetry/event_bus.hpp): an event *)
(* is owed, from one instant on, to every subscriber its type has at that  *)
(* instant and then to every subscriber of "*", and each of them gets it   *)
(* once, in that order.  Publishers do not exclude each other, and a       *)
(* subscriber that publishes serves its own event before its publisher     *)
(* goes on with the outer one.                                             *)
(***************************************************************************)
EXTENDS Sequences

CONSTANTS Threads, Topics, Callbacks, Events, Any, TypeOf(_)

VARIABLES
  subscribers,  \* the callbacks of each topic, in the order they subscribed
  owed          \* per thread, its open fan-outs, innermost first

fanoutVars == <<subscribers, owed>>

Init ==
  /\ subscribers = [topic \in Topics |-> <<>>]
  /\ owed = [t \in Threads |-> <<>>]

Subscribe(topic, cb) ==
  /\ subscribers' = [subscribers EXCEPT ![topic] = Append(@, cb)]
  /\ UNCHANGED owed

Open(t, e) ==
  LET all == subscribers[TypeOf(e)] \o subscribers[Any]
  IN  /\ owed' = [owed EXCEPT ![t] = <<[event |-> e, targets |-> all]>> \o @]
      /\ UNCHANGED subscribers

Deliver(t) ==
  /\ owed[t] # <<>>
  /\ owed[t][1].targets # <<>>
  /\ owed' = [owed EXCEPT ![t][1].targets = Tail(@)]
  /\ UNCHANGED subscribers

Close(t) ==
  /\ owed[t] # <<>>
  /\ owed[t][1].targets = <<>>
  /\ owed' = [owed EXCEPT ![t] = Tail(@)]
  /\ UNCHANGED subscribers

Next ==
  \/ \E topic \in Topics, cb \in Callbacks : Subscribe(topic, cb)
  \/ \E t \in Threads, e \in Events : Open(t, e)
  \/ \E t \in Threads : Deliver(t) \/ Close(t)

Spec == Init /\ [][Next]_fanoutVars
=============================================================================
