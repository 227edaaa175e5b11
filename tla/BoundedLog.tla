------------------------------ MODULE BoundedLog ------------------------------
(***************************************************************************)
(* What the telemetry store promises (include/storage/ring_buffer.hpp): a  *)
(* chronological log of the most recent events, oldest first, that never   *)
(* holds more than Limit of them, and beside it the most recent attention  *)
(* matrix of every layer, which no amount of other traffic evicts.         *)
(***************************************************************************)
EXTENDS Integers, Sequences

CONSTANTS
  Limit,        \* how many events are retained
  Events,       \* every event that is not an attention matrix
  Layers,       \* names of the layers that send attention matrices
  Matrices,     \* the attention payloads
  NoAttention   \* a layer that has sent no matrix

VARIABLES log, latest

logVars == <<log, latest>>

\* The n most recent elements of s, all of s when it has no more than n.
LastN(s, n) == IF Len(s) <= n THEN s ELSE SubSeq(s, Len(s) - n + 1, Len(s))

Init ==
  /\ log = <<>>
  /\ latest = [l \in Layers |-> NoAttention]

Record(e) ==
  /\ log' = LastN(Append(log, e), Limit)
  /\ UNCHANGED latest

Replace(l, m) ==
  /\ latest' = [latest EXCEPT ![l] = m]
  /\ UNCHANGED log

Forget ==
  /\ log' = <<>>
  /\ latest' = [l \in Layers |-> NoAttention]

Next ==
  \/ \E e \in Events : Record(e)
  \/ \E l \in Layers, m \in Matrices : Replace(l, m)
  \/ Forget

Spec == Init /\ [][Next]_logVars
=============================================================================
