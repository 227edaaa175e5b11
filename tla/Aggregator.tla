------------------------------ MODULE Aggregator ------------------------------
(***************************************************************************)
(* TelemetryAggregator of src/telemetry/aggregator.cpp: rolling statistics *)
(* over the event stream.  Every member function holds mutex_ throughout,  *)
(* so each is one atomic action.  Latencies are natural numbers; averages, *)
(* doubles in the code, are kept in units of 1/Scale, exact as long as     *)
(* Scale is a multiple of every call count.                                *)
(***************************************************************************)
EXTENDS Integers, Sequences, FiniteSets, FiniteSetsExt, Functions

CONSTANTS
  Layers, Devices,
  Embedding,    \* the layer "embed_tokens", where every token starts
  Scale

VARIABLES
  layers,       \* per layer: calls, avg (in 1/Scale) and max latency
  device_counts, total_events, token_count, total_latency, latency_samples

aggVars == <<layers, device_counts, total_events, token_count, total_latency, latency_samples>>

NoCalls == [calls |-> 0, avg |-> 0, max |-> 0]

Init ==
  /\ layers = [l \in Layers |-> NoCalls]
  /\ device_counts = [d \in Devices |-> 0]
  /\ total_events = 0 /\ token_count = 0 /\ total_latency = 0 /\ latency_samples = 0

TypeOK ==
  /\ layers \in [Layers -> [calls : Nat, avg : Nat, max : Nat]]
  /\ device_counts \in [Devices -> Nat]
  /\ {total_events, token_count, total_latency, latency_samples} \subseteq Nat

\* The average of a layer that counts the call before it averages.
AverageLate(info, latency) ==
  (info.avg * (info.calls + 1) + Scale * latency) \div (info.calls + 2)

\* The average of a layer after one more call, from the average before it.
Average(info, latency) == (info.avg * info.calls + Scale * latency) \div (info.calls + 1)

Sampled(info, latency) ==
  [calls |-> info.calls + 1, avg |-> Average(info, latency),
   max |-> IF latency > info.max THEN latency ELSE info.max]

\* process_event() of a layer_trace.
CountTrace(layer, device, latency) ==
  /\ total_events' = total_events + 1
  /\ layers' = [layers EXCEPT ![layer] = Sampled(@, latency)]
  /\ device_counts' = [device_counts EXCEPT ![device] = @ + 1]
  /\ total_latency' = total_latency + latency
  /\ latency_samples' = latency_samples + 1
  /\ token_count' = IF layer = Embedding THEN token_count + 1 ELSE token_count

\* process_event() that returns before it has counted the event.
CountOtherSkipped == UNCHANGED aggVars

\* process_event() of anything else only counts it.
CountOther ==
  /\ total_events' = total_events + 1
  /\ UNCHANGED <<layers, device_counts, token_count, total_latency, latency_samples>>

\* reset(); the program itself never calls it.
Reset ==
  /\ layers' = [l \in Layers |-> NoCalls]
  /\ device_counts' = [d \in Devices |-> 0]
  /\ total_events' = 0 /\ token_count' = 0 /\ total_latency' = 0 /\ latency_samples' = 0

-----------------------------------------------------------------------------
(* The queries.  tokens_per_sec() is token_count over the seconds since    *)
(* the start, and total_events() the member of that name.                  *)

avg_layer_latency == IF latency_samples = 0 THEN 0 ELSE (Scale * total_latency) \div latency_samples

\* Some layers in the order of their averages, slowest first.
SlowestFirst(some) ==
  LET n == Cardinality(some)
  IN  CHOOSE s \in [1 .. n -> some] : \A i, j \in 1 .. n :
        i < j => s[i] # s[j] /\ layers[s[i]].avg >= layers[s[j]].avg

\* slowest_layers(): the first of the layers seen so far.
slowest_layers(limit) ==
  LET seen == {l \in Layers : layers[l].calls > 0}
  IN  SubSeq(SlowestFirst(seen), 1, Min({limit, Cardinality(seen)}))

Next ==
  \/ \E l \in Layers, d \in Devices, latency \in Nat : CountTrace(l, d, latency)
  \/ CountOther
  \/ Reset

Spec == Init /\ [][Next]_aggVars

-----------------------------------------------------------------------------

\* The separate tallies describe the same set of samples: weighted by their
\* counts the running averages give back the total latency (no drift in the
\* incremental formula), the per-layer and the per-device counts both add up to
\* the samples, every token is an embedding call, and no layer's average
\* exceeds its maximum.
TotalsAgree ==
  LET calls == [l \in Layers |-> layers[l].calls]
      weight == [l \in Layers |-> layers[l].avg * layers[l].calls]
  IN  /\ SumFunction(weight) = Scale * total_latency
      /\ SumFunction(calls) = latency_samples
      /\ SumFunction(device_counts) = latency_samples
      /\ latency_samples <= total_events
      /\ token_count = layers[Embedding].calls
      /\ \A l \in Layers : layers[l].avg <= Scale * layers[l].max
=============================================================================
