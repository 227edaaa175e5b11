------------------------------- MODULE Pipeline -------------------------------
(***************************************************************************)
(* The "*" subscriber of src/main.cpp:75-79, the same three calls that     *)
(* Dashboard::on_event starts with: every event goes to the ring, to the   *)
(* aggregator and to the detector, in that order, in the thread that       *)
(* published it.  Each consumer locks only itself, so the server's thread  *)
(* and the tracer's interleave between and inside these calls.  What the   *)
(* server publishes is what it decodes from its clients' packets.          *)
(***************************************************************************)
EXTENDS WireFormat, Sequences, SequencesExt, FiniteSets, FiniteSetsExt

CONSTANTS
  Producers,    \* the threads that publish
  Remote,       \* those whose events arrive as JSON
  Packets(_),   \* what a producer is handed: JSON, or else events
  Loads,        \* bound: records whose field limit says how many packets each
                \* producer publishes; the other fields are Frame's
  RingCapacity, LedgerCap, Layers, Devices, Embedding, Scale, None

Event(p, packet) == IF p \in Remote THEN Decode(packet) ELSE packet

\* Packets are well typed; names that arrive name a layer or a device, and the
\* simulator sends complete events with finite statistics (mock_tracer.cpp:68-93).
ASSUME PacketAssumption ==
  \A p \in Producers : \A packet \in Packets(p) :
    LET e == Event(p, packet)
    IN  /\ IF p \in Remote THEN WellTyped(packet) ELSE packet \in TelemetryEvents
        /\ (p \in Remote => Decodes(packet)) =>
             /\ e.type \in {"layer_trace", "attention_weights"} => e.layer \in Layers
             /\ e.type = "layer_trace" => e.device \in Devices
ASSUME LimitsAssumption == RingCapacity \in Nat /\ LedgerCap \in Nat \ {0} /\ Scale \in Nat
ASSUME EmbeddingAssumption == Embedding \in Layers

VARIABLES
  load,
  buffer, write_ptr, size, latest_attn,                     \* RingBuffer
  layers, device_counts, total_events, token_count,         \* Aggregator
  total_latency, latency_samples,
  alerts, passed,                                           \* AnomalyDetector
  published,    \* history: the packets each producer has published
  pc,           \* the consumer a producer's latest event goes to next
  raising       \* the alerts its latest event has yet to record

ringVars == <<buffer, write_ptr, size, latest_attn>>
aggregatorVars == <<layers, device_counts, total_events, token_count, total_latency, latency_samples>>
ledgerVars == <<alerts, passed>>
vars == <<load, ringVars, aggregatorVars, ledgerVars, published, pc, raising>>

\* An event or an alert is identified by its producer and its number there.
Limit(p) == load.limit[p]
Ids == Producers \X (Nat \ {0})
Kinds == {"flagged", "non_finite", "exploding", "dead", "sparse"}

Ring == INSTANCE RingBuffer WITH
          Capacity <- RingCapacity, Events <- Ids, Blank <- None,
          Matrices <- Ids, NoAttention <- None
Agg == INSTANCE Aggregator
Det == INSTANCE AnomalyDetector WITH
         Cap <- LedgerCap, Alerts <- [id : Ids, kind : Kinds]

Id(p) == <<p, Len(published[p])>>
Latest(p) == Event(p, Last(published[p]))

TypeOK ==
  /\ Ring!TypeOK /\ Agg!TypeOK /\ Det!TypeOK
  /\ \A p \in Producers : published[p] \in Seq(Packets(p))
  /\ pc \in [Producers -> {"idle", "ring", "aggregator", "detector"}]
  /\ raising \in [Producers -> Seq(Kinds)]

Init ==
  /\ load \in Loads
  /\ Ring!Init /\ Agg!Init /\ Det!Init
  /\ published = [p \in Producers |-> <<>>]
  /\ pc = [p \in Producers |-> "idle"]
  /\ raising = [p \in Producers |-> <<>>]

-----------------------------------------------------------------------------

\* The producer publishes its next event: its thread enters the callback.  A
\* packet that does not decode is dropped and changes nothing.
Publish(p) ==
  /\ pc[p] = "idle"
  /\ Len(published[p]) < Limit(p)
  /\ \E packet \in Packets(p) :
       /\ p \in Remote => Decodes(packet)
       /\ published' = [published EXCEPT ![p] = Append(@, packet)]
  /\ pc' = [pc EXCEPT ![p] = "ring"]
  /\ UNCHANGED <<load, ringVars, aggregatorVars, ledgerVars, raising>>

\* ring.push(e)
Store(p) ==
  /\ pc[p] = "ring"
  /\ IF Latest(p).type = "attention_weights"
     THEN Ring!PushAttention(Latest(p).layer, Id(p))
     ELSE Ring!Push(Id(p))
  /\ pc' = [pc EXCEPT ![p] = "aggregator"]
  /\ UNCHANGED <<load, aggregatorVars, ledgerVars, published, raising>>

\* agg.process_event(e)
Aggregate(p) ==
  /\ pc[p] = "aggregator"
  /\ IF Latest(p).type = "layer_trace"
     THEN Agg!CountTrace(Latest(p).layer, Latest(p).device, Latest(p).latency)
     ELSE Agg!CountOther
  /\ pc' = [pc EXCEPT ![p] = "detector"]
  /\ raising' = [raising EXCEPT ![p] =
                   IF Latest(p).type = "layer_trace"
                   THEN Det!Verdicts(Latest(p).layer_type, Latest(p).stats)
                   ELSE <<>>]
  /\ UNCHANGED <<load, ringVars, ledgerVars, published>>

\* anomaly.process_event(e) of an anomaly the sender flagged
PassOn(p) ==
  /\ pc[p] = "detector"
  /\ Latest(p).type = "anomaly"
  /\ Det!PassThrough([id |-> Id(p), kind |-> "flagged"])
  /\ pc' = [pc EXCEPT ![p] = "idle"]
  /\ UNCHANGED <<load, ringVars, aggregatorVars, published, raising>>

\* anomaly.process_event(e) of anything else: one record() for each verdict
Raise(p) ==
  /\ pc[p] = "detector"
  /\ raising[p] # <<>>
  /\ Det!Record([id |-> Id(p), kind |-> Head(raising[p])])
  /\ raising' = [raising EXCEPT ![p] = Tail(@)]
  /\ UNCHANGED <<load, ringVars, aggregatorVars, published, pc>>

CallbackReturns(p) ==
  /\ pc[p] = "detector"
  /\ Latest(p).type # "anomaly"
  /\ raising[p] = <<>>
  /\ pc' = [pc EXCEPT ![p] = "idle"]
  /\ UNCHANGED <<load, ringVars, aggregatorVars, ledgerVars, published, raising>>

Step(p) ==
  Publish(p) \/ Store(p) \/ Aggregate(p) \/ PassOn(p) \/ Raise(p) \/ CallbackReturns(p)

\* Every producer has reached its bound and its last callback has returned.
Finished == \A p \in Producers : pc[p] = "idle" /\ Len(published[p]) = Limit(p)

Next == (\E p \in Producers : Step(p)) \/ (Finished /\ UNCHANGED vars)

Spec == Init /\ [][Next]_vars

-----------------------------------------------------------------------------

\* The events that are past the given stages: of a producer whose latest event
\* is in one of them, all but that one.
Past(stages) ==
  UNION {{p} \X (1 .. Len(published[p]) - (IF pc[p] \in stages THEN 1 ELSE 0)) : p \in Producers}

EventOf(id) == Event(id[1], published[id[1]][id[2]])
Before(a, b) == a[1] = b[1] /\ a[2] < b[2]

\* The ring shows, for each producer, the last of the events it published, in
\* the order it published them and with no gap, and the ring is not emptier
\* than it has to be: interleaving producers lose and reorder nothing.
Stored == {id \in Past({"ring"}) : EventOf(id).type # "attention_weights"}
RingKeepsEachStream ==
  LET ids == Ring!GetAll
  IN  /\ ToSet(ids) \subseteq Stored
      /\ \A i, j \in 1 .. Len(ids) : i < j /\ ids[i][1] = ids[j][1] => Before(ids[i], ids[j])
      /\ \A i \in 1 .. Len(ids) : \A id \in Stored : Before(ids[i], id) => id \in ToSet(ids)
      /\ Len(ids) = Min({Ring!capacity, Cardinality(Stored)})

\* The aggregator has counted exactly the events that are past it, each once,
\* and the traces of each layer to that layer, whatever the interleaving.
Counted == Past({"ring", "aggregator"})
IsTraceOf(id, l) == EventOf(id).type = "layer_trace" /\ EventOf(id).layer = l
NothingMiscounted ==
  /\ total_events = Cardinality(Counted)
  /\ \A l \in Layers : layers[l].calls = Cardinality({id \in Counted : IsTraceOf(id, l)})

\* The statistics agree among themselves at every moment a reader can lock them.
TotalsAgree == Agg!TotalsAgree

\* The alerts an event raises, in order, and those its producer has yet to record.
KindsOf(id) ==
  LET e == EventOf(id)
  IN  CASE e.type = "anomaly" -> <<"flagged">>
        [] e.type = "layer_trace" -> Det!Verdicts(e.layer_type, e.stats)
        [] OTHER -> <<>>
Pending(id) ==
  LET p == id[1]
  IN  IF id # Id(p) \/ pc[p] # "detector" THEN {}
      ELSE IF EventOf(id).type = "anomaly" THEN {"flagged"} ELSE ToSet(raising[p])

\* The alerts recorded so far, and which of two of one producer came first.
Raised ==
  UNION {{[id |-> id, kind |-> kind] : kind \in ToSet(KindsOf(id)) \ Pending(id)} : id \in Counted}
Precedes(a, b) ==
  \/ Before(a.id, b.id)
  \/ /\ a.id = b.id
     /\ \E i, j \in 1 .. Len(KindsOf(a.id)) :
          i < j /\ KindsOf(a.id)[i] = a.kind /\ KindsOf(a.id)[j] = b.kind

\* The ledger keeps the newest alerts: of each producer the last ones it raised,
\* in order and without a gap, and never fewer in all than fit under the cap.
LedgerKeepsNewest ==
  /\ ToSet(alerts) \subseteq Raised
  /\ \A i, j \in 1 .. Len(alerts) :
       i < j /\ alerts[i].id[1] = alerts[j].id[1] => Precedes(alerts[i], alerts[j])
  /\ \A i \in 1 .. Len(alerts) : \A a \in Raised : Precedes(alerts[i], a) => a \in ToSet(alerts)
  /\ Len(alerts) >= Min({LedgerCap, Cardinality(Raised)})

\* What an alert is raised for is what the sender reported: an extreme value under
\* either of its keys, a sparsity, a variance near 0 or no statistics at all
\* (which stay 0, types.hpp:161).
AlertsAreReported ==
  \A i \in 1 .. Len(alerts) :
    LET p == alerts[i].id[1]
        packet == published[p][alerts[i].id[2]]
        kind == alerts[i].kind
        Silent == ~HasPayload(packet) \/ ~Has(packet.payload, "stats")
        Says(keys, value) ==
          ~Silent /\ \E k \in keys \cap DOMAIN packet.payload.stats : packet.payload.stats[k] = value
    IN  p \in Remote =>
          /\ kind = "exploding" => Says({"min", "min_val", "max", "max_val"}, "huge")
          /\ kind = "sparse" => Says({"sparsity"}, "high")
          /\ kind = "dead" => Silent \/ Says({"variance"}, "dead")

\* Beyond its cap the ledger holds at most one alert per sender-flagged anomaly.
LedgerBound == Det!LedgerBound
=============================================================================
