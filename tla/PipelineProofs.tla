----------------------------- MODULE PipelineProofs -----------------------------
(***************************************************************************)
(* What the consumers keep of the events, for every number of producers,   *)
(* packets, layers and devices, every size of the ring and of the ledger   *)
(* and every interleaving.                                                 *)
(***************************************************************************)
EXTENDS Frame, Lemmas

-----------------------------------------------------------------------------
(* What is read from a packet.                                             *)

\* Statistics that decode are statistics.
LEMMA StatsDecoded ==
  ASSUME NEW s, WellTypedStats(s), StatsDecode(s), Writable(s)
  PROVE  Stats(s) \in Statistics
<1>1. s # Wrong /\ \A k \in DOMAIN s : s[k] \in StatValues(k) \cup {Wrong} /\ s[k] \notin {"nan", "inf"}
  BY DEF WellTypedStats, StatsDecode, Required, Writable
<1>2. s.mean \in {"normal", "huge"} /\ s.variance \in {"negative", "dead", "live"}
  BY <1>1 DEF StatsDecode, Required, Has, StatValues
<1>3. Value(s, "sparsity", NoStats.sparsity) \in {"low", "high"}
  BY <1>1 DEF StatsDecode, Optional, Has, Value, StatValues, NoStats
<1>4. Value(s, "min", Value(s, "min_val", NoStats.min)) \in {"normal", "huge"}
  BY <1>1 DEF StatsDecode, Optional, Has, Value, StatValues, NoStats
<1>5. Value(s, "max", Value(s, "max_val", NoStats.max)) \in {"normal", "huge"}
  BY <1>1 DEF StatsDecode, Optional, Has, Value, StatValues, NoStats
<1> QED
  BY <1>2, <1>3, <1>4, <1>5 DEF Stats, Statistics

\* The events there are, by type.
LEMMA EventForms ==
  /\ \A n \in Nat : [type |-> "model_info", layers |-> n] \in TelemetryEvents
  /\ \A s \in Strings : [type |-> "attention_weights", layer |-> s] \in TelemetryEvents
  /\ \A s \in Strings : [type |-> "anomaly", severity |-> s] \in TelemetryEvents
  /\ \A s \in Strings \ KnownTypes : [type |-> s] \in TelemetryEvents
  /\ \A l, t, d \in Strings, n \in Nat, stats \in Statistics :
       [type |-> "layer_trace", layer |-> l, layer_type |-> t, device |-> d,
        latency |-> n, stats |-> stats] \in TelemetryEvents
BY DEF TelemetryEvents

\* The payload that Decode looks at, and what is known of it once it decodes.
PayloadOf(j) == IF HasPayload(j) /\ j.payload # Wrong THEN j.payload ELSE [k \in {} |-> Null]

\* What a packet that decodes becomes is an event (types.hpp:55-168).
LEMMA DecodedIsEvent ==
  ASSUME NEW j, WellTyped(j), Decodes(j)
  PROVE  Decode(j) \in TelemetryEvents
<1> USE StringsAssumption
<1> DEFINE p == PayloadOf(j)
           type == j.event_type
<1>1. type \in Strings /\ j # Wrong
  BY DEF Decodes, Required, WellTyped
<1>2. ASSUME type \in KnownTypes, HasPayload(j)
      PROVE  p = j.payload /\ PayloadDecodes(type, p)
  BY <1>2 DEF Decodes, PayloadDecodes, Required, Optional, KnownTypes, PayloadOf
<1>3. \A k \in DOMAIN p : IF k = "stats" THEN WellTypedStats(p.stats)
                          ELSE p[k] \in FieldValues(k) \cup {Wrong}
  BY <1>1 DEF WellTyped, WellTypedPayload, HasPayload, Has, PayloadOf
<1>4. ~HasPayload(j) => \A k : ~Has(p, k)
  BY DEF Has, PayloadOf
<1>5. CASE type = "model_info"
  <2>1. Value(p, "layers", 0) \in Nat
    BY <1>2, <1>3, <1>4, <1>5
       DEF PayloadDecodes, Required, Has, Value, FieldValues, ModelKeys, KnownTypes
  <2>2. Decode(j) = [type |-> type, layers |-> Value(p, "layers", 0)]
    BY <1>5 DEF Decode, PayloadOf
  <2> QED
    BY <1>5, <2>1, <2>2, EventForms
<1>6. CASE type = "layer_trace"
  <2>1. HasPayload(j) => Optional(p, TraceKeys)
    BY <1>2, <1>6 DEF PayloadDecodes, Optional, KnownTypes
  <2>2. /\ Value(p, "layer_name", "") \in Strings /\ Value(p, "layer_type", "") \in Strings
        /\ Value(p, "device", "CPU") \in Strings /\ Value(p, "latency_ms", 0) \in Nat
    BY <1>3, <1>4, <2>1 DEF Optional, Has, Value, FieldValues, TraceKeys
  <2>3. Has(p, "stats") => Stats(p.stats) \in Statistics
    <3> SUFFICES ASSUME Has(p, "stats") PROVE Stats(p.stats) \in Statistics
      OBVIOUS
    <3>1. HasPayload(j) /\ p = j.payload /\ PayloadDecodes(type, p) /\ p # Wrong
      BY <1>2, <1>4, <1>6 DEF PayloadDecodes, Optional, KnownTypes
    <3>2. StatsDecode(p.stats) /\ Writable(p.stats) /\ WellTypedStats(p.stats)
      BY <1>3, <1>6, <3>1 DEF PayloadDecodes, Decodes, Has
    <3> QED
      BY <3>2, StatsDecoded
  <2>4. NoStats \in Statistics
    BY DEF NoStats, Statistics
  <2>5. Decode(j) = [type |-> type, layer |-> Value(p, "layer_name", ""),
                     layer_type |-> Value(p, "layer_type", ""), device |-> Value(p, "device", "CPU"),
                     latency |-> Value(p, "latency_ms", 0),
                     stats |-> IF Has(p, "stats") THEN Stats(p.stats) ELSE NoStats]
    BY <1>6 DEF Decode, PayloadOf
  <2>6. PICK l, y, d, x, s :
          /\ l = Value(p, "layer_name", "") /\ y = Value(p, "layer_type", "") /\ d = Value(p, "device", "CPU")
          /\ x = Value(p, "latency_ms", 0) /\ s = IF Has(p, "stats") THEN Stats(p.stats) ELSE NoStats
    OBVIOUS
  <2> HIDE DEF p
  <2>7. l \in Strings /\ y \in Strings /\ d \in Strings /\ x \in Nat /\ s \in Statistics
    BY <2>2, <2>3, <2>4, <2>6
  <2>8. Decode(j) = [type |-> "layer_trace", layer |-> l, layer_type |-> y, device |-> d, latency |-> x, stats |-> s]
    BY <1>6, <2>5, <2>6
  <2> QED
    BY <2>7, <2>8, EventForms
<1>7. CASE type = "attention_weights"
  <2>1. Value(p, "layer_name", "") \in Strings
    BY <1>2, <1>3, <1>4, <1>7
       DEF PayloadDecodes, Required, Has, Value, FieldValues, AttentionKeys, KnownTypes
  <2>2. Decode(j) = [type |-> type, layer |-> Value(p, "layer_name", "")]
    BY <1>7 DEF Decode, PayloadOf
  <2> QED
    BY <1>7, <2>1, <2>2, EventForms
<1>8. CASE type = "anomaly"
  <2>1. HasPayload(j) => Optional(p, AlertKeys)
    BY <1>2, <1>8 DEF PayloadDecodes, Optional, KnownTypes
  <2>2. Value(p, "severity", "WARNING") \in Strings
    BY <1>3, <1>4, <2>1 DEF Optional, Has, Value, FieldValues, AlertKeys
  <2>3. Decode(j) = [type |-> type, severity |-> Value(p, "severity", "WARNING")]
    BY <1>8 DEF Decode, PayloadOf
  <2> QED
    BY <1>8, <2>2, <2>3, EventForms
<1>9. CASE type \notin KnownTypes
  <2>1. Decode(j) = [type |-> type]
    BY <1>9 DEF Decode, KnownTypes
  <2> QED
    BY <1>1, <1>9, <2>1, EventForms
<1> QED
  BY <1>5, <1>6, <1>7, <1>8, <1>9 DEF KnownTypes

-----------------------------------------------------------------------------
(* The events a producer publishes and the alerts they raise.              *)

\* Two sequences without a repetition and without a common element, one after
\* the other.
LEMMA Joined ==
  ASSUME NEW S, NEW s \in Seq(S), NEW t \in Seq(S), IsInjective(s), IsInjective(t),
         ToSet(s) \cap ToSet(t) = {}
  PROVE  s \o t \in Seq(S) /\ IsInjective(s \o t) /\ ToSet(s \o t) = ToSet(s) \cup ToSet(t)
<1> DEFINE m == Len(s)
           n == Len(t)
           u == s \o t
<1>1. /\ m \in Nat /\ n \in Nat /\ u \in Seq(S) /\ Len(u) = m + n
      /\ DOMAIN s = 1 .. m /\ DOMAIN t = 1 .. n /\ DOMAIN u = 1 .. m + n
      /\ \A i \in 1 .. m + n : u[i] = IF i <= m THEN s[i] ELSE t[i - m]
  OBVIOUS
<1> HIDE DEF m, n, u
<1>2. /\ \A i \in 1 .. m : u[i] = s[i] /\ i \in 1 .. m + n
      /\ \A i \in 1 .. n : u[i + m] = t[i] /\ i + m \in 1 .. m + n
      /\ \A i \in 1 .. m + n : i \in 1 .. m \/ (i - m \in 1 .. n /\ u[i] = t[i - m])
  BY <1>1
<1>3. ToSet(u) = ToSet(s) \cup ToSet(t)
  <2>1. /\ ToSet(s) = {s[i] : i \in 1 .. m} /\ ToSet(t) = {t[i] : i \in 1 .. n}
        /\ ToSet(u) = {u[i] : i \in 1 .. m + n}
    BY <1>1 DEF ToSet
  <2>2. ASSUME NEW x \in ToSet(u) PROVE x \in ToSet(s) \cup ToSet(t)
    BY <1>2, <2>1
  <2>3. ASSUME NEW x \in ToSet(s) \cup ToSet(t) PROVE x \in ToSet(u)
    <3>1. CASE x \in ToSet(s)
      <4>1. PICK i \in 1 .. m : x = s[i]
        BY <2>1, <3>1
      <4>2. u[i] = x /\ i \in 1 .. m + n
        BY <1>2, <4>1
      <4> QED
        BY <2>1, <4>2
    <3>2. CASE x \in ToSet(t)
      <4>1. PICK i \in 1 .. n : x = t[i]
        BY <2>1, <3>2
      <4>2. u[i + m] = x /\ i + m \in 1 .. m + n
        BY <1>2, <4>1
      <4> QED
        BY <2>1, <4>2
    <3> QED
      BY <2>3, <3>1, <3>2
  <2> QED
    BY <2>2, <2>3
<1>4. ASSUME NEW i \in 1 .. m + n, NEW j \in 1 .. m + n, u[i] = u[j]
      PROVE  i = j
  <2>1. CASE i \in 1 .. m /\ j \in 1 .. m
    BY <1>1, <1>2, <1>4, <2>1 DEF IsInjective
  <2>2. CASE ~(i \in 1 .. m) /\ ~(j \in 1 .. m)
    <3>1. i - m \in 1 .. n /\ j - m \in 1 .. n /\ t[i - m] = t[j - m]
      BY <1>2, <1>4, <2>2
    <3>2. i - m = j - m
      BY <1>1, <3>1 DEF IsInjective
    <3> QED
      BY <1>1, <3>2
  <2>3. CASE i \in 1 .. m /\ ~(j \in 1 .. m)
    BY <1>1, <1>2, <1>4, <2>3 DEF ToSet
  <2>4. CASE ~(i \in 1 .. m) /\ j \in 1 .. m
    BY <1>1, <1>2, <1>4, <2>4 DEF ToSet
  <2> QED
    BY <2>1, <2>2, <2>3, <2>4
<1>5. IsInjective(u)
  BY <1>1, <1>4 DEF IsInjective
<1> QED
  BY <1>1, <1>3, <1>5 DEF u

\* The alerts of one trace with finite statistics: each kind at most once, and
\* only for what the statistics show.
LEMMA VerdictsRaised ==
  ASSUME NEW layer_type, NEW s \in Statistics
  PROVE  LET v == Det!Verdicts(layer_type, s)
         IN  /\ v \in Seq(Kinds) /\ IsInjective(v)
             /\ "exploding" \in ToSet(v) => Det!Exceeds(s)
             /\ "dead" \in ToSet(v) => s.variance = "dead"
             /\ "sparse" \in ToSet(v) => s.sparsity = "high"
             /\ "non_finite" \notin ToSet(v) /\ "flagged" \notin ToSet(v)
<1> DEFINE Flag(condition, kind) == IF condition THEN <<kind>> ELSE <<>>
           a == Flag(Det!Exceeds(s), "exploding")
           b == Flag(s.variance = "dead" /\ layer_type # "Embedding", "dead")
           c == Flag(s.sparsity = "high", "sparse")
<1>1. ASSUME NEW condition, NEW kind \in Kinds
      PROVE  /\ Flag(condition, kind) \in Seq(Kinds) /\ IsInjective(Flag(condition, kind))
             /\ ToSet(Flag(condition, kind)) = IF condition THEN {kind} ELSE {}
  BY DEF IsInjective, ToSet
<1>2. {"exploding", "dead", "sparse"} \subseteq Kinds
  BY DEF Kinds
<1>3. /\ a \in Seq(Kinds) /\ IsInjective(a) /\ ToSet(a) = IF Det!Exceeds(s) THEN {"exploding"} ELSE {}
      /\ b \in Seq(Kinds) /\ IsInjective(b)
      /\ ToSet(b) = IF s.variance = "dead" /\ layer_type # "Embedding" THEN {"dead"} ELSE {}
      /\ c \in Seq(Kinds) /\ IsInjective(c) /\ ToSet(c) = IF s.sparsity = "high" THEN {"sparse"} ELSE {}
  <2> HIDE DEF Flag
  <2> QED
    BY <1>1, <1>2
<1>4. Det!Verdicts(layer_type, s) = a \o b \o c
  BY DEF Det!Verdicts, Det!NonFinite, Statistics
<1> HIDE DEF a, b, c
<1>5. a \o b \in Seq(Kinds) /\ IsInjective(a \o b) /\ ToSet(a \o b) = ToSet(a) \cup ToSet(b)
  <2>1. ToSet(a) \cap ToSet(b) = {}
    BY <1>3
  <2> QED
    BY <1>3, <2>1, Joined
<1>6. /\ a \o b \o c \in Seq(Kinds) /\ IsInjective(a \o b \o c)
      /\ ToSet(a \o b \o c) = ToSet(a) \cup ToSet(b) \cup ToSet(c)
  <2>1. ToSet(a \o b) \cap ToSet(c) = {}
    BY <1>3, <1>5
  <2> DEFINE ab == a \o b
  <2>2. ab \in Seq(Kinds) /\ IsInjective(ab) /\ ToSet(ab) \cap ToSet(c) = {}
    BY <1>5, <2>1
  <2> HIDE DEF ab
  <2>3. ab \o c \in Seq(Kinds) /\ IsInjective(ab \o c) /\ ToSet(ab \o c) = ToSet(ab) \cup ToSet(c)
    BY <1>3, <2>2, Joined
  <2> QED
    BY <1>5, <2>3, Zenon DEF ab
<1> QED
  BY <1>3, <1>4, <1>6

\* An event by its type.
LEMMA TraceFields ==
  ASSUME NEW e \in TelemetryEvents, e.type = "layer_trace"
  PROVE  e.latency \in Nat /\ e.stats \in Statistics
BY DEF TelemetryEvents, KnownTypes

\* The packets of a producer that its callback sees.
Arriving(p) == {packet \in Packets(p) : p \in Remote => Decodes(packet)}

\* What a producer publishes is an event about a known layer and device.
LEMMA ArrivingEvents ==
  ASSUME NEW p \in Producers, NEW packet \in Arriving(p)
  PROVE  LET e == Event(p, packet)
         IN  /\ e \in TelemetryEvents
             /\ e.type \in {"layer_trace", "attention_weights"} => e.layer \in Layers
             /\ e.type = "layer_trace" => e.device \in Devices
BY PacketAssumption, DecodedIsEvent DEF Arriving, Event

\* What an event raises, for an event of any kind.
Raises(e) ==
  CASE e.type = "anomaly" -> <<"flagged">>
    [] e.type = "layer_trace" -> Det!Verdicts(e.layer_type, e.stats)
    [] OTHER -> <<>>

\* An event raises finitely many alerts, no kind twice (anomaly_detector.cpp:31-65).
LEMMA RaisesKinds ==
  ASSUME NEW e \in TelemetryEvents
  PROVE  Raises(e) \in Seq(Kinds) /\ IsInjective(Raises(e))
<1>1. CASE e.type = "anomaly"
  BY <1>1 DEF Raises, Kinds, IsInjective
<1>2. CASE e.type = "layer_trace"
  BY <1>2, TraceFields, VerdictsRaised DEF Raises
<1>3. CASE e.type \notin {"anomaly", "layer_trace"}
  BY <1>3 DEF Raises, IsInjective
<1> QED
  BY <1>1, <1>2, <1>3

-----------------------------------------------------------------------------
(* The types, and what one step does to the sets of events.                *)

\* What a callback still has to record is the rest of what its event raises.
IsRest(rest, all) ==
  /\ Len(rest) <= Len(all)
  /\ \A i \in 1 .. Len(rest) : rest[i] = all[Len(all) - Len(rest) + i]

Types ==
  /\ DOMAIN published = Producers
  /\ \A p \in Producers : published[p] \in Seq(Arriving(p))
  /\ pc \in [Producers -> {"idle", "ring", "aggregator", "detector"}]
  /\ \A p \in Producers : pc[p] # "idle" => Len(published[p]) > 0
  /\ raising \in [Producers -> Seq(Kinds)]
  /\ \A p \in Producers :
       IF pc[p] = "detector" /\ Latest(p).type = "layer_trace"
       THEN IsRest(raising[p], KindsOf(Id(p)))
       ELSE raising[p] = <<>>

\* The latest event is the one of the latest number.
LEMMA LatestEvent ==
  ASSUME NEW p
  PROVE  Latest(p) = EventOf(Id(p)) /\ Latest(p)' = EventOf(Id(p))'
BY DEF Latest, EventOf, Id, Last

\* So it is with every event published so far.
LEMMA EventTypes ==
  ASSUME Types, NEW p \in Producers, NEW i \in 1 .. Len(published[p])
  PROVE  LET e == EventOf(<<p, i>>)
         IN  /\ e \in TelemetryEvents
             /\ e.type \in {"layer_trace", "attention_weights"} => e.layer \in Layers
             /\ e.type = "layer_trace" => e.device \in Devices
             /\ KindsOf(<<p, i>>) = Raises(e)
             /\ KindsOf(<<p, i>>) \in Seq(Kinds) /\ IsInjective(KindsOf(<<p, i>>))
<1>1. published[p][i] \in Arriving(p)
  BY DEF Types
<1>2. EventOf(<<p, i>>) = Event(p, published[p][i])
  BY DEF EventOf
<1>3. KindsOf(<<p, i>>) = Raises(EventOf(<<p, i>>))
  BY DEF KindsOf, Raises
<1> QED
  BY <1>1, <1>2, <1>3, ArrivingEvents, RaisesKinds

\* And with the one its producer is handing to the consumers.
LEMMA LatestTypes ==
  ASSUME Types, NEW p \in Producers, pc[p] # "idle"
  PROVE  LET e == Latest(p)
         IN  /\ Len(published[p]) \in Nat \ {0} /\ Id(p) \in Ids
             /\ e = EventOf(Id(p)) /\ e \in TelemetryEvents
             /\ e.type \in {"layer_trace", "attention_weights"} => e.layer \in Layers
             /\ e.type = "layer_trace" => e.device \in Devices
             /\ KindsOf(Id(p)) = Raises(e)
             /\ KindsOf(Id(p)) \in Seq(Kinds) /\ IsInjective(KindsOf(Id(p)))
<1>1. Len(published[p]) \in Nat \ {0} /\ Len(published[p]) \in 1 .. Len(published[p])
  BY DEF Types
<1>2. Id(p) = <<p, Len(published[p])>> /\ Id(p) \in Ids
  BY <1>1 DEF Id, Ids
<1> QED
  BY <1>1, <1>2, EventTypes, LatestEvent

Reach(p, stages) == Len(published[p]) - (IF pc[p] \in stages THEN 1 ELSE 0)

\* The first f[p] places of every producer, as one set of pairs.
LEMMA Rows ==
  ASSUME NEW f
  PROVE  UNION {{p} \X (1 .. f[p]) : p \in Producers} = {id \in Producers \X Int : id[2] \in 1 .. f[id[1]]}
<1> DEFINE rows == UNION {{p} \X (1 .. f[p]) : p \in Producers}
<1>1. ASSUME NEW id \in rows PROVE id \in Producers \X Int /\ id[2] \in 1 .. f[id[1]]
  OBVIOUS
<1>2. ASSUME NEW id \in Producers \X Int, id[2] \in 1 .. f[id[1]] PROVE id \in rows
  <2>1. id \in {id[1]} \X (1 .. f[id[1]])
    BY <1>2
  <2> QED
    BY <2>1
<1> QED
  BY <1>1, <1>2

\* Membership in the events past some stages, now and after a step.
LEMMA PastMember ==
  ASSUME NEW stages
  PROVE  /\ Past(stages) = {id \in Producers \X Int : id[2] \in 1 .. Reach(id[1], stages)}
         /\ Past(stages)' = {id \in Producers \X Int : id[2] \in 1 .. Reach(id[1], stages)'}
<1> DEFINE now == [p \in Producers |-> Reach(p, stages)]
           next == [p \in Producers |-> Reach(p, stages)']
           Cells(f) == {id \in Producers \X Int : id[2] \in 1 .. f[id[1]]}
<1>1. Past(stages) = UNION {{p} \X (1 .. now[p]) : p \in Producers}
  BY DEF Past, Reach
<1>2. Past(stages)' = UNION {{p} \X (1 .. next[p]) : p \in Producers}
  BY DEF Past, Reach
<1>3. \A p \in Producers : now[p] = Reach(p, stages) /\ next[p] = Reach(p, stages)'
  OBVIOUS
<1> HIDE DEF now, next
<1>4. Past(stages) = Cells(now) /\ Past(stages)' = Cells(next)
  BY <1>1, <1>2, Rows
<1> QED
  BY <1>3, <1>4

\* The events already published stay what they are.
LEMMA EventsKept ==
  ASSUME Types, [Next]_vars, NEW p \in Producers, NEW i \in 1 .. Len(published[p])
  PROVE  /\ i \in 1 .. Len(published'[p])
         /\ published'[p][i] = published[p][i]
         /\ EventOf(<<p, i>>)' = EventOf(<<p, i>>) /\ KindsOf(<<p, i>>)' = KindsOf(<<p, i>>)
<1>1. i \in 1 .. Len(published'[p]) /\ published'[p][i] = published[p][i]
  <2>1. CASE published' = published
    BY <2>1
  <2>2. CASE \E q \in Producers : Publish(q)
    <3>1. PICK q \in Producers : \E packet : published' = [published EXCEPT ![q] = Append(@, packet)]
      BY <2>2 DEF Publish
    <3>2. CASE p = q
      <4>1. PICK packet : published'[p] = Append(published[p], packet) /\ published[p] \in Seq(Arriving(p))
        BY <3>1, <3>2 DEF Types
      <4> QED
        BY <4>1
    <3>3. CASE p # q
      BY <3>1, <3>3 DEF Types
    <3> QED
      BY <3>2, <3>3
  <2> QED
    BY <2>1, <2>2 DEF Next, vars, Step, Store, Aggregate, PassOn, Raise, CallbackReturns
<1>2. EventOf(<<p, i>>)' = EventOf(<<p, i>>)
  BY <1>1 DEF EventOf
<1> QED
  BY <1>1, <1>2 DEF KindsOf

\* What a step of a producer leaves alone.
LEMMA OthersUnchanged ==
  ASSUME Types, NEW p \in Producers, Step(p), NEW q \in Producers, q # p
  PROVE  published'[q] = published[q] /\ pc'[q] = pc[q] /\ raising'[q] = raising[q]
BY DEF Types, Step, Publish, Store, Aggregate, PassOn, Raise, CallbackReturns

\* Publishing makes no event past a stage.
LEMMA PublishPast ==
  ASSUME Types, NEW p \in Producers, Publish(p), NEW stages, "ring" \in stages, "idle" \notin stages
  PROVE  Past(stages)' = Past(stages)
<1>1. ASSUME NEW q \in Producers PROVE Reach(q, stages)' = Reach(q, stages)
  <2>1. CASE q = p
    BY <2>1 DEF Publish, Types, Reach
  <2>2. CASE q # p
    BY <2>2 DEF Publish, Types, Reach
  <2> QED
    BY <2>1, <2>2
<1> QED
  BY <1>1, PastMember

\* A callback that gets past a stage takes its event with it.
LEMMA StagePast ==
  ASSUME Types, NEW p \in Producers, UNCHANGED published, NEW stages, "idle" \notin stages,
         NEW stage, pc' = [pc EXCEPT ![p] = stage], pc[p] \in stages, stage \notin stages
  PROVE  Past(stages)' = Past(stages) \cup {Id(p)} /\ Id(p) \notin Past(stages)
<1> DEFINE n == Len(published[p])
           old == Past(stages)
           new == Past(stages)'
<1>1. ASSUME NEW q \in Producers, q # p PROVE Reach(q, stages)' = Reach(q, stages)
  BY <1>1 DEF Types, Reach
<1>2. n \in Nat \ {0} /\ Reach(p, stages) = n - 1 /\ Reach(p, stages)' = n
  BY DEF Types, Reach
<1>3. /\ old = {id \in Producers \X Int : id[2] \in 1 .. Reach(id[1], stages)}
      /\ new = {id \in Producers \X Int : id[2] \in 1 .. Reach(id[1], stages)'}
  BY PastMember
<1> HIDE DEF n, old, new
<1>4. 1 .. n = (1 .. n - 1) \cup {n} /\ n \notin 1 .. n - 1 /\ <<p, n>> \in Producers \X Int
  BY <1>2
<1>5. ASSUME NEW id \in Producers \X Int
      PROVE  id[2] \in 1 .. Reach(id[1], stages)' <=> id[2] \in 1 .. Reach(id[1], stages) \/ id = <<p, n>>
  <2>1. CASE id[1] = p
    <3>1. id = <<p, id[2]>>
      BY <2>1
    <3> QED
      BY <1>2, <1>4, <2>1, <3>1
  <2>2. CASE id[1] # p
    <3>1. Reach(id[1], stages)' = Reach(id[1], stages)
      BY <1>1, <2>2
    <3> QED
      BY <2>2, <3>1
  <2> QED
    BY <2>1, <2>2
<1>6. new = old \cup {<<p, n>>}
  BY <1>3, <1>4, <1>5
<1>7. <<p, n>> \notin old
  <2>1. <<p, n>>[1] = p /\ <<p, n>>[2] = n
    OBVIOUS
  <2> QED
    BY <1>2, <1>3, <1>4, <2>1
<1> QED
  BY <1>6, <1>7 DEF n, old, new, Id

\* A move between two stages on the same side leaves what is past them.
LEMMA SamePast ==
  ASSUME Types, NEW p \in Producers, UNCHANGED published, NEW stages,
         NEW stage, pc' = [pc EXCEPT ![p] = stage], pc[p] \in stages <=> stage \in stages
  PROVE  Past(stages)' = Past(stages)
<1>1. ASSUME NEW q \in Producers PROVE Reach(q, stages)' = Reach(q, stages)
  <2>1. CASE q = p
    BY <2>1 DEF Types, Reach
  <2>2. CASE q # p
    BY <2>2 DEF Types, Reach
  <2> QED
    BY <2>1, <2>2
<1> QED
  BY <1>1, PastMember

-----------------------------------------------------------------------------
(* Keeping the newest: a sequence s holds the last of the members of W, in *)
(* the order R of those that are related by S.                             *)

KeepsNewest(s, W, S, R) ==
  /\ ToSet(s) \subseteq W
  /\ \A i, j \in 1 .. Len(s) : i < j /\ <<s[i], s[j]>> \in S => <<s[i], s[j]>> \in R
  /\ \A i \in 1 .. Len(s) : \A x \in W : <<s[i], x>> \in R => x \in ToSet(s)

\* The members and the places of a sequence.
LEMMA InSeq ==
  ASSUME NEW T, NEW s \in Seq(T)
  PROVE  ToSet(s) = {s[i] : i \in 1 .. Len(s)} /\ DOMAIN s = 1 .. Len(s) /\ Len(s) \in Nat
BY DEF ToSet

\* What is newer than all the others goes to the end.
LEMMA AppendKeeps ==
  ASSUME NEW T, NEW s \in Seq(T), NEW W \in SUBSET T, NEW a \in T, NEW S, NEW R,
         KeepsNewest(s, W, S, R),
         \A x \in W : /\ <<x, a>> \in S => <<x, a>> \in R
                      /\ <<a, x>> \notin R
  PROVE  KeepsNewest(Append(s, a), W \cup {a}, S, R)
<1> DEFINE n == Len(s)
           t == Append(s, a)
           V == W \cup {a}
<1>1. /\ n \in Nat /\ t \in Seq(T) /\ Len(t) = n + 1
      /\ \A i \in 1 .. n : t[i] = s[i]
      /\ t[n + 1] = a
  OBVIOUS
<1>2. ToSet(s) = {s[i] : i \in 1 .. n} /\ ToSet(t) = {t[i] : i \in 1 .. n + 1}
  BY <1>1, InSeq
<1> HIDE DEF n, t
<1>3. 1 .. n + 1 = (1 .. n) \cup {n + 1}
  BY <1>1
<1>4. ToSet(t) = ToSet(s) \cup {a}
  <2>1. ASSUME NEW x \in ToSet(s) PROVE x \in ToSet(t)
    <3>1. PICK i \in 1 .. n : x = s[i]
      BY <1>2
    <3>2. i \in 1 .. n + 1 /\ t[i] = x
      BY <1>1, <1>3, <3>1
    <3> QED
      BY <1>2, <3>2
  <2>2. a \in ToSet(t)
    BY <1>1, <1>2, <1>3
  <2>3. ASSUME NEW x \in ToSet(t) PROVE x \in ToSet(s) \cup {a}
    <3>1. PICK i \in 1 .. n + 1 : x = t[i]
      BY <1>2
    <3> QED
      BY <1>1, <1>2, <1>3, <3>1
  <2> QED
    BY <2>1, <2>2, <2>3
<1>5. \A i \in 1 .. n : s[i] \in W
  BY <1>2 DEF KeepsNewest
<1>6. ASSUME NEW i \in 1 .. n + 1, NEW j \in 1 .. n + 1, i < j, <<t[i], t[j]>> \in S
      PROVE  <<t[i], t[j]>> \in R
  <2>1. i \in 1 .. n /\ t[i] = s[i]
    BY <1>1, <1>6
  <2>2. CASE j = n + 1
    BY <1>1, <1>5, <1>6, <2>1, <2>2
  <2>3. CASE j # n + 1
    <3>1. j \in 1 .. n /\ t[j] = s[j]
      BY <1>1, <1>3, <2>3
    <3> QED
      BY <1>6, <2>1, <3>1 DEF KeepsNewest, n
  <2> QED
    BY <2>2, <2>3
<1>7. ASSUME NEW i \in 1 .. n + 1, NEW x \in V, <<t[i], x>> \in R
      PROVE  x \in ToSet(t)
  <2>1. CASE x = a
    BY <1>4, <2>1
  <2>2. CASE x \in W
    <3>1. t[i] # a
      BY <1>7, <2>2
    <3>2. i \in 1 .. n /\ t[i] = s[i]
      BY <1>1, <1>3, <3>1
    <3> QED
      BY <1>4, <1>7, <2>2, <3>2 DEF KeepsNewest, n
  <2> QED
    BY <2>1, <2>2
<1>8. ToSet(t) \subseteq V
  BY <1>4 DEF KeepsNewest
<1> QED
  BY <1>1, <1>6, <1>7, <1>8 DEF KeepsNewest, t

\* The oldest is dropped.
LEMMA TailKeeps ==
  ASSUME NEW T, NEW s \in Seq(T), s # <<>>, NEW W, NEW S, NEW R,
         KeepsNewest(s, W, S, R),
         \A x, y \in W : <<x, y>> \in R => <<y, x>> \in S /\ <<y, x>> \notin R
  PROVE  KeepsNewest(Tail(s), W, S, R)
<1> DEFINE n == Len(s)
           t == Tail(s)
<1>1. /\ n \in Nat \ {0} /\ t \in Seq(T) /\ Len(t) = n - 1
      /\ \A i \in 1 .. n - 1 : t[i] = s[i + 1] /\ i + 1 \in 1 .. n
      /\ 1 \in 1 .. n
  OBVIOUS
<1>2. ToSet(s) = {s[i] : i \in 1 .. n} /\ ToSet(t) = {t[i] : i \in 1 .. n - 1}
  BY <1>1, InSeq
<1> HIDE DEF n, t
<1>3. ToSet(t) \subseteq ToSet(s) /\ ToSet(s) \subseteq W
  BY <1>1, <1>2 DEF KeepsNewest
<1>4. ASSUME NEW i \in 1 .. n - 1, NEW j \in 1 .. n - 1, i < j, <<t[i], t[j]>> \in S
      PROVE  <<t[i], t[j]>> \in R
  <2>1. t[i] = s[i + 1] /\ t[j] = s[j + 1] /\ i + 1 < j + 1 /\ i + 1 \in 1 .. n /\ j + 1 \in 1 .. n
    BY <1>1, <1>4
  <2> QED
    BY <1>4, <2>1 DEF KeepsNewest, n
<1>5. ASSUME NEW i \in 1 .. n - 1, NEW x \in W, <<t[i], x>> \in R
      PROVE  x \in ToSet(t)
  <2>1. t[i] = s[i + 1] /\ 1 < i + 1 /\ i + 1 \in 1 .. n /\ s[i + 1] \in W
    BY <1>1, <1>2, <1>3
  <2>2. x \in ToSet(s)
    BY <1>5, <2>1 DEF KeepsNewest, n
  <2>3. PICK k \in 1 .. n : x = s[k]
    BY <1>2, <2>2
  <2>4. k # 1
    <3> SUFFICES ASSUME k = 1 PROVE FALSE
      OBVIOUS
    <3>1. <<s[1], s[i + 1]>> \in S /\ <<s[1], s[i + 1]>> \notin R
      BY <1>5, <2>1, <2>3
    <3> QED
      BY <1>1, <2>1, <3>1 DEF KeepsNewest, n
  <2>5. k - 1 \in 1 .. n - 1 /\ t[k - 1] = x
    <3>1. k - 1 \in 1 .. n - 1 /\ (k - 1) + 1 = k
      BY <1>1, <2>4
    <3> QED
      BY <1>1, <2>3, <3>1
  <2> QED
    BY <1>2, <2>5
<1> QED
  BY <1>1, <1>3, <1>4, <1>5 DEF KeepsNewest, t

\* The smaller of two numbers.
LEMMA Smallest ==
  ASSUME NEW a \in Int, NEW b \in Int
  PROVE  Min({a, b}) = IF a <= b THEN a ELSE b
<1> DEFINE m == IF a <= b THEN a ELSE b
<1>1. m \in {a, b} /\ \A y \in {a, b} : m <= y
  OBVIOUS
<1>2. \A x \in {a, b} : (\A y \in {a, b} : x <= y) => x = m
  OBVIOUS
<1> HIDE DEF m
<1> QED
  BY <1>1, <1>2 DEF Min, m

\* Types holds when nothing was published.
LEMMA TypesAtStart == Init => Types
BY DEF Init, Types, Det!Init, Ring!Init, Agg!Init

\* No step leaves Types.
LEMMA TypesInductive == Types /\ [Next]_vars => Types'
<1> SUFFICES ASSUME Types, [Next]_vars PROVE Types'
  OBVIOUS
<1>1. CASE UNCHANGED vars
  BY <1>1 DEF vars, Types, Latest, KindsOf, Id, EventOf
<1>2. ASSUME NEW p \in Producers, Step(p)
      PROVE  Types'
  <2>1. ASSUME NEW q \in Producers, q # p
        PROVE  /\ published'[q] = published[q] /\ pc'[q] = pc[q] /\ raising'[q] = raising[q]
               /\ Latest(q)' = Latest(q) /\ KindsOf(Id(q))' = KindsOf(Id(q))
    <3>1. published'[q] = published[q] /\ pc'[q] = pc[q] /\ raising'[q] = raising[q]
      BY <1>2, <2>1, OthersUnchanged
    <3> QED
      BY <3>1 DEF Latest, KindsOf, EventOf, Id
  <2> DEFINE Rest(q) == IF pc[q] = "detector" /\ Latest(q).type = "layer_trace"
                        THEN IsRest(raising[q], KindsOf(Id(q)))
                        ELSE raising[q] = <<>>
  <2>2. ASSUME DOMAIN published' = Producers, published'[p] \in Seq(Arriving(p)),
               pc' \in [Producers -> {"idle", "ring", "aggregator", "detector"}],
               pc'[p] # "idle" => Len(published'[p]) > 0,
               raising' \in [Producers -> Seq(Kinds)],
               Rest(p)'
        PROVE  Types'
    <3>1. \A q \in Producers : published'[q] \in Seq(Arriving(q)) /\ (pc'[q] # "idle" => Len(published'[q]) > 0)
      BY <2>1, <2>2 DEF Types
    <3>2. \A q \in Producers : Rest(q)'
      <4>1. ASSUME NEW q \in Producers, q # p PROVE Rest(q)'
        <5>1. Rest(q)
          BY DEF Types
        <5> QED
          BY <2>1, <4>1, <5>1
      <4> QED
        BY <2>2, <4>1
    <3> QED
      BY <2>2, <3>1, <3>2 DEF Types
  <2>3. CASE Publish(p)
    <3>1. PICK packet \in Arriving(p) : published' = [published EXCEPT ![p] = Append(@, packet)]
      BY <2>3 DEF Publish, Arriving
    <3>2. DOMAIN published' = Producers /\ published'[p] = Append(published[p], packet)
      BY <3>1 DEF Types
    <3>3. published'[p] \in Seq(Arriving(p)) /\ Len(published'[p]) > 0
      BY <3>2 DEF Types
    <3>4. pc' \in [Producers -> {"idle", "ring", "aggregator", "detector"}] /\ pc'[p] = "ring"
          /\ raising' = raising /\ raising[p] = <<>>
      BY <2>3 DEF Publish, Types
    <3> QED
      BY <2>2, <3>2, <3>3, <3>4 DEF Types
  <2>4. CASE Store(p)
    <3>1. pc' \in [Producers -> {"idle", "ring", "aggregator", "detector"}] /\ pc'[p] = "aggregator"
          /\ raising' = raising /\ raising[p] = <<>> /\ published' = published /\ pc[p] # "idle"
      BY <2>4 DEF Store, Types
    <3> QED
      BY <2>2, <3>1 DEF Types
  <2>5. CASE Aggregate(p)
    <3>1. /\ pc' \in [Producers -> {"idle", "ring", "aggregator", "detector"}] /\ pc'[p] = "detector"
          /\ published' = published /\ pc[p] # "idle"
      BY <2>5 DEF Aggregate, Types
    <3>2. Latest(p)' = Latest(p) /\ KindsOf(Id(p))' = KindsOf(Id(p)) /\ KindsOf(Id(p)) = Raises(Latest(p))
      BY <3>1, LatestTypes DEF Latest, KindsOf, EventOf, Id
    <3>3. raising' = [raising EXCEPT ![p] = raising'[p]]
      BY <2>5 DEF Aggregate, Types
    <3>4. CASE Latest(p).type = "layer_trace"
      <4>1. raising'[p] = KindsOf(Id(p)) /\ raising'[p] \in Seq(Kinds)
        BY <2>5, <3>1, <3>2, <3>4, LatestTypes DEF Aggregate, Types, Raises
      <4>2. IsRest(raising'[p], KindsOf(Id(p))')
        BY <3>2, <4>1 DEF IsRest
      <4> QED
        BY <2>2, <3>1, <3>2, <3>3, <3>4, <4>1, <4>2 DEF Types
    <3>5. CASE Latest(p).type # "layer_trace"
      <4>1. raising'[p] = <<>>
        BY <2>5, <3>5 DEF Aggregate, Types
      <4> QED
        BY <2>2, <3>1, <3>2, <3>3, <3>5, <4>1 DEF Types
    <3> QED
      BY <3>4, <3>5
  <2>6. CASE PassOn(p) \/ CallbackReturns(p)
    <3>1. /\ pc' = [pc EXCEPT ![p] = "idle"] /\ raising' = raising /\ published' = published
          /\ raising[p] = <<>>
      BY <2>6 DEF PassOn, CallbackReturns, Types
    <3>2. pc' \in [Producers -> {"idle", "ring", "aggregator", "detector"}] /\ pc'[p] = "idle"
      BY <3>1 DEF Types
    <3> QED
      BY <2>2, <3>1, <3>2 DEF Types
  <2>7. CASE Raise(p)
    <3>1. /\ pc' = pc /\ pc[p] = "detector" /\ published' = published
          /\ raising' = [raising EXCEPT ![p] = Tail(raising[p])] /\ raising[p] # <<>>
      BY <2>7 DEF Raise
    <3>2. raising[p] \in Seq(Kinds) /\ raising'[p] = Tail(raising[p])
      BY <3>1 DEF Types
    <3>3. raising' \in [Producers -> Seq(Kinds)]
      BY <3>1, <3>2 DEF Types
    <3>4. Latest(p)' = Latest(p) /\ KindsOf(Id(p))' = KindsOf(Id(p))
      BY <3>1 DEF Latest, KindsOf, EventOf, Id
    <3>5. Latest(p).type = "layer_trace" /\ IsRest(raising[p], KindsOf(Id(p)))
      BY <3>1 DEF Types
    <3>6. IsRest(raising'[p], KindsOf(Id(p)))
      <4> DEFINE rest == raising[p]
                 all == KindsOf(Id(p))
      <4>1. all \in Seq(Kinds) /\ Len(all) \in Nat
        BY <3>1, LatestTypes
      <4> HIDE DEF rest, all
      <4>2. /\ Len(Tail(rest)) = Len(rest) - 1 /\ Len(rest) \in Nat \ {0}
            /\ \A i \in 1 .. Len(rest) - 1 : Tail(rest)[i] = rest[i + 1]
        BY <3>1, <3>2 DEF rest
      <4>3. /\ Len(rest) <= Len(all)
            /\ \A i \in 1 .. Len(rest) : rest[i] = all[Len(all) - Len(rest) + i]
        BY <3>5 DEF IsRest, rest, all
      <4>4. \A i \in 1 .. Len(rest) - 1 : Tail(rest)[i] = all[Len(all) - (Len(rest) - 1) + i]
        <5> TAKE i \in 1 .. Len(rest) - 1
        <5>1. i + 1 \in 1 .. Len(rest) /\ Len(all) - Len(rest) + (i + 1) = Len(all) - (Len(rest) - 1) + i
          BY <4>1, <4>2
        <5> QED
          BY <4>2, <4>3, <5>1
      <4>5. Len(rest) - 1 <= Len(all)
        BY <4>1, <4>2, <4>3
      <4> QED
        BY <3>2, <4>2, <4>4, <4>5 DEF IsRest, rest, all
    <3> QED
      BY <2>2, <3>1, <3>3, <3>4, <3>5, <3>6 DEF Types
  <2> QED
    BY <1>2, <2>3, <2>4, <2>5, <2>6, <2>7 DEF Step
<1> QED
  BY <1>1, <1>2 DEF Next

-----------------------------------------------------------------------------
(* The ring.                                                               *)

RP == INSTANCE RingBufferProofs WITH
        Capacity <- RingCapacity, Events <- Ids, Blank <- None,
        Matrices <- Ids, NoAttention <- None

RingIsFilled == Ring!TypeOK /\ Ring!FillsFrontToBack

\* What the proofs about the ring alone show of the ring of the consumers.
LEMMA RingSteps ==
  ASSUME RingIsFilled
  PROVE  /\ Ring!capacity \in Nat \ {0}
         /\ Ring!GetAll \in Seq(Ids \cup {None}) /\ Len(Ring!GetAll) = size
         /\ size \in 0 .. Ring!capacity
         /\ UNCHANGED ringVars => RingIsFilled' /\ Ring!GetAll' = Ring!GetAll
         /\ \A l \in Layers, m \in Ids : Ring!PushAttention(l, m) => RingIsFilled' /\ Ring!GetAll' = Ring!GetAll
         /\ \A id \in Ids : Ring!Push(id) =>
              /\ RingIsFilled'
              /\ Ring!GetAll' = IF size < Ring!capacity THEN Append(Ring!GetAll, id)
                                ELSE Tail(Append(Ring!GetAll, id))
<1> USE LimitsAssumption
<1>1. /\ RP!RingInv = RingIsFilled /\ RP!capacity = Ring!capacity
      /\ RP!GetAll = Ring!GetAll
  BY DEF RingIsFilled, RP!RingInv, RP!TypeOK, RP!FillsFrontToBack, RP!Slots, RP!capacity, RP!GetAll, RP!Start,
         Ring!TypeOK, Ring!FillsFrontToBack, Ring!Slots, Ring!capacity, Ring!GetAll, Ring!Start
<1>2. RP!RingInv' = RingIsFilled' /\ RP!GetAll' = Ring!GetAll'
  BY DEF RingIsFilled, RP!RingInv, RP!TypeOK, RP!FillsFrontToBack, RP!Slots, RP!capacity, RP!GetAll, RP!Start,
         Ring!TypeOK, Ring!FillsFrontToBack, Ring!Slots, Ring!capacity, Ring!GetAll, Ring!Start
<1>3. Ring!capacity \in Nat \ {0}
  BY DEF Ring!capacity
<1>4. Ring!GetAll \in Seq(Ids \cup {None}) /\ Len(Ring!GetAll) = size
  BY <1>1, RP!GetAllIsSeq
<1>5. size \in 0 .. Ring!capacity
  BY DEF RingIsFilled, Ring!TypeOK
<1>6. UNCHANGED ringVars => RingIsFilled' /\ Ring!GetAll' = Ring!GetAll
  BY DEF ringVars, RingIsFilled, Ring!TypeOK, Ring!FillsFrontToBack, Ring!GetAll, Ring!Start
<1>7. ASSUME NEW l \in Layers, NEW m \in Ids, Ring!PushAttention(l, m)
      PROVE  RingIsFilled' /\ Ring!GetAll' = Ring!GetAll
  BY <1>7 DEF Ring!PushAttention, RingIsFilled, Ring!TypeOK, Ring!FillsFrontToBack, Ring!GetAll, Ring!Start
<1>8. ASSUME NEW id \in Ids, Ring!Push(id)
      PROVE  /\ RingIsFilled'
             /\ Ring!GetAll' = IF size < Ring!capacity THEN Append(Ring!GetAll, id)
                               ELSE Tail(Append(Ring!GetAll, id))
  <2>1. RP!Push(id)
    BY <1>8 DEF RP!Push, Ring!Push, RP!capacity, Ring!capacity
  <2>2. RP!RingInv /\ [RP!Next]_(RP!vars)
    BY <1>1, <2>1 DEF RP!Next
  <2>3. RingIsFilled'
    BY <1>2, <2>2, RP!RingInvInductive
  <2>4. RP!GetAll' = RP!Log!LastN(Append(RP!GetAll, id), RP!capacity)
    BY <2>1, <2>2, RP!PushRecords
  <2> DEFINE more == Append(Ring!GetAll, id)
  <2>5. /\ more \in Seq(Ids \cup {None}) /\ Len(more) = size + 1
    BY <1>4, <1>5
  <2>6. RP!Log!LastN(more, Ring!capacity) = IF size < Ring!capacity THEN more ELSE Tail(more)
    <3>1. CASE size < Ring!capacity
      <4>1. Len(more) <= Ring!capacity
        BY <1>3, <1>5, <2>5, <3>1
      <4> QED
        BY <3>1, <4>1 DEF RP!Log!LastN
    <3>2. CASE ~(size < Ring!capacity)
      <4>1. ~(Len(more) <= Ring!capacity) /\ Len(more) - Ring!capacity + 1 = 2
        BY <1>3, <1>5, <2>5, <3>2
      <4>2. Tail(more) = SubSeq(more, 2, Len(more))
        <5> HIDE DEF more
        <5>1. Len(more) \in Nat /\ Len(more) >= 1
          BY <1>5, <2>5
        <5> DEFINE s == Tail(more)
                   t == SubSeq(more, 2, Len(more))
        <5>2. /\ s \in Seq(Ids \cup {None}) /\ Len(s) = Len(more) - 1
              /\ \A i \in 1 .. Len(more) - 1 : s[i] = more[i + 1]
          BY <2>5, <5>1
        <5>3. /\ t \in Seq(Ids \cup {None}) /\ Len(t) = Len(more) - 1
              /\ \A i \in 1 .. Len(more) - 1 : t[i] = more[i + 1]
          BY <2>5, <5>1
        <5> HIDE DEF s, t
        <5>4. s = t
          BY <5>1, <5>2, <5>3
        <5> QED
          BY <5>4 DEF s, t
      <4> HIDE DEF more
      <4> QED
        BY <3>2, <4>1, <4>2 DEF RP!Log!LastN
    <3> QED
      BY <3>1, <3>2
  <2> QED
    BY <1>1, <1>2, <2>3, <2>4, <2>6
<1> QED
  BY <1>3, <1>4, <1>5, <1>6, <1>7, <1>8

\* Events of one producer, and their order.
Siblings == {pair \in Ids \X Ids : pair[1][1] = pair[2][1]}
IdOrder == {pair \in Ids \X Ids : Before(pair[1], pair[2])}

\* Of two events of one producer one is before the other.
LEMMA IdPairs ==
  \A a, b \in Ids : /\ <<a, b>> \in Siblings <=> a[1] = b[1]
                    /\ <<a, b>> \in IdOrder <=> Before(a, b)
                    /\ <<a, b>> \in IdOrder => <<b, a>> \in Siblings /\ <<b, a>> \notin IdOrder
<1> TAKE a, b \in Ids
<1>1. <<a, b>> \in Siblings <=> a[1] = b[1]
  BY DEF Siblings
<1>2. <<a, b>> \in IdOrder <=> Before(a, b)
  BY DEF IdOrder
<1>3. <<b, a>> \in Siblings <=> a[1] = b[1]
  BY DEF Siblings
<1>4. <<b, a>> \in IdOrder <=> Before(b, a)
  BY DEF IdOrder
<1>5. Before(a, b) => a[1] = b[1] /\ ~Before(b, a)
  BY DEF Before, Ids
<1> QED
  BY <1>1, <1>2, <1>3, <1>4, <1>5

\* The events past a stage are published ones, and stay what they are.
LEMMA PastKept ==
  ASSUME Types, NEW stages, NEW id \in Past(stages)
  PROVE  /\ id \in Ids /\ id[1] \in Producers /\ id[2] \in 1 .. Len(published[id[1]])
         /\ id = <<id[1], id[2]>>
         /\ [Next]_vars => EventOf(id)' = EventOf(id) /\ KindsOf(id)' = KindsOf(id)
<1>1. id \in Producers \X Int /\ id[2] \in 1 .. Reach(id[1], stages)
  BY PastMember
<1>2. id[1] \in Producers /\ id = <<id[1], id[2]>> /\ id[2] \in Int
  BY <1>1
<1>3. id[2] \in 1 .. Len(published[id[1]])
  BY <1>1, <1>2 DEF Reach, Types
<1>4. id \in Ids
  BY <1>2, <1>3 DEF Ids
<1>5. ASSUME [Next]_vars PROVE EventOf(id)' = EventOf(id) /\ KindsOf(id)' = KindsOf(id)
  <2> DEFINE p == id[1]
             i == id[2]
  <2>1. EventOf(<<p, i>>)' = EventOf(<<p, i>>) /\ KindsOf(<<p, i>>)' = KindsOf(<<p, i>>)
    <3> HIDE DEF p, i
    <3>1. p \in Producers /\ i \in 1 .. Len(published[p])
      BY <1>2, <1>3 DEF p, i
    <3> QED
      BY <1>5, <3>1, EventsKept
  <2> QED
    BY <1>2, <2>1
<1> QED
  BY <1>2, <1>3, <1>4, <1>5

\* The latest event is newer than those past a stage that it has not passed.
LEMMA LatestIsNewest ==
  ASSUME Types, NEW p \in Producers, NEW stages, pc[p] \in stages, NEW id \in Past(stages)
  PROVE  ~Before(Id(p), id) /\ (id[1] = p => Before(id, Id(p)))
<1>1. id \in Producers \X Int /\ id[2] \in 1 .. Reach(id[1], stages)
  BY PastMember
<1>2. id[1] = p => id[2] < Len(published[p]) /\ id[2] \in Int /\ Len(published[p]) \in Int
  BY <1>1 DEF Reach, Types
<1> QED
  BY <1>2 DEF Before, Id

StoredInv == RingIsFilled /\ IsFiniteSet(Stored) /\ RingKeepsEachStream

\* What is stored was published.
LEMMA StoredAre ==
  ASSUME Types
  PROVE  Stored \in SUBSET Ids /\ Stored \subseteq Past({"ring"})
BY PastKept DEF Stored

\* A ring filled from the front whose members are events is a sequence of events.
LEMMA RingKeepsNewest ==
  ASSUME RingIsFilled, ToSet(Ring!GetAll) \subseteq Ids
  PROVE  /\ Ring!GetAll \in Seq(Ids)
         /\ \A i \in 1 .. Len(Ring!GetAll) : Ring!GetAll[i] \in Ids
<1> DEFINE ids == Ring!GetAll
<1>1. ids \in Seq(Ids \cup {None})
  BY RingSteps
<1> HIDE DEF ids
<1>2. \A i \in 1 .. Len(ids) : ids[i] \in ToSet(ids)
  BY <1>1 DEF ToSet
<1> QED
  BY <1>1, <1>2 DEF ids

\* The property, as what the general lemmas are about.
LEMMA KeepingIsRing ==
  ASSUME NEW ids \in Seq(Ids), NEW W \in SUBSET Ids
  PROVE  KeepsNewest(ids, W, Siblings, IdOrder) <=>
           /\ ToSet(ids) \subseteq W
           /\ \A i, j \in 1 .. Len(ids) : i < j /\ ids[i][1] = ids[j][1] => Before(ids[i], ids[j])
           /\ \A i \in 1 .. Len(ids) : \A id \in W : Before(ids[i], id) => id \in ToSet(ids)
<1>1. \A i \in 1 .. Len(ids) : ids[i] \in Ids
  OBVIOUS
<1>2. \A i, j \in 1 .. Len(ids) : /\ <<ids[i], ids[j]>> \in Siblings <=> ids[i][1] = ids[j][1]
                                  /\ <<ids[i], ids[j]>> \in IdOrder <=> Before(ids[i], ids[j])
  BY <1>1, IdPairs
<1>3. \A i \in 1 .. Len(ids), id \in W : <<ids[i], id>> \in IdOrder <=> Before(ids[i], id)
  BY <1>1, IdPairs
<1> QED
  BY <1>2, <1>3 DEF KeepsNewest

\* An empty ring holds all there is.
LEMMA StoredAtStart == Init => StoredInv
<1> SUFFICES ASSUME Init PROVE StoredInv
  OBVIOUS
<1>1. RingIsFilled
  BY LimitsAssumption DEF Init, Ring!Init, RingIsFilled, Ring!TypeOK, Ring!FillsFrontToBack, Ring!Slots, Ring!capacity
<1>2. Past({"ring"}) = {}
  <2>1. \A p \in Producers : Reach(p, {"ring"}) = 0
    BY DEF Init, Reach
  <2> QED
    BY <2>1, PastMember
<1>3. Stored = {} /\ IsFiniteSet(Stored) /\ Cardinality(Stored) = 0
  BY <1>2, FS_EmptySet DEF Stored
<1>4. /\ Ring!GetAll \in Seq(Ids \cup {None}) /\ Len(Ring!GetAll) = 0
      /\ Ring!capacity \in Nat \ {0}
  BY <1>1, RingSteps DEF Init, Ring!Init
<1>5. ToSet(Ring!GetAll) = {} /\ 1 .. Len(Ring!GetAll) = {}
  BY <1>4 DEF ToSet
<1>6. Min({Ring!capacity, 0}) = 0
  BY <1>4, Smallest
<1> QED
  BY <1>1, <1>3, <1>4, <1>5, <1>6 DEF StoredInv, RingKeepsEachStream

\* No step makes the ring forget an event that should be in it.
LEMMA StoredInductive == Types /\ StoredInv /\ [Next]_vars => StoredInv'
<1> SUFFICES ASSUME Types, StoredInv, [Next]_vars PROVE StoredInv'
  OBVIOUS
<1> DEFINE ids == Ring!GetAll
           cap == Ring!capacity
<1>1. /\ cap \in Nat \ {0} /\ ids \in Seq(Ids) /\ Len(ids) = size /\ size \in 0 .. cap
      /\ Stored \in SUBSET Ids /\ Cardinality(Stored) \in Nat /\ IsFiniteSet(Stored)
      /\ KeepsNewest(ids, Stored, Siblings, IdOrder)
      /\ Len(ids) = Min({cap, Cardinality(Stored)})
  <2>1. Stored \in SUBSET Ids /\ Cardinality(Stored) \in Nat /\ IsFiniteSet(Stored)
    BY StoredAre, FS_CardinalityType DEF StoredInv
  <2>2. ids \in Seq(Ids)
    BY <2>1, RingKeepsNewest DEF StoredInv, RingKeepsEachStream
  <2>3. KeepsNewest(ids, Stored, Siblings, IdOrder)
    BY <2>1, <2>2, KeepingIsRing DEF StoredInv, RingKeepsEachStream
  <2> QED
    BY <2>1, <2>2, <2>3, RingSteps DEF StoredInv, RingKeepsEachStream
<1>2. ASSUME RingIsFilled', UNCHANGED Stored, ids' = ids
      PROVE  StoredInv'
  <2>1. cap' = cap
    BY DEF Ring!capacity
  <2> QED
    BY <1>2, <2>1 DEF StoredInv, RingKeepsEachStream
<1>3. ASSUME UNCHANGED ringVars, Past({"ring"})' = Past({"ring"})
      PROVE  StoredInv'
  <2>1. RingIsFilled' /\ ids' = ids
    BY <1>3, RingSteps DEF StoredInv
  <2>2. Stored' = Stored
    BY <1>3, PastKept DEF Stored
  <2> QED
    BY <1>2, <2>1, <2>2
<1>4. ASSUME NEW p \in Producers, Store(p)
      PROVE  StoredInv'
  <2>1. /\ Past({"ring"})' = Past({"ring"}) \cup {Id(p)} /\ Id(p) \notin Past({"ring"})
        /\ pc[p] = "ring" /\ published' = published
    <3>1. pc[p] = "ring" /\ published' = published /\ pc' = [pc EXCEPT ![p] = "aggregator"]
      BY <1>4 DEF Store
    <3>2. "idle" \notin {"ring"} /\ pc[p] \in {"ring"} /\ "aggregator" \notin {"ring"}
      BY <3>1
    <3> QED
      BY <3>1, <3>2, StagePast
  <2>2. /\ Id(p) \in Ids /\ Latest(p) = EventOf(Id(p)) /\ EventOf(Id(p))' = EventOf(Id(p))
        /\ Latest(p).type = "attention_weights" => Latest(p).layer \in Layers
    BY <2>1, LatestTypes DEF EventOf, Id
  <2> DEFINE old == Past({"ring"})
             Holds(id) == EventOf(id).type # "attention_weights"
  <2>0. /\ Stored = {id \in old : Holds(id)} /\ Stored' = {id \in old \cup {Id(p)} : Holds(id)'}
        /\ \A id \in old \cup {Id(p)} : Holds(id)' <=> Holds(id)
    <3>1. \A id : EventOf(id)' = EventOf(id)
      BY <2>1 DEF EventOf
    <3> HIDE DEF old
    <3> QED
      BY <2>1, <3>1 DEF Stored, old
  <2> HIDE DEF old
  <2>3. CASE Latest(p).type = "attention_weights"
    <3>1. Stored' = Stored
      BY <2>0, <2>2, <2>3
    <3>2. RingIsFilled' /\ ids' = ids
      BY <1>4, <2>2, <2>3, RingSteps DEF Store, StoredInv
    <3> QED
      BY <1>2, <3>1, <3>2
  <2>4. CASE Latest(p).type # "attention_weights"
    <3>1. Stored' = Stored \cup {Id(p)} /\ Id(p) \notin Stored
      BY <2>0, <2>1, <2>2, <2>4 DEF old
    <3>2. RingIsFilled' /\ ids' = (IF size < cap THEN Append(ids, Id(p)) ELSE Tail(Append(ids, Id(p))))
      BY <1>4, <2>2, <2>4, RingSteps DEF Store, StoredInv
    <3> DEFINE more == Append(ids, Id(p))
               W == Stored \cup {Id(p)}
    <3>3. KeepsNewest(more, W, Siblings, IdOrder) /\ more \in Seq(Ids) /\ Len(more) = size + 1 /\ more # <<>>
      <4>1. \A x \in Stored : /\ <<x, Id(p)>> \in Siblings => <<x, Id(p)>> \in IdOrder
                              /\ <<Id(p), x>> \notin IdOrder
        <5> TAKE x \in Stored
        <5>1. x \in Past({"ring"}) /\ x \in Ids /\ Id(p)[1] = p
          BY StoredAre DEF Id
        <5>2. ~Before(Id(p), x) /\ (x[1] = p => Before(x, Id(p)))
          BY <2>1, <5>1, LatestIsNewest
        <5> QED
          BY <2>2, <5>1, <5>2, IdPairs
      <4> HIDE DEF ids
      <4> QED
        BY <1>1, <2>2, <4>1, AppendKeeps
    <3>4. W \in SUBSET Ids /\ IsFiniteSet(W) /\ Cardinality(W) = Cardinality(Stored) + 1
      BY <1>1, <2>2, <3>1, FS_AddElement
    <3>5. /\ Len(ids) = IF cap <= Cardinality(Stored) THEN cap ELSE Cardinality(Stored)
          /\ Min({cap, Cardinality(W)}) = IF cap <= Cardinality(W) THEN cap ELSE Cardinality(W)
      <4> HIDE DEF cap, ids, W
      <4> QED
        BY <1>1, <3>4, Smallest
    <3>6. /\ ids' \in Seq(Ids) /\ KeepsNewest(ids', W, Siblings, IdOrder)
          /\ Len(ids') = Min({cap, Cardinality(W)})
      <4> HIDE DEF more, W, cap
      <4>1. CASE size < cap
        <5>1. ids' = more
          BY <3>2, <4>1 DEF more
        <5>2. size + 1 = IF cap <= Cardinality(W) THEN cap ELSE Cardinality(W)
          BY <1>1, <3>4, <3>5, <4>1
        <5> QED
          BY <3>3, <3>5, <5>1, <5>2
      <4>2. CASE ~(size < cap)
        <5>1. ids' = Tail(more)
          BY <3>2, <4>2 DEF more
        <5>2. Tail(more) \in Seq(Ids) /\ Len(Tail(more)) = size
          BY <1>1, <3>3
        <5>3. KeepsNewest(Tail(more), W, Siblings, IdOrder)
          <6>1. \A x, y \in W : <<x, y>> \in IdOrder => <<y, x>> \in Siblings /\ <<y, x>> \notin IdOrder
            BY <3>4, IdPairs
          <6> QED
            BY <3>3, <6>1, TailKeeps
        <5>4. Cardinality(W) \in Nat /\ cap <= Cardinality(W) /\ size = cap
          BY <1>1, <3>4, <3>5, <4>2
        <5> QED
          BY <1>1, <3>5, <5>1, <5>2, <5>3, <5>4
      <4> QED
        BY <4>1, <4>2
    <3> DEFINE new == ids'
    <3>7. /\ ToSet(new) \subseteq W
          /\ \A i, j \in 1 .. Len(new) : i < j /\ new[i][1] = new[j][1] => Before(new[i], new[j])
          /\ \A i \in 1 .. Len(new) : \A id \in W : Before(new[i], id) => id \in ToSet(new)
      <4>1. new \in Seq(Ids) /\ KeepsNewest(new, W, Siblings, IdOrder)
        BY <3>6
      <4> HIDE DEF new, W
      <4> QED
        BY <3>4, <4>1, KeepingIsRing
    <3>8. Stored' = W /\ cap' = cap
      BY <3>1 DEF Ring!capacity
    <3> HIDE DEF W
    <3> QED
      BY <3>2, <3>4, <3>6, <3>7, <3>8 DEF StoredInv, RingKeepsEachStream
  <2> QED
    BY <2>3, <2>4
<1>5. ASSUME NEW p \in Producers, Publish(p) \/ Aggregate(p) \/ PassOn(p) \/ Raise(p) \/ CallbackReturns(p)
      PROVE  UNCHANGED ringVars /\ Past({"ring"})' = Past({"ring"})
  <2>1. CASE Publish(p)
    BY <2>1, PublishPast DEF Publish, ringVars
  <2>2. ASSUME UNCHANGED published, NEW stage, stage # "ring", pc[p] # "ring", pc' = [pc EXCEPT ![p] = stage]
        PROVE  Past({"ring"})' = Past({"ring"})
    BY <2>2, SamePast
  <2>3. CASE Aggregate(p)
    BY <2>2, <2>3 DEF Aggregate, ringVars
  <2>4. CASE PassOn(p)
    BY <2>2, <2>4 DEF PassOn, ringVars
  <2>5. CASE Raise(p)
    <3>1. pc' = [pc EXCEPT ![p] = "detector"] /\ pc[p] # "ring"
      BY <2>5 DEF Raise, Types
    <3> QED
      BY <2>2, <2>5, <3>1 DEF Raise, ringVars
  <2>6. CASE CallbackReturns(p)
    BY <2>2, <2>6 DEF CallbackReturns, ringVars
  <2> QED
    BY <1>5, <2>1, <2>3, <2>4, <2>5, <2>6
<1>6. CASE UNCHANGED vars
  <2>1. Past({"ring"})' = Past({"ring"})
    BY <1>6 DEF vars, Past
  <2> QED
    BY <1>3, <1>6, <2>1 DEF vars
<1> QED
  BY <1>3, <1>4, <1>5, <1>6 DEF Next, Step

-----------------------------------------------------------------------------
(* The aggregator.                                                         *)

CountedInv == Agg!TypeOK /\ IsFiniteSet(Counted) /\ NothingMiscounted

\* A running average remains a number (aggregator.cpp:15-20).
LEMMA AverageIsNatural ==
  ASSUME NEW info \in [calls : Nat, avg : Nat, max : Nat], NEW latency \in Nat
  PROVE  Agg!Sampled(info, latency) \in [calls : Nat, avg : Nat, max : Nat]
<1> DEFINE a == info.avg * info.calls + Scale * latency
           n == info.calls + 1
<1>1. a \in Nat /\ n \in Nat \ {0}
  <2>1. info.avg * info.calls \in Nat /\ Scale * latency \in Nat
    BY LimitsAssumption
  <2> QED
    BY <2>1
<1> HIDE DEF a, n
<1>2. a \div n \in Nat
  BY <1>1
<1>3. Agg!Average(info, latency) \in Nat
  BY <1>2 DEF Agg!Average, a, n
<1> QED
  BY <1>3 DEF Agg!Sampled

\* What one trace does to the members of the aggregator.
LEMMA CountTraceTypes ==
  ASSUME Agg!TypeOK, NEW l \in Layers, NEW d \in Devices, NEW t \in Nat, Agg!CountTrace(l, d, t)
  PROVE  Agg!TypeOK'
<1>1. layers' = [layers EXCEPT ![l] = Agg!Sampled(layers[l], t)]
  BY DEF Agg!CountTrace
<1>2. layers' \in [Layers -> [calls : Nat, avg : Nat, max : Nat]]
  <2>1. layers[l] \in [calls : Nat, avg : Nat, max : Nat]
    BY DEF Agg!TypeOK
  <2>2. Agg!Sampled(layers[l], t) \in [calls : Nat, avg : Nat, max : Nat]
    BY <2>1, AverageIsNatural
  <2> QED
    BY <1>1, <2>2 DEF Agg!TypeOK
<1>3. device_counts' \in [Devices -> Nat]
  BY DEF Agg!CountTrace, Agg!TypeOK
<1> QED
  BY <1>2, <1>3 DEF Agg!CountTrace, Agg!TypeOK

\* Nothing is counted of nothing.
LEMMA CountedAtStart == Init => CountedInv
<1> SUFFICES ASSUME Init PROVE CountedInv
  OBVIOUS
<1>1. Agg!TypeOK
  BY DEF Init, Agg!Init, Agg!TypeOK, Agg!NoCalls
<1>2. Counted = {}
  <2>1. \A p \in Producers : Reach(p, {"ring", "aggregator"}) = 0
    BY DEF Init, Reach
  <2> QED
    BY <2>1, PastMember DEF Counted
<1>3. IsFiniteSet(Counted) /\ Cardinality(Counted) = 0
  BY <1>2, FS_EmptySet
<1>4. \A l \in Layers : {id \in Counted : IsTraceOf(id, l)} = {} /\ layers[l].calls = 0
  BY <1>2 DEF Init, Agg!Init, Agg!NoCalls
<1> QED
  BY <1>1, <1>2, <1>3, <1>4 DEF CountedInv, NothingMiscounted, Init, Agg!Init

\* One more event is counted, for one more trace of its layer if it is one.
LEMMA AggregateCounts ==
  ASSUME Types, CountedInv, [Next]_vars, NEW p \in Producers, Aggregate(p)
  PROVE  CountedInv'
<1> DEFINE id0 == Id(p)
           e == Latest(p)
           Of(l) == {id \in Counted : IsTraceOf(id, l)}
<1>1. /\ Counted' = Counted \cup {id0} /\ id0 \notin Counted
      /\ published' = published /\ pc[p] = "aggregator"
  <2>1. published' = published /\ pc[p] = "aggregator" /\ pc' = [pc EXCEPT ![p] = "detector"]
    BY DEF Aggregate
  <2>2. /\ "idle" \notin {"ring", "aggregator"} /\ pc[p] \in {"ring", "aggregator"}
        /\ "detector" \notin {"ring", "aggregator"}
    BY <2>1
  <2> QED
    BY <2>1, <2>2, StagePast DEF Counted
<1>2. /\ e = EventOf(id0) /\ e \in TelemetryEvents
      /\ e.type = "layer_trace" => e.layer \in Layers /\ e.device \in Devices /\ e.latency \in Nat
  BY <1>1, LatestTypes, TraceFields
<1>3. IsFiniteSet(Counted') /\ Cardinality(Counted') = Cardinality(Counted) + 1
  BY <1>1, FS_AddElement DEF CountedInv
<1>4. ASSUME NEW l \in Layers
      PROVE  /\ IsFiniteSet(Of(l))
             /\ Of(l)' = Of(l) \cup (IF IsTraceOf(id0, l) THEN {id0} ELSE {})
             /\ Cardinality(Of(l)') = Cardinality(Of(l)) + (IF IsTraceOf(id0, l) THEN 1 ELSE 0)
  <2>1. \A id : IsTraceOf(id, l)' <=> IsTraceOf(id, l)
    BY <1>1 DEF IsTraceOf, EventOf
  <2>2. Of(l)' = {id \in Counted \cup {id0} : IsTraceOf(id, l)}
    <3> HIDE DEF id0
    <3> QED
      BY <1>1, <2>1
  <2>3. Of(l)' = Of(l) \cup (IF IsTraceOf(id0, l) THEN {id0} ELSE {})
    <3> HIDE DEF id0
    <3> QED
      BY <2>2
  <2>4. Of(l) \in SUBSET Counted /\ id0 \notin Of(l)
    BY <1>1
  <2>5. IsFiniteSet(Of(l)) /\ Cardinality(Of(l)) \in Nat
    BY <2>4, FS_Subset, FS_CardinalityType DEF CountedInv
  <2> DEFINE old == Of(l)
             new == Of(l)'
  <2> HIDE DEF id0, old, new
  <2>6. Cardinality(new) = Cardinality(old) + (IF IsTraceOf(id0, l) THEN 1 ELSE 0)
    <3>1. CASE IsTraceOf(id0, l)
      <4>1. new = old \cup {id0} /\ id0 \notin old /\ IsFiniteSet(old)
        BY <2>3, <2>4, <2>5, <3>1 DEF old, new
      <4> QED
        BY <3>1, <4>1, FS_AddElement
    <3>2. CASE ~IsTraceOf(id0, l)
      <4>1. new = old /\ Cardinality(old) \in Nat
        BY <2>3, <2>5, <3>2 DEF old, new
      <4> QED
        BY <3>2, <4>1
    <3> QED
      BY <3>1, <3>2
  <2> QED
    BY <2>3, <2>5, <2>6 DEF old, new
<1>5. \A l \in Layers : IsTraceOf(id0, l) <=> e.type = "layer_trace" /\ e.layer = l
  BY <1>2 DEF IsTraceOf
<1>6. Agg!TypeOK /\ total_events = Cardinality(Counted) /\ \A l \in Layers : layers[l].calls = Cardinality(Of(l))
  BY DEF CountedInv, NothingMiscounted
<1>7. CASE e.type = "layer_trace"
  <2>1. Agg!CountTrace(e.layer, e.device, e.latency)
    BY <1>7 DEF Aggregate
  <2>2. Agg!TypeOK' /\ total_events' = total_events + 1
    BY <1>2, <1>6, <1>7, <2>1, CountTraceTypes DEF Agg!CountTrace
  <2>3. \A l \in Layers : layers'[l].calls = layers[l].calls + (IF e.layer = l THEN 1 ELSE 0)
    <3> TAKE l \in Layers
    <3>1. layers' = [layers EXCEPT ![e.layer] = Agg!Sampled(layers[e.layer], e.latency)] /\ layers[l].calls \in Nat
      BY <1>6, <2>1 DEF Agg!CountTrace, Agg!TypeOK
    <3>2. Agg!Sampled(layers[e.layer], e.latency).calls = layers[e.layer].calls + 1
      BY DEF Agg!Sampled
    <3> HIDE DEF e
    <3> QED
      BY <1>6, <3>1, <3>2 DEF Agg!TypeOK
  <2>4. \A l \in Layers : layers'[l].calls = Cardinality(Of(l)')
    <3> TAKE l \in Layers
    <3>1. Cardinality(Of(l)') = Cardinality(Of(l)) + (IF e.layer = l THEN 1 ELSE 0)
      BY <1>4, <1>5, <1>7
    <3>2. layers'[l].calls = layers[l].calls + (IF e.layer = l THEN 1 ELSE 0) /\ layers[l].calls = Cardinality(Of(l))
      BY <1>6, <2>3
    <3> HIDE DEF Of, e
    <3> QED
      BY <3>1, <3>2
  <2> QED
    BY <1>3, <1>6, <2>2, <2>4 DEF CountedInv, NothingMiscounted
<1>8. CASE e.type # "layer_trace"
  <2>1. total_events' = total_events + 1 /\ layers' = layers
        /\ UNCHANGED <<device_counts, token_count, total_latency, latency_samples>>
    BY <1>8 DEF Aggregate, Agg!CountOther
  <2>2. Agg!TypeOK'
    BY <1>6, <2>1 DEF Agg!TypeOK
  <2>3. \A l \in Layers : layers'[l].calls = Cardinality(Of(l)')
    <3> TAKE l \in Layers
    <3>1. Of(l)' = Of(l)
      BY <1>4, <1>5, <1>8
    <3> QED
      BY <1>6, <2>1, <3>1
  <2> QED
    BY <1>3, <1>6, <2>1, <2>2, <2>3 DEF CountedInv, NothingMiscounted
<1> QED
  BY <1>7, <1>8

\* What the other steps leave alone.
LEMMA OthersKeepCounted ==
  ASSUME Types, [Next]_vars, \A p \in Producers : ~Aggregate(p)
  PROVE  UNCHANGED aggregatorVars /\ Counted' = Counted
<1> DEFINE stages == {"ring", "aggregator"}
<1>1. "idle" \notin stages /\ "detector" \notin stages /\ "ring" \in stages /\ "aggregator" \in stages
  OBVIOUS
<1> HIDE DEF stages
<1>2. CASE UNCHANGED vars
  BY <1>2 DEF vars, Counted, Past
<1>3. ASSUME NEW p \in Producers, Step(p)
      PROVE  UNCHANGED aggregatorVars /\ Counted' = Counted
  <2>1. CASE Publish(p)
    BY <1>1, <2>1, PublishPast DEF Publish, Counted, stages
  <2>2. ASSUME UNCHANGED published, NEW stage, pc' = [pc EXCEPT ![p] = stage], pc[p] \in stages <=> stage \in stages
        PROVE  Counted' = Counted
    BY <2>2, SamePast DEF Counted, stages
  <2>3. CASE Store(p)
    BY <1>1, <2>2, <2>3 DEF Store
  <2>4. CASE PassOn(p)
    BY <1>1, <2>2, <2>4 DEF PassOn
  <2>5. CASE Raise(p)
    <3>1. pc' = [pc EXCEPT ![p] = "detector"] /\ pc[p] = "detector" /\ published' = published /\ UNCHANGED aggregatorVars
      BY <2>5 DEF Raise, Types
    <3> QED
      BY <1>1, <2>2, <3>1
  <2>6. CASE CallbackReturns(p)
    BY <1>1, <2>2, <2>6 DEF CallbackReturns
  <2> QED
    BY <1>3, <2>1, <2>3, <2>4, <2>5, <2>6 DEF Step
<1> QED
  BY <1>2, <1>3 DEF Next

\* No step miscounts.
LEMMA CountedInductive == Types /\ CountedInv /\ [Next]_vars => CountedInv'
<1> SUFFICES ASSUME Types, CountedInv, [Next]_vars PROVE CountedInv'
  OBVIOUS
<1>1. CASE \E p \in Producers : Aggregate(p)
  BY <1>1, AggregateCounts
<1>2. CASE \A p \in Producers : ~Aggregate(p)
  <2>1. UNCHANGED aggregatorVars /\ Counted' = Counted
    BY <1>2, OthersKeepCounted
  <2>2. \A id \in Counted, l \in Layers : IsTraceOf(id, l)' <=> IsTraceOf(id, l)
    BY PastKept DEF Counted, IsTraceOf
  <2>3. \A l \in Layers : {id \in Counted : IsTraceOf(id, l)}' = {id \in Counted : IsTraceOf(id, l)}
    <3> DEFINE C == Counted
    <3>1. C' = C
      BY <2>1
    <3> HIDE DEF C
    <3> QED
      BY <2>2, <3>1 DEF C
  <2> QED
    BY <2>1, <2>3 DEF CountedInv, NothingMiscounted, Agg!TypeOK, aggregatorVars
<1> QED
  BY <1>1, <1>2

-----------------------------------------------------------------------------
(* The totals.                                                             *)

\* The running average of whole shares is exact, and below the largest of them.
LEMMA Multiple ==
  ASSUME NEW n \in Nat \ {0}, NEW m \in Nat
  PROVE  (n * m) \div n = m
OBVIOUS

\* A multiple has a quotient.
LEMMA WholeShare ==
  ASSUME NEW s \in Nat, NEW n \in Nat \ {0}, s % n = 0
  PROVE  \E k \in Nat : s = n * k
<1>1. s = n * (s \div n) /\ s \div n \in Nat
  OBVIOUS
<1> QED
  BY <1>1

\* With a scale that the number of calls divides, the new average is exact.
LEMMA ExactAverage ==
  ASSUME NEW info \in [calls : Nat, avg : Nat, max : Nat], NEW t \in Nat, NEW x \in Nat,
         info.avg * info.calls = Scale * t, Scale % (info.calls + 1) = 0
  PROVE  Agg!Average(info, x) * (info.calls + 1) = Scale * (t + x)
<1> DEFINE n == info.calls + 1
<1>1. n \in Nat \ {0} /\ Scale \in Nat
  BY LimitsAssumption
<1>2. PICK k \in Nat : Scale = n * k
  <2> HIDE DEF n
  <2> QED
    BY <1>1, WholeShare DEF n
<1>3. info.avg * info.calls + Scale * x = n * (k * (t + x))
  <2>1. info.avg * info.calls + Scale * x = Scale * t + Scale * x
    OBVIOUS
  <2> HIDE DEF n
  <2>2. (n * k) * t + (n * k) * x = n * (k * (t + x))
    BY <1>1
  <2> QED
    BY <1>2, <2>1, <2>2
<1>4. k * (t + x) \in Nat
  OBVIOUS
<1>5. Agg!Average(info, x) = k * (t + x)
  <2> HIDE DEF n
  <2>1. (n * (k * (t + x))) \div n = k * (t + x)
    BY <1>1, <1>4, Multiple
  <2> QED
    BY <1>3, <2>1 DEF Agg!Average, n
<1>6. (k * (t + x)) * n = (n * k) * (t + x)
  <2> HIDE DEF n
  <2> QED
    BY <1>1
<1> QED
  BY <1>2, <1>5, <1>6

\* Division rounds down.
LEMMA DivBound ==
  ASSUME NEW a \in Nat, NEW n \in Nat \ {0}, NEW m \in Nat, a <= n * m
  PROVE  a \div n <= m
<1>1. a = n * (a \div n) + (a % n) /\ a % n \in Nat /\ a \div n \in Nat
  OBVIOUS
<1>2. n * (a \div n) <= n * m
  <2> DEFINE q == a \div n
  <2> HIDE DEF q
  <2>1. n * q \in Nat /\ n * m \in Nat
    BY <1>1 DEF q
  <2> QED
    BY <1>1, <2>1 DEF q
<1> DEFINE q == a \div n
<1>3. q \in Nat /\ n * q <= n * m
  BY <1>1, <1>2
<1> HIDE DEF q
<1>4. q <= m
  <2> SUFFICES ASSUME q >= m + 1 PROVE FALSE
    BY <1>3
  <2>1. n * q >= n * (m + 1)
    BY <1>3
  <2>2. n * (m + 1) = n * m + n
    OBVIOUS
  <2> QED
    BY <1>3, <2>1, <2>2
<1> QED
  BY <1>4 DEF q

\* An average does not exceed the maximum.
LEMMA AverageBelow ==
  ASSUME NEW info \in [calls : Nat, avg : Nat, max : Nat], NEW x \in Nat,
         info.avg <= Scale * info.max
  PROVE  Agg!Sampled(info, x).avg <= Scale * Agg!Sampled(info, x).max
<1> DEFINE n == info.calls + 1
           m == IF x > info.max THEN x ELSE info.max
           a == info.avg * info.calls + Scale * x
<1>1. m \in Nat /\ x <= m /\ info.max <= m /\ n \in Nat \ {0} /\ Scale \in Nat
  BY LimitsAssumption
<1> HIDE DEF m
<1>2. info.avg <= Scale * m
  <2>1. Scale * info.max <= Scale * m /\ Scale * m \in Nat /\ Scale * info.max \in Nat
    BY <1>1
  <2> QED
    BY <2>1
<1>3. info.avg * info.calls <= (Scale * m) * info.calls
  <2>1. Scale * m \in Nat
    BY <1>1
  <2> QED
    BY <1>2, <2>1
<1>4. Scale * x <= Scale * m
  BY <1>1
<1>5. a \in Nat /\ a <= n * (Scale * m)
  <2> DEFINE sm == Scale * m
             y == info.avg * info.calls
             z == Scale * x
  <2>1. sm \in Nat /\ y \in Nat /\ z \in Nat /\ y <= sm * info.calls /\ z <= sm
    BY <1>1, <1>3, <1>4
  <2> HIDE DEF sm, y, z
  <2>2. sm * info.calls + sm = (info.calls + 1) * sm /\ sm * info.calls \in Nat
    BY <2>1
  <2>3. y + z <= (info.calls + 1) * sm /\ y + z \in Nat
    BY <2>1, <2>2
  <2> QED
    BY <2>3 DEF sm, y, z
<1> HIDE DEF a, n
<1>6. a \div n <= Scale * m
  <2>1. Scale * m \in Nat
    BY <1>1
  <2> QED
    BY <1>1, <1>5, <2>1, DivBound
<1> QED
  BY <1>6 DEF Agg!Sampled, Agg!Average, a, n, m

\* A total grows by what one of its parts grows by.
LEMMA SumGrows ==
  ASSUME NEW S, IsFiniteSet(S), NEW f \in [S -> Nat], NEW g \in [S -> Nat], NEW x \in S, NEW n \in Nat,
         g[x] = f[x] + n, \A y \in S \ {x} : f[y] = g[y]
  PROVE  SumFunction(f) \in Nat /\ SumFunction(g) = SumFunction(f) + n
<1>1. SumFunction(f) = SumFunctionOnSet(f, S) /\ SumFunction(g) = SumFunctionOnSet(g, S)
  BY DEF SumFunction
<1>2. SumFunctionOnSet(f, S) \in Nat /\ SumFunctionOnSet(g, S) \in Nat
  <2>1. \A y \in S : f[y] \in Nat /\ g[y] \in Nat
    OBVIOUS
  <2> QED
    BY <2>1, SumNat
<1>3. SumFunctionOnSet(g, S) + f[x] = SumFunctionOnSet(f, S) + g[x]
  <2>1. \A y \in S : f[y] \in Nat /\ g[y] \in Nat
    OBVIOUS
  <2> QED
    BY <2>1, SumChanged
<1>4. f[x] \in Nat
  OBVIOUS
<1> QED
  BY <1>1, <1>2, <1>3, <1>4

CallsOf == [l \in Layers |-> layers[l].calls]
WeightOf == [l \in Layers |-> layers[l].avg * layers[l].calls]

TalliesAgree ==
  /\ SumFunction(CallsOf) = latency_samples
  /\ SumFunction(device_counts) = latency_samples
  /\ latency_samples <= total_events
  /\ token_count = layers[Embedding].calls
  /\ \A l \in Layers : layers[l].avg <= Scale * layers[l].max

\* No average has been rounded.
AveragesExact ==
  /\ \A l \in Layers : \E t \in Nat : layers[l].avg * layers[l].calls = Scale * t
  /\ SumFunction(WeightOf) = Scale * total_latency

\* A sum of zeros.
LEMMA ZeroSum ==
  ASSUME NEW S, IsFiniteSet(S), NEW f, DOMAIN f = S, \A x \in S : f[x] = 0
  PROVE  SumFunction(f) = 0
<1> DEFINE B == {s \in SUBSET S : SumFunctionOnSet(f, s) # 0}
<1>1. B = {}
  <2> SUFFICES ASSUME B # {} PROVE FALSE
    OBVIOUS
  <2>1. \A s \in B : IsFiniteSet(s)
    BY FS_Subset
  <2>2. PICK s \in B : \A t \in B : Cardinality(s) <= Cardinality(t)
    <3> HIDE DEF B
    <3> QED
      BY <2>1, SmallestSet
  <2>3. s # {}
    BY SumEmpty
  <2> DEFINE t == s \ {AnyOf(s)}
  <2>4. AnyOf(s) \in s /\ IsFiniteSet(t) /\ Cardinality(t) < Cardinality(s)
    BY <2>1, <2>3, OneLess
  <2>5. t \notin B
    BY <2>1, <2>2, <2>4, FS_CardinalityType
  <2>6. SumFunctionOnSet(f, t) = 0 /\ f[AnyOf(s)] = 0
    BY <2>4, <2>5
  <2>7. SumFunctionOnSet(f, s) = f[AnyOf(s)] + SumFunctionOnSet(f, t)
    BY <2>1, <2>3, SumChosen
  <2> QED
    BY <2>6, <2>7
<1>2. SumFunctionOnSet(f, S) = 0
  BY <1>1
<1> QED
  BY <1>2 DEF SumFunction

\* The totals agree when all are 0.
LEMMA TalliesAtStart ==
  ASSUME IsFiniteSet(Layers), IsFiniteSet(Devices), Init
  PROVE  TalliesAgree /\ AveragesExact
<1> USE LimitsAssumption, EmbeddingAssumption DEF Init, Agg!Init, Agg!NoCalls
<1>1. SumFunction(CallsOf) = 0
  <2>1. DOMAIN CallsOf = Layers /\ \A l \in Layers : CallsOf[l] = 0
    BY DEF CallsOf
  <2> QED
    BY <2>1, ZeroSum
<1>2. SumFunction(WeightOf) = 0
  <2>1. DOMAIN WeightOf = Layers /\ \A l \in Layers : WeightOf[l] = 0
    BY DEF WeightOf
  <2> QED
    BY <2>1, ZeroSum
<1>3. SumFunction(device_counts) = 0
  <2>1. DOMAIN device_counts = Devices /\ \A d \in Devices : device_counts[d] = 0
    OBVIOUS
  <2> QED
    BY <2>1, ZeroSum
<1>4. \A l \in Layers : layers[l].avg * layers[l].calls = Scale * 0 /\ layers[l].avg <= Scale * layers[l].max
  OBVIOUS
<1>5. 0 \in Nat /\ Scale * 0 = 0
  OBVIOUS
<1> QED
  BY <1>1, <1>2, <1>3, <1>4, <1>5 DEF TalliesAgree, AveragesExact

\* A layer has no more calls than there were events.
LEMMA AFewCalls ==
  ASSUME IsFiniteSet(Layers), Agg!TypeOK, TalliesAgree, NEW l \in Layers
  PROVE  layers[l].calls <= total_events
<1>1. SumFunction(CallsOf) = SumFunctionOnSet(CallsOf, Layers) /\ \A k \in Layers : CallsOf[k] = layers[k].calls
  BY DEF SumFunction, CallsOf
<1>2. \A k \in Layers : CallsOf[k] \in Nat
  BY <1>1 DEF Agg!TypeOK
<1>3. SumFunctionOnSet(CallsOf, Layers) = CallsOf[l] + SumFunctionOnSet(CallsOf, Layers \ {l})
  BY <1>2, SumAny
<1>4. SumFunctionOnSet(CallsOf, Layers \ {l}) \in Nat
  <2>1. IsFiniteSet(Layers \ {l}) /\ \A k \in Layers \ {l} : CallsOf[k] \in Nat
    BY <1>2, FS_Subset
  <2> QED
    BY <2>1, SumNat
<1> QED
  BY <1>1, <1>2, <1>3, <1>4 DEF TalliesAgree, Agg!TypeOK

\* Counting a trace adds the same to both sides of every total.
LEMMA TraceKeepsTotals ==
  ASSUME IsFiniteSet(Layers), IsFiniteSet(Devices), Agg!TypeOK, TalliesAgree,
         NEW l \in Layers, NEW d \in Devices, NEW x \in Nat, Agg!CountTrace(l, d, x)
  PROVE  /\ TalliesAgree'
         /\ AveragesExact /\ Scale % (layers[l].calls + 1) = 0 => AveragesExact'
<1> DEFINE info == layers[l]
           more == Agg!Sampled(info, x)
<1>1. /\ info \in [calls : Nat, avg : Nat, max : Nat] /\ more \in [calls : Nat, avg : Nat, max : Nat]
      /\ layers' = [layers EXCEPT ![l] = more] /\ layers'[l] = more
      /\ \A k \in Layers \ {l} : layers'[k] = layers[k]
      /\ more.calls = info.calls + 1
  <2>1. info \in [calls : Nat, avg : Nat, max : Nat]
    BY DEF Agg!TypeOK
  <2>2. more \in [calls : Nat, avg : Nat, max : Nat]
    BY <2>1, AverageIsNatural
  <2>3. layers' = [layers EXCEPT ![l] = more]
    BY DEF Agg!CountTrace
  <2>4. more.calls = info.calls + 1
    BY DEF Agg!Sampled
  <2> HIDE DEF more
  <2> QED
    BY <2>1, <2>2, <2>3, <2>4 DEF Agg!TypeOK
<1>2. Agg!TypeOK'
  BY CountTraceTypes
<1>3. CallsOf \in [Layers -> Nat] /\ CallsOf' \in [Layers -> Nat]
      /\ WeightOf \in [Layers -> Nat] /\ WeightOf' \in [Layers -> Nat]
  BY <1>2 DEF CallsOf, WeightOf, Agg!TypeOK
<1>4. SumFunction(CallsOf') = SumFunction(CallsOf) + 1
  <2> DEFINE f == CallsOf
             g == CallsOf'
  <2>1. /\ f \in [Layers -> Nat] /\ g \in [Layers -> Nat] /\ g[l] = f[l] + 1
        /\ \A k \in Layers \ {l} : f[k] = g[k]
    <3> HIDE DEF info, more
    <3>1. g[l] = more.calls /\ f[l] = info.calls
      BY <1>1 DEF CallsOf, info
    <3>2. \A k \in Layers \ {l} : f[k] = g[k]
      BY <1>1 DEF CallsOf
    <3> QED
      BY <1>1, <1>3, <3>1, <3>2
  <2> HIDE DEF f, g
  <2>2. SumFunction(g) = SumFunction(f) + 1
    BY <2>1, SumGrows
  <2> QED
    BY <2>2 DEF f, g
<1>5. SumFunction(device_counts') = SumFunction(device_counts) + 1
  <2> DEFINE f == device_counts
             g == device_counts'
  <2>1. /\ f \in [Devices -> Nat] /\ g \in [Devices -> Nat] /\ g[d] = f[d] + 1
        /\ \A k \in Devices \ {d} : f[k] = g[k]
    BY <1>2 DEF Agg!CountTrace, Agg!TypeOK
  <2> HIDE DEF f, g
  <2>2. SumFunction(g) = SumFunction(f) + 1
    BY <2>1, SumGrows
  <2> QED
    BY <2>2 DEF f, g
<1>6. \A k \in Layers : layers'[k].avg <= Scale * layers'[k].max
  <2> TAKE k \in Layers
  <2>1. CASE k = l
    <3>1. info.avg <= Scale * info.max
      BY DEF TalliesAgree
    <3> QED
      BY <1>1, <2>1, <3>1, AverageBelow
  <2>2. CASE k # l
    BY <1>1, <2>2 DEF TalliesAgree
  <2> QED
    BY <2>1, <2>2
<1>7. token_count' = layers'[Embedding].calls
  <2>1. CASE l = Embedding
    BY <1>1, <2>1 DEF TalliesAgree, Agg!CountTrace
  <2>2. CASE l # Embedding
    BY <1>1, <2>2, EmbeddingAssumption DEF TalliesAgree, Agg!CountTrace
  <2> QED
    BY <2>1, <2>2
<1>8. TalliesAgree'
  <2>1. latency_samples' = latency_samples + 1 /\ total_events' = total_events + 1
    BY DEF Agg!CountTrace
  <2>2. latency_samples \in Nat /\ total_events \in Nat
    BY DEF Agg!TypeOK
  <2> QED
    BY <1>4, <1>5, <1>6, <1>7, <2>1, <2>2 DEF TalliesAgree
<1>9. ASSUME AveragesExact, Scale % (info.calls + 1) = 0
      PROVE  AveragesExact'
  <2>1. PICK t \in Nat : info.avg * info.calls = Scale * t
    BY <1>9 DEF AveragesExact
  <2>2. more.avg * more.calls = Scale * (t + x) /\ t + x \in Nat
    <3>1. Agg!Average(info, x) * (info.calls + 1) = Scale * (t + x)
      BY <1>1, <1>9, <2>1, ExactAverage
    <3>2. more.avg = Agg!Average(info, x) /\ more.calls = info.calls + 1
      BY DEF Agg!Sampled
    <3> HIDE DEF more
    <3> QED
      BY <3>1, <3>2
  <2>3. \A k \in Layers : \E u \in Nat : layers'[k].avg * layers'[k].calls = Scale * u
    <3> HIDE DEF more, info
    <3> TAKE k \in Layers
    <3>1. CASE k = l
      BY <1>1, <2>2, <3>1
    <3>2. CASE k # l
      BY <1>1, <1>9, <3>2 DEF AveragesExact
    <3> QED
      BY <3>1, <3>2
  <2>4. SumFunction(WeightOf') = SumFunction(WeightOf) + Scale * x
    <3> DEFINE f == WeightOf
               g == WeightOf'
               n == Scale * x
    <3>1. n \in Nat /\ Scale * (t + x) = Scale * t + n
      BY LimitsAssumption
    <3>2. f[l] = Scale * t /\ g[l] = Scale * (t + x)
      <4> HIDE DEF more
      <4> QED
        BY <1>1, <2>1, <2>2 DEF WeightOf
    <3>3. \A k \in Layers \ {l} : f[k] = g[k]
      BY <1>1 DEF WeightOf
    <3>4. f \in [Layers -> Nat] /\ g \in [Layers -> Nat]
      BY <1>3
    <3> HIDE DEF f, g, n
    <3>5. SumFunction(g) = SumFunction(f) + n
      BY <3>1, <3>2, <3>3, <3>4, SumGrows
    <3> QED
      BY <3>5 DEF f, g, n
  <2>5. Scale * total_latency' = Scale * total_latency + Scale * x
    BY LimitsAssumption DEF Agg!CountTrace, Agg!TypeOK
  <2> QED
    BY <1>9, <2>3, <2>4, <2>5 DEF AveragesExact
<1> QED
  BY <1>8, <1>9

TotalsInv(N) == TalliesAgree /\ (total_events <= N => AveragesExact)

\* No step makes the totals disagree.
LEMMA TotalsInductive ==
  ASSUME IsFiniteSet(Layers), IsFiniteSet(Devices),
         NEW N \in Nat, \A n \in 1 .. N : Scale % n = 0
  PROVE  Types /\ CountedInv /\ TotalsInv(N) /\ [Next]_vars => TotalsInv(N)'
<1> SUFFICES ASSUME Types, CountedInv, TotalsInv(N), [Next]_vars PROVE TotalsInv(N)'
  OBVIOUS
<1>1. ASSUME NEW p \in Producers, Aggregate(p)
      PROVE  TotalsInv(N)'
  <2> DEFINE e == Latest(p)
  <2>1. /\ e.type = "layer_trace" => e.layer \in Layers /\ e.device \in Devices /\ e.latency \in Nat
        /\ Agg!TypeOK
    BY <1>1, LatestTypes, TraceFields DEF Aggregate, CountedInv
  <2>2. CASE e.type = "layer_trace"
    <3>1. Agg!CountTrace(e.layer, e.device, e.latency)
      BY <1>1, <2>2 DEF Aggregate
    <3> HIDE DEF e
    <3>2. /\ TalliesAgree'
          /\ AveragesExact /\ Scale % (layers[e.layer].calls + 1) = 0 => AveragesExact'
      BY <2>1, <2>2, <3>1, TraceKeepsTotals DEF TotalsInv
    <3>3. ASSUME total_events' <= N PROVE AveragesExact'
      <4>1. total_events' = total_events + 1 /\ total_events \in Nat /\ layers[e.layer].calls \in Nat
        BY <2>1, <2>2, <3>1 DEF Agg!CountTrace, Agg!TypeOK
      <4>2. layers[e.layer].calls <= total_events
        BY <2>1, <2>2, AFewCalls DEF TotalsInv
      <4>3. layers[e.layer].calls + 1 \in 1 .. N /\ total_events <= N
        BY <3>3, <4>1, <4>2
      <4> QED
        BY <3>2, <4>3 DEF TotalsInv
    <3> QED
      BY <3>2, <3>3 DEF TotalsInv
  <2>3. CASE e.type # "layer_trace"
    <3>1. /\ total_events' = total_events + 1 /\ total_events \in Nat
          /\ UNCHANGED <<layers, device_counts, token_count, total_latency, latency_samples>>
          /\ latency_samples \in Nat
      BY <1>1, <2>1, <2>3 DEF Aggregate, Agg!CountOther, Agg!TypeOK
    <3>2. CallsOf' = CallsOf /\ WeightOf' = WeightOf
      BY <3>1 DEF CallsOf, WeightOf
    <3>3. TalliesAgree'
      BY <3>1, <3>2 DEF TotalsInv, TalliesAgree
    <3>4. total_events' <= N => AveragesExact'
      BY <3>1, <3>2 DEF TotalsInv, AveragesExact
    <3> QED
      BY <3>3, <3>4 DEF TotalsInv
  <2> QED
    BY <2>2, <2>3
<1>2. CASE \A p \in Producers : ~Aggregate(p)
  <2>1. UNCHANGED aggregatorVars
    BY <1>2, OthersKeepCounted
  <2>2. CallsOf' = CallsOf /\ WeightOf' = WeightOf
    BY <2>1 DEF CallsOf, WeightOf, aggregatorVars
  <2> QED
    BY <2>1, <2>2 DEF TotalsInv, TalliesAgree, AveragesExact, aggregatorVars
<1> QED
  BY <1>1, <1>2


\* The ring's invariant holds in every state.
LEMMA StoredHolds == Spec => [](Types /\ StoredInv)
BY TypesAtStart, TypesInductive, StoredAtStart, StoredInductive, PTL DEF Spec

\* The aggregator's invariant holds in every state.
LEMMA CountedHolds == Spec => [](Types /\ CountedInv)
BY TypesAtStart, TypesInductive, CountedAtStart, CountedInductive, PTL DEF Spec

\* However the server's thread and the tracer's interleave in the "*" callback
\* (main.cpp:75-79), the ring of ring_buffer.cpp:8-17 holds of each stream the
\* last of its events, in order and without a gap, and is as full as it can be.
THEOREM RingLosesNothing == Spec => []RingKeepsEachStream
<1>1. StoredInv => RingKeepsEachStream
  BY DEF StoredInv
<1> QED
  BY <1>1, StoredHolds, PTL

\* Aggregator::process_event (aggregator.cpp:10-30) counts every event that is past
\* it exactly once, and every trace of a layer to that layer, for every number of
\* producers and every interleaving of their callbacks.
THEOREM AggregatorMiscountsNothing == Spec => []NothingMiscounted
<1>1. CountedInv => NothingMiscounted
  BY DEF CountedInv
<1> QED
  BY <1>1, CountedHolds, PTL

\* The statistics of aggregator.cpp:10-30 agree with one another whenever its lock
\* is free: the calls of the layers and of the devices add up to the samples, the
\* latencies of the layers to the total, and every running average is exact.  An
\* average is a rational number; it is a whole multiple of 1/Scale for the first
\* N events when Scale is a multiple of each number up to N.
THEOREM AggregatorTotals ==
  ASSUME IsFiniteSet(Layers), IsFiniteSet(Devices),
         NEW N \in Nat, \A n \in 1 .. N : Scale % n = 0
  PROVE  Spec => [](total_events <= N => TotalsAgree)
<1>1. Init => TotalsInv(N)
  BY TalliesAtStart DEF TotalsInv
<1>2. Types /\ CountedInv /\ TotalsInv(N) /\ [Next]_vars => TotalsInv(N)'
  BY TotalsInductive
<1>3. TotalsInv(N) => (total_events <= N => TotalsAgree)
  <2>1. \A f : Agg!SumFunction(f) = SumFunction(f)
    BY Zenon DEF Agg!SumFunction, Agg!SumFunctionOnSet, Agg!FoldFunctionOnSet, Agg!MapThenFoldSet,
                 SumFunction, SumFunctionOnSet, FoldFunctionOnSet, MapThenFoldSet
  <2> QED
    BY <2>1 DEF TotalsInv, TalliesAgree, AveragesExact, TotalsAgree, Agg!TotalsAgree, CallsOf, WeightOf
<1> QED
  BY <1>1, <1>2, <1>3, CountedHolds, PTL DEF Spec

-----------------------------------------------------------------------------
(* The ledger.                                                             *)

AlertSet == [id : Ids, kind : Kinds]

\* What is still to be raised of an event, by where its producer is.
LEMMA PendingOf ==
  ASSUME NEW id
  PROVE  /\ id # Id(id[1]) \/ pc[id[1]] # "detector" => Pending(id) = {}
         /\ id = Id(id[1]) /\ pc[id[1]] = "detector" =>
              Pending(id) = IF EventOf(id).type = "anomaly" THEN {"flagged"} ELSE ToSet(raising[id[1]])
BY DEF Pending

\* The same after a step.
LEMMA PendingNext ==
  ASSUME NEW id
  PROVE  /\ id # Id(id[1])' \/ pc'[id[1]] # "detector" => Pending(id)' = {}
         /\ id = Id(id[1])' /\ pc'[id[1]] = "detector" =>
              Pending(id)' = IF EventOf(id)'.type = "anomaly" THEN {"flagged"} ELSE ToSet(raising'[id[1]])
BY DEF Pending

\* An alert raised is one of an event counted that is not pending.
LEMMA RaisedMember ==
  ASSUME NEW a
  PROVE  /\ a \in Raised <=> \E id \in Counted : \E kind \in ToSet(KindsOf(id)) \ Pending(id) :
                               a = [id |-> id, kind |-> kind]
         /\ a \in Raised' <=> \E id \in Counted' : \E kind \in ToSet(KindsOf(id)') \ Pending(id)' :
                                a = [id |-> id, kind |-> kind]
BY DEF Raised

\* An alert that has been raised is of an event that has been counted.
LEMMA RaisedAre ==
  ASSUME Types, NEW a \in Raised
  PROVE  /\ a \in AlertSet /\ a = [id |-> a.id, kind |-> a.kind]
         /\ a.id \in Counted /\ a.id \in Ids /\ a.id[1] \in Producers
         /\ KindsOf(a.id) \in Seq(Kinds) /\ IsInjective(KindsOf(a.id))
         /\ a.kind \in ToSet(KindsOf(a.id)) \ Pending(a.id)
<1>1. PICK id \in Counted : \E kind \in ToSet(KindsOf(id)) \ Pending(id) : a = [id |-> id, kind |-> kind]
  BY RaisedMember
<1>2. id \in Ids /\ id[1] \in Producers /\ id[2] \in 1 .. Len(published[id[1]]) /\ id = <<id[1], id[2]>>
  BY PastKept DEF Counted
<1>3. KindsOf(id) \in Seq(Kinds) /\ IsInjective(KindsOf(id))
  <2> DEFINE p == id[1]
             i == id[2]
  <2>1. p \in Producers /\ i \in 1 .. Len(published[p]) /\ id = <<p, i>>
    BY <1>2
  <2> HIDE DEF p, i
  <2> QED
    BY <2>1, EventTypes
<1>4. ToSet(KindsOf(id)) \subseteq Kinds
  BY <1>3, InSeq
<1> QED
  BY <1>1, <1>2, <1>3, <1>4 DEF AlertSet

\* The order of two alerts of one producer is decided once.
LEMMA PrecedesOnce ==
  ASSUME Types, NEW a \in Raised, NEW b \in Raised, Precedes(a, b)
  PROVE  a.id[1] = b.id[1] /\ ~Precedes(b, a)
<1>1. a.id \in Ids /\ b.id \in Ids /\ KindsOf(a.id) \in Seq(Kinds) /\ IsInjective(KindsOf(a.id))
  BY RaisedAre
<1>2. a.id[2] \in Nat /\ b.id[2] \in Nat
  BY <1>1 DEF Ids
<1>3. CASE Before(a.id, b.id)
  BY <1>2, <1>3 DEF Before, Precedes
<1>4. CASE ~Before(a.id, b.id)
  <2> DEFINE k == KindsOf(a.id)
  <2>1. a.id = b.id
    BY <1>4 DEF Precedes
  <2>2. PICK i, j \in 1 .. Len(k) : i < j /\ k[i] = a.kind /\ k[j] = b.kind
    BY <1>4 DEF Precedes
  <2>3. ASSUME Precedes(b, a) PROVE FALSE
    <3>1. PICK m, n \in 1 .. Len(k) : m < n /\ k[m] = b.kind /\ k[n] = a.kind
      BY <1>2, <2>1, <2>3 DEF Precedes, Before
    <3>2. DOMAIN k = 1 .. Len(k) /\ IsInjective(k)
      BY <1>1
    <3> HIDE DEF k
    <3>3. m = j /\ n = i
      BY <2>2, <3>1, <3>2 DEF IsInjective
    <3> QED
      BY <2>2, <3>1, <3>3
  <2> QED
    BY <2>1, <2>3
<1> QED
  BY <1>3, <1>4

\* No step changes which of two alerts came first.
LEMMA PrecedesKept ==
  ASSUME Types, [Next]_vars, NEW a, a.id \in Counted, NEW b
  PROVE  Precedes(a, b)' <=> Precedes(a, b)
<1>1. KindsOf(a.id)' = KindsOf(a.id)
  BY PastKept DEF Counted
<1> QED
  BY <1>1 DEF Precedes, Before

\* Only the event in hand can have its pending alerts changed.
LEMMA PendingKept ==
  ASSUME Types, [Next]_vars, NEW p \in Producers, Step(p), NEW id \in Counted, id # Id(p) \/ Publish(p)
  PROVE  Pending(id)' = Pending(id)
<1>1. id[1] \in Producers /\ EventOf(id)' = EventOf(id)
  BY PastKept DEF Counted
<1>2. CASE id[1] # p
  <2> DEFINE q == id[1]
  <2>1. published'[q] = published[q] /\ pc'[q] = pc[q] /\ raising'[q] = raising[q]
    BY <1>1, <1>2, OthersUnchanged
  <2>2. Id(q)' = Id(q)
    BY <2>1 DEF Id
  <2> QED
    BY <1>1, <2>1, <2>2, PendingOf, PendingNext
<1>3. CASE id[1] = p
  <2>1. CASE Publish(p)
    <3>1. pc[p] # "detector" /\ pc'[p] # "detector"
      BY <2>1 DEF Publish, Types
    <3> QED
      BY <1>3, <3>1, PendingOf, PendingNext
  <2>2. CASE ~Publish(p)
    <3>1. published' = published
      BY <2>2 DEF Step, Store, Aggregate, PassOn, Raise, CallbackReturns
    <3>2. Id(p)' = Id(p)
      BY <3>1 DEF Id
    <3> QED
      BY <1>3, <2>2, <3>2, PendingOf, PendingNext
  <2> QED
    BY <2>1, <2>2
<1> QED
  BY <1>2, <1>3

\* A step that changes neither what is counted nor what is pending raises nothing.
LEMMA RaisedKept ==
  ASSUME Types, [Next]_vars, Counted' = Counted, \A id \in Counted : Pending(id)' = Pending(id)
  PROVE  Raised' = Raised
<1>1. \A id \in Counted : KindsOf(id)' = KindsOf(id)
  BY PastKept DEF Counted
<1> DEFINE C == Counted
<1>2. C' = C
  OBVIOUS
<1> HIDE DEF C
<1>3. \A a : a \in Raised' <=> a \in Raised
  <2> TAKE a
  <2>1. a \in Raised <=> \E id \in C : \E kind \in ToSet(KindsOf(id)) \ Pending(id) : a = [id |-> id, kind |-> kind]
    BY RaisedMember DEF C
  <2>2. a \in Raised' <=> \E id \in C' : \E kind \in ToSet(KindsOf(id)') \ Pending(id)' :
                                a = [id |-> id, kind |-> kind]
    BY RaisedMember DEF C
  <2> QED
    BY <1>1, <1>2, <2>1, <2>2 DEF C
<1> DEFINE old == Raised
           new == Raised'
<1>4. \A a : a \in new <=> a \in old
  BY <1>3
<1> HIDE DEF old, new
<1>5. new = old
  BY <1>4
<1> QED
  BY <1>5 DEF old, new

\* The next alert of a callback is newer than all that have been raised.
LEMMA RaiseOne ==
  ASSUME Types, [Next]_vars, NEW p \in Producers, Step(p), pc[p] = "detector",
         UNCHANGED published, Counted' = Counted,
         NEW j \in 1 .. Len(KindsOf(Id(p))),
         Pending(Id(p)) = {KindsOf(Id(p))[i] : i \in j .. Len(KindsOf(Id(p)))},
         Pending(Id(p))' = {KindsOf(Id(p))[i] : i \in j + 1 .. Len(KindsOf(Id(p)))}
  PROVE  LET a == [id |-> Id(p), kind |-> KindsOf(Id(p))[j]]
         IN  /\ Raised' = Raised \cup {a} /\ a \notin Raised /\ a \in AlertSet
             /\ \A x \in Raised : (x.id[1] = p => Precedes(x, a)) /\ ~Precedes(a, x)
<1> DEFINE d == Id(p)
           k == KindsOf(d)
           n == Len(k)
           a == [id |-> d, kind |-> k[j]]
<1>1. /\ d \in Ids /\ k \in Seq(Kinds) /\ IsInjective(k) /\ Id(p)' = d /\ d[1] = p
      /\ EventOf(d)' = EventOf(d) /\ KindsOf(d)' = k
  <2>1. Id(p)' = Id(p) /\ \A id : EventOf(id)' = EventOf(id)
    BY DEF Id, EventOf
  <2> QED
    BY <2>1, LatestTypes DEF KindsOf, Id
<1>2. d \in Counted
  <2>1. Reach(p, {"ring", "aggregator"}) = Len(published[p]) /\ Len(published[p]) \in Nat \ {0}
    BY LatestTypes DEF Reach
  <2>2. d = <<p, Len(published[p])>> /\ d \in Producers \X Int
    BY <2>1 DEF Id
  <2>3. d[1] = p /\ d[2] = Len(published[p])
    BY DEF Id
  <2> HIDE DEF d
  <2> QED
    BY <2>1, <2>2, <2>3, PastMember DEF Counted
<1>3. /\ n \in Nat /\ DOMAIN k = 1 .. n /\ \A i, m \in 1 .. n : k[i] = k[m] => i = m
      /\ ToSet(k) = {k[i] : i \in 1 .. n} /\ j \in 1 .. n
  BY <1>1, InSeq DEF IsInjective
<1>4. Pending(d) = {k[i] : i \in j .. n} /\ Pending(d)' = {k[i] : i \in j + 1 .. n}
  <2>1. Pending(d)' = Pending(Id(p))'
    <3>1. \A id : id = Id(p)' => (Pending(id)' = Pending(Id(p))')
      BY DEF Pending
    <3> QED
      BY <1>1, <3>1
  <2> QED
    BY <2>1
<1>5. \A id \in Counted : id # d => Pending(id)' = Pending(id) /\ KindsOf(id)' = KindsOf(id)
  <2>1. \A id \in Counted : KindsOf(id)' = KindsOf(id)
    BY PastKept DEF Counted
  <2>2. \A id \in Counted : id # d => Pending(id)' = Pending(id)
    BY PendingKept
  <2> QED
    BY <2>1, <2>2
<1> HIDE DEF d, k, n
<1>6. (ToSet(k) \ Pending(d)') = (ToSet(k) \ Pending(d)) \cup {k[j]} /\ k[j] \in Pending(d) /\ k[j] \in Kinds
  <2>1. 1 .. n = (1 .. j - 1) \cup (j .. n) /\ j .. n = {j} \cup (j + 1 .. n) /\ (j + 1 .. n) \subseteq 1 .. n
        /\ j \notin j + 1 .. n /\ (j .. n) \subseteq 1 .. n
    BY <1>3
  <2>2. k[j] \notin Pending(d)'
    BY <1>3, <1>4, <2>1
  <2>3. Pending(d) = Pending(d)' \cup {k[j]}
    BY <1>4, <2>1
  <2>4. k[j] \in ToSet(k)
    BY <1>3
  <2>5. k[j] \in Kinds
    BY <1>1, <1>3 DEF n
  <2> QED
    BY <2>2, <2>3, <2>4, <2>5
<1>7. Raised' = Raised \cup {a}
  <2> DEFINE C == Counted
             old == Raised
             new == Raised'
  <2>1. \A x : x \in new <=> x \in old \/ x = a
    <3> TAKE x
    <3>1. x \in old <=> \E id \in C : \E kind \in ToSet(KindsOf(id)) \ Pending(id) : x = [id |-> id, kind |-> kind]
      BY RaisedMember
    <3>2. x \in new <=> \E id \in C : \E kind \in ToSet(KindsOf(id)') \ Pending(id)' : x = [id |-> id, kind |-> kind]
      BY RaisedMember
    <3> DEFINE now(id) == ToSet(KindsOf(id)) \ Pending(id)
               next(id) == ToSet(KindsOf(id)') \ Pending(id)'
    <3>3. \A id \in C : id # d => next(id) = now(id)
      BY <1>5
    <3>4. next(d) = now(d) \cup {k[j]} /\ d \in C
      BY <1>1, <1>2, <1>6 DEF k
    <3> HIDE DEF now, next, C, old, new
    <3>5. x \in new <=> \E id \in C : \E kind \in next(id) : x = [id |-> id, kind |-> kind]
      BY <3>2 DEF next
    <3>6. x \in old <=> \E id \in C : \E kind \in now(id) : x = [id |-> id, kind |-> kind]
      BY <3>1 DEF now
    <3>7. ASSUME x \in new PROVE x \in old \/ x = a
      BY <3>3, <3>4, <3>5, <3>6, <3>7
    <3>8. ASSUME x \in old PROVE x \in new
      BY <3>3, <3>4, <3>5, <3>6, <3>8
    <3>9. a \in new
      <4>1. \A id \in C : \A kind \in next(id) : x = [id |-> id, kind |-> kind] => x \in new
        BY <3>5
      <4>2. x = a => x \in new
        BY <3>4, <4>1
      <4>3. a \in new <=> \E id \in C : \E kind \in next(id) : a = [id |-> id, kind |-> kind]
        BY RaisedMember DEF C, new, next
      <4> QED
        BY <3>4, <4>3
    <3> QED
      BY <3>7, <3>8, <3>9
  <2> HIDE DEF old, new, a
  <2>2. new = old \cup {a}
    BY <2>1
  <2> QED
    BY <2>2 DEF old, new
<1>8. a \notin Raised
  <2>1. a.id = d /\ a.kind = k[j]
    OBVIOUS
  <2> HIDE DEF a
  <2> QED
    BY <1>6, <2>1, RaisedAre
<1>9. a \in AlertSet
  BY <1>1, <1>6 DEF AlertSet
<1>10. ASSUME NEW x \in Raised
       PROVE  (x.id[1] = p => Precedes(x, a)) /\ ~Precedes(a, x)
  <2>1. /\ x.id \in Counted /\ x.kind \in ToSet(KindsOf(x.id)) \ Pending(x.id)
        /\ a.id = d /\ a.kind = k[j]
    BY RaisedAre
  <2> HIDE DEF a
  <2>2. CASE x.id = d
    <3>1. x.kind \in ToSet(k) /\ x.kind \notin Pending(d)
      BY <2>1, <2>2 DEF k
    <3>2. PICK i \in 1 .. n : x.kind = k[i]
      BY <1>3, <3>1
    <3>3. i < j
      <4>1. ~(i \in j .. n)
        BY <1>4, <3>1, <3>2
      <4> QED
        BY <1>3, <4>1
    <3>4. Precedes(x, a)
      <4>1. i \in 1 .. Len(KindsOf(x.id)) /\ j \in 1 .. Len(KindsOf(x.id))
            /\ KindsOf(x.id)[i] = x.kind /\ KindsOf(x.id)[j] = a.kind
        BY <1>3, <2>1, <2>2, <3>2 DEF n, k
      <4> QED
        BY <2>1, <2>2, <3>3, <4>1 DEF Precedes
    <3>5. ~Precedes(a, x)
      <4> SUFFICES ASSUME Precedes(a, x) PROVE FALSE
        OBVIOUS
      <4>1. ~Before(a.id, x.id)
        BY <1>1, <2>1, <2>2 DEF Before, Ids
      <4>2. PICK m, o \in 1 .. n : m < o /\ k[m] = a.kind /\ k[o] = x.kind
        BY <2>1, <4>1 DEF Precedes, k, n
      <4>3. m = j /\ o = i
        BY <1>3, <2>1, <3>2, <4>2
      <4> QED
        BY <1>3, <3>2, <3>3, <4>2, <4>3
    <3> QED
      BY <3>4, <3>5
  <2>3. CASE x.id # d
    <3>1. /\ x.id \in Producers \X Int /\ x.id[2] \in 1 .. Reach(x.id[1], {"ring", "aggregator"})
      BY <2>1, PastMember DEF Counted
    <3>2. x.id[1] = p => x.id[2] \in 1 .. Len(published[p]) /\ Len(published[p]) \in Nat
      <4>1. Reach(p, {"ring", "aggregator"}) = Len(published[p]) /\ Len(published[p]) \in Nat
        BY LatestTypes DEF Reach
      <4> QED
        BY <3>1, <4>1
    <3>3. x.id[1] = p => x.id[2] # Len(published[p])
      BY <2>3, <3>1 DEF d, Id
    <3>4. d[1] = p /\ d[2] = Len(published[p])
      BY DEF d, Id
    <3>5. x.id[1] = p => Before(x.id, d)
      BY <3>2, <3>3, <3>4 DEF Before
    <3>6. ~Before(d, x.id)
      BY <3>2, <3>3, <3>4 DEF Before
    <3> QED
      BY <2>1, <2>3, <3>5, <3>6 DEF Precedes
  <2> QED
    BY <2>2, <2>3
<1> QED
  BY <1>7, <1>8, <1>9, <1>10 DEF d, k, n

AlertSiblings == {pair \in AlertSet \X AlertSet : pair[1].id[1] = pair[2].id[1]}

LedgerInv ==
  /\ alerts \in Seq(AlertSet) /\ passed \in Nat
  /\ IsFiniteSet(Raised) /\ LedgerKeepsNewest /\ LedgerBound

\* An empty ledger holds all there is.
LEMMA LedgerAtStart == Init => LedgerInv
<1> SUFFICES ASSUME Init PROVE LedgerInv
  OBVIOUS
<1>1. alerts = <<>> /\ passed = 0 /\ alerts \in Seq(AlertSet) /\ Len(alerts) = 0 /\ ToSet(alerts) = {} /\ 1 .. Len(alerts) = {}
  BY DEF Init, Det!Init, ToSet
<1>2. Counted = {}
  <2>1. \A p \in Producers : Reach(p, {"ring", "aggregator"}) = 0
    BY DEF Init, Reach
  <2> QED
    BY <2>1, PastMember DEF Counted
<1>3. Raised = {}
  BY <1>2 DEF Raised
<1>4. IsFiniteSet(Raised) /\ Cardinality(Raised) = 0
  BY <1>3, FS_EmptySet
<1>5. Min({LedgerCap, 0}) = 0
  BY LimitsAssumption, Smallest
<1>6. LedgerBound
  BY <1>1, LimitsAssumption DEF LedgerBound, Det!LedgerBound
<1> QED
  BY <1>1, <1>4, <1>5, <1>6 DEF LedgerInv, LedgerKeepsNewest

\* One more alert, for which the oldest may have to go.
LEMMA LedgerGrows ==
  ASSUME Types, LedgerInv, [Next]_vars, NEW p \in Producers, Step(p), pc[p] = "detector",
         UNCHANGED published, Counted' = Counted,
         NEW j \in 1 .. Len(KindsOf(Id(p))),
         Pending(Id(p)) = {KindsOf(Id(p))[i] : i \in j .. Len(KindsOf(Id(p)))},
         Pending(Id(p))' = {KindsOf(Id(p))[i] : i \in j + 1 .. Len(KindsOf(Id(p)))},
         LET a == [id |-> Id(p), kind |-> KindsOf(Id(p))[j]]
         IN  \/ Det!PassThrough(a)
             \/ Det!Record(a)
  PROVE  LedgerInv'
<1> DEFINE a == [id |-> Id(p), kind |-> KindsOf(Id(p))[j]]
           W == Raised
           V == Raised \cup {a}
           R == {pair \in V \X V : Precedes(pair[1], pair[2])}
           S == AlertSiblings
           n == Len(alerts)
<1>1. /\ Raised' = V /\ a \notin W /\ a \in AlertSet /\ a.id[1] = p
      /\ \A x \in W : (x.id[1] = p => Precedes(x, a)) /\ ~Precedes(a, x)
  BY RaiseOne DEF Id
<1>2. a.id \in Counted
  <2>1. \E x \in Raised' : x = a
    BY <1>1
  <2>2. a.id = Id(p)
    OBVIOUS
  <2>3. Reach(p, {"ring", "aggregator"}) = Len(published[p]) /\ Len(published[p]) \in Nat \ {0}
    BY LatestTypes DEF Reach
  <2>4. Id(p) \in Producers \X Int /\ Id(p)[1] = p /\ Id(p)[2] = Len(published[p])
    BY <2>3 DEF Id
  <2> HIDE DEF a
  <2> QED
    BY <2>2, <2>3, <2>4, PastMember DEF Counted
<1>3. Det!PassThrough(a) \/ Det!Record(a)
  OBVIOUS
<1> HIDE DEF a
<1>4. /\ W \in SUBSET AlertSet /\ V \in SUBSET AlertSet
      /\ \A x \in V : x.id \in Counted
  BY <1>1, <1>2, RaisedAre
<1>5. \A x, y \in V : /\ <<x, y>> \in R <=> Precedes(x, y)
                      /\ <<x, y>> \in R <=> Precedes(x, y)'
                      /\ <<x, y>> \in S <=> x.id[1] = y.id[1]
  <2> TAKE x, y \in V
  <2>1. <<x, y>> \in R <=> Precedes(x, y)
    OBVIOUS
  <2>2. <<x, y>> \in S <=> x.id[1] = y.id[1]
    BY <1>4 DEF AlertSiblings
  <2>3. Precedes(x, y)' <=> Precedes(x, y)
    BY <1>4, PrecedesKept
  <2> QED
    BY <2>1, <2>2, <2>3
<1>6. /\ alerts \in Seq(AlertSet) /\ passed \in Nat /\ n \in Nat
      /\ n <= LedgerCap + passed /\ LedgerCap \in Nat \ {0}
      /\ Cardinality(W) \in Nat /\ Cardinality(V) = Cardinality(W) + 1 /\ IsFiniteSet(V)
      /\ n >= IF LedgerCap <= Cardinality(W) THEN LedgerCap ELSE Cardinality(W)
  <2>1. IsFiniteSet(W) /\ Cardinality(W) \in Nat
    BY FS_CardinalityType DEF LedgerInv
  <2>2. IsFiniteSet(V) /\ Cardinality(V) = Cardinality(W) + 1
    BY <1>1, <2>1, FS_AddElement
  <2>3. Min({LedgerCap, Cardinality(W)}) = IF LedgerCap <= Cardinality(W) THEN LedgerCap ELSE Cardinality(W)
    BY <2>1, LimitsAssumption, Smallest
  <2> QED
    BY <2>1, <2>2, <2>3, LimitsAssumption DEF LedgerInv, LedgerBound, Det!LedgerBound, LedgerKeepsNewest
<1>7. KeepsNewest(alerts, W, S, R)
  <2>1. /\ ToSet(alerts) \subseteq W
        /\ \A i, l \in 1 .. n : i < l /\ alerts[i].id[1] = alerts[l].id[1] => Precedes(alerts[i], alerts[l])
        /\ \A i \in 1 .. n : \A x \in W : Precedes(alerts[i], x) => x \in ToSet(alerts)
    BY DEF LedgerInv, LedgerKeepsNewest
  <2>2. \A i \in 1 .. n : alerts[i] \in V
    BY <1>6, <2>1, InSeq
  <2> HIDE DEF V, S, R, n
  <2>3. W \subseteq V
    BY DEF V
  <2> QED
    BY <1>5, <2>1, <2>2, <2>3 DEF KeepsNewest, n
<1> HIDE DEF W, V, R, S, n
<1>8. W \subseteq V /\ V = W \cup {a} /\ a \in V
  BY DEF W, V
<1>9. ASSUME NEW s \in Seq(AlertSet), KeepsNewest(s, W, S, R)
      PROVE  KeepsNewest(Append(s, a), V, S, R)
  <2>1. \A x \in W : /\ <<x, a>> \in S => <<x, a>> \in R
                     /\ <<a, x>> \notin R
    <3> TAKE x \in W
    <3>1. x \in V /\ (x.id[1] = p => Precedes(x, a)) /\ ~Precedes(a, x) /\ a.id[1] = p
      BY <1>1, <1>8
    <3> QED
      BY <1>5, <1>8, <3>1
  <2> QED
    BY <1>1, <1>4, <1>8, <1>9, <2>1, AppendKeeps
<1>10. alerts # <<>> => KeepsNewest(Tail(alerts), W, S, R)
  <2> SUFFICES ASSUME alerts # <<>> PROVE KeepsNewest(Tail(alerts), W, S, R)
    OBVIOUS
  <2>1. \A x, y \in W : <<x, y>> \in R => <<y, x>> \in S /\ <<y, x>> \notin R
    <3> TAKE x, y \in W
    <3>1. Precedes(x, y) => x.id[1] = y.id[1] /\ ~Precedes(y, x)
      BY PrecedesOnce DEF W
    <3> QED
      BY <1>5, <1>8, <3>1
  <2> QED
    BY <1>6, <1>7, <2>1, TailKeeps
<1> DEFINE new == alerts'
           more == passed'
<1>11. /\ new \in Seq(AlertSet) /\ more \in Nat /\ KeepsNewest(new, V, S, R)
       /\ Len(new) <= LedgerCap + more
       /\ Len(new) >= IF LedgerCap <= Cardinality(V) THEN LedgerCap ELSE Cardinality(V)
  <2>1. CASE Det!PassThrough(a)
    <3>1. new = Append(alerts, a) /\ more = passed + 1
      BY <2>1 DEF Det!PassThrough
    <3>2. Append(alerts, a) \in Seq(AlertSet) /\ Len(Append(alerts, a)) = n + 1
      BY <1>1, <1>6 DEF n
    <3> HIDE DEF new, more
    <3> QED
      BY <1>6, <1>7, <1>9, <3>1, <3>2
  <2>2. CASE Det!Record(a) /\ n >= LedgerCap
    <3>1. new = Append(Tail(alerts), a) /\ more = passed
      BY <2>2 DEF Det!Record, Det!Room, n
    <3>2. alerts # <<>> /\ Tail(alerts) \in Seq(AlertSet) /\ Len(Tail(alerts)) = n - 1
      BY <1>6, <2>2 DEF n
    <3>3. Append(Tail(alerts), a) \in Seq(AlertSet) /\ Len(Append(Tail(alerts), a)) = n
      <4> DEFINE t == Tail(alerts)
      <4>1. t \in Seq(AlertSet) /\ Len(t) = n - 1
        BY <3>2
      <4> HIDE DEF t
      <4>2. Append(t, a) \in Seq(AlertSet) /\ Len(Append(t, a)) = n
        BY <1>1, <1>6, <4>1
      <4> QED
        BY <4>2 DEF t
    <3>4. KeepsNewest(Append(Tail(alerts), a), V, S, R)
      BY <1>9, <1>10, <3>2
    <3> HIDE DEF new, more
    <3> QED
      BY <1>6, <2>2, <3>1, <3>3, <3>4
  <2>3. CASE Det!Record(a) /\ ~(n >= LedgerCap)
    <3>1. new = Append(alerts, a) /\ more = passed
      BY <2>3 DEF Det!Record, Det!Room, n
    <3>2. Append(alerts, a) \in Seq(AlertSet) /\ Len(Append(alerts, a)) = n + 1
      BY <1>1, <1>6 DEF n
    <3> HIDE DEF new, more
    <3> QED
      BY <1>6, <1>7, <1>9, <2>3, <3>1, <3>2
  <2> QED
    BY <1>3, <2>1, <2>2, <2>3
<1>12. /\ ToSet(new) \subseteq V /\ \A i \in 1 .. Len(new) : new[i] \in V
       /\ \A i, l \in 1 .. Len(new) : i < l /\ new[i].id[1] = new[l].id[1] => <<new[i], new[l]>> \in R
       /\ \A i \in 1 .. Len(new) : \A x \in V : <<new[i], x>> \in R => x \in ToSet(new)
  <2> DEFINE s == new
  <2>1. s \in Seq(AlertSet) /\ KeepsNewest(s, V, S, R)
    BY <1>11
  <2> HIDE DEF s
  <2>2. \A i \in 1 .. Len(s) : s[i] \in V
    BY <2>1, InSeq DEF KeepsNewest
  <2>3. /\ \A i, l \in 1 .. Len(s) : i < l /\ s[i].id[1] = s[l].id[1] => <<s[i], s[l]>> \in R
        /\ \A i \in 1 .. Len(s) : \A x \in V : <<s[i], x>> \in R => x \in ToSet(s)
    BY <1>5, <2>1, <2>2 DEF KeepsNewest
  <2> QED
    BY <2>1, <2>2, <2>3 DEF KeepsNewest, s
<1>13. Min({LedgerCap, Cardinality(V)}) = IF LedgerCap <= Cardinality(V) THEN LedgerCap ELSE Cardinality(V)
  BY <1>6, Smallest
<1>14. \A x, y \in V : <<x, y>> \in R <=> Precedes(x, y)'
  BY <1>5
<1>15. LedgerKeepsNewest'
  BY <1>1, <1>11, <1>12, <1>13, <1>14 DEF LedgerKeepsNewest
<1> QED
  BY <1>1, <1>6, <1>11, <1>15 DEF LedgerInv, LedgerBound, Det!LedgerBound

\* A step that neither raises nor records leaves the ledger's invariant.
LEMMA LedgerKept ==
  ASSUME Types, LedgerInv, [Next]_vars, Raised' = Raised, UNCHANGED ledgerVars
  PROVE  LedgerInv'
<1> DEFINE V == Raised
<1>1. alerts' = alerts /\ passed' = passed /\ V' = V
  BY DEF ledgerVars
<1>2. \A x, y \in V : Precedes(x, y)' <=> Precedes(x, y)
  BY RaisedAre, PrecedesKept
<1>3. \A i \in 1 .. Len(alerts) : alerts[i] \in V
  <2>1. ToSet(alerts) \subseteq V /\ alerts \in Seq(AlertSet)
    BY DEF LedgerInv, LedgerKeepsNewest
  <2> HIDE DEF V
  <2> QED
    BY <2>1, InSeq
<1>4. LedgerKeepsNewest'
  <2>1. LedgerKeepsNewest
    BY DEF LedgerInv
  <2>2. /\ \A i, l \in 1 .. Len(alerts) : i < l /\ alerts[i].id[1] = alerts[l].id[1] => Precedes(alerts[i], alerts[l])
        /\ \A i \in 1 .. Len(alerts) : \A x \in V : Precedes(alerts[i], x) => x \in ToSet(alerts)
        /\ ToSet(alerts) \subseteq V
        /\ Len(alerts) >= Min({LedgerCap, Cardinality(V)})
    BY <2>1 DEF LedgerKeepsNewest
  <2> HIDE DEF V
  <2>3. \A i, l \in 1 .. Len(alerts') : i < l /\ alerts'[i].id[1] = alerts'[l].id[1] => Precedes(alerts[i], alerts[l])'
    BY <1>1, <1>2, <1>3, <2>2
  <2>4. \A i \in 1 .. Len(alerts') : \A x \in V' : Precedes(alerts[i], x)' => x \in ToSet(alerts')
    BY <1>1, <1>2, <1>3, <2>2
  <2> QED
    BY <1>1, <2>2, <2>3, <2>4 DEF LedgerKeepsNewest, V
<1> QED
  BY <1>1, <1>4 DEF LedgerInv, LedgerBound, Det!LedgerBound

\* The event that has just been counted has all its alerts pending.
LEMMA AggregateRaisesNothing ==
  ASSUME Types, [Next]_vars, NEW p \in Producers, Aggregate(p)
  PROVE  Raised' = Raised
<1> DEFINE d == Id(p)
           C == Counted
<1>1. /\ published' = published /\ pc[p] = "aggregator" /\ pc' = [pc EXCEPT ![p] = "detector"]
      /\ pc'[p] = "detector"
  BY DEF Aggregate, Types
<1>2. C' = C \cup {d} /\ d \notin C
  <2>1. /\ "idle" \notin {"ring", "aggregator"} /\ pc[p] \in {"ring", "aggregator"}
        /\ "detector" \notin {"ring", "aggregator"}
    BY <1>1
  <2> QED
    BY <1>1, <2>1, StagePast DEF Counted
<1>3. \A id \in C : Pending(id)' = Pending(id) /\ KindsOf(id)' = KindsOf(id)
  <2> TAKE id \in C
  <2>1. KindsOf(id)' = KindsOf(id)
    BY PastKept DEF Counted
  <2>2. id # d
    BY <1>2
  <2>3. Pending(id)' = Pending(id)
    BY <2>2, PendingKept DEF Step
  <2> QED
    BY <2>1, <2>3
<1>4. ToSet(KindsOf(d)') \subseteq Pending(d)'
  <2>1. /\ d[1] = p /\ d' = d /\ EventOf(d)' = EventOf(d) /\ KindsOf(d)' = KindsOf(d)
    <3>1. \A id : EventOf(id)' = EventOf(id)
      BY <1>1 DEF EventOf
    <3> QED
      BY <1>1, <3>1 DEF Id, KindsOf
  <2>2. /\ KindsOf(d) = Raises(Latest(p)) /\ Latest(p) = EventOf(d)
    BY <1>1, LatestTypes
  <2> HIDE DEF d
  <2>3. Pending(d)' = IF EventOf(d).type = "anomaly" THEN {"flagged"} ELSE ToSet(raising'[p])
    <3>1. d = Id(d[1])' /\ pc'[d[1]] = "detector"
      BY <1>1, <2>1 DEF d
    <3> QED
      BY <2>1, <3>1, PendingNext
  <2>4. CASE EventOf(d).type = "anomaly"
    <3>1. KindsOf(d) = <<"flagged">>
      BY <2>2, <2>4 DEF Raises
    <3> QED
      BY <2>1, <2>3, <2>4, <3>1 DEF ToSet
  <2>5. CASE EventOf(d).type = "layer_trace"
    <3>1. raising'[p] = KindsOf(d)
      BY <2>2, <2>5 DEF Aggregate, Types, Raises
    <3> QED
      BY <2>1, <2>3, <2>5, <3>1
  <2>6. CASE EventOf(d).type \notin {"anomaly", "layer_trace"}
    <3>1. KindsOf(d) = <<>>
      BY <2>2, <2>6 DEF Raises
    <3> QED
      BY <2>1, <3>1 DEF ToSet
  <2> QED
    BY <2>4, <2>5, <2>6
<1> DEFINE old == Raised
           new == Raised'
<1>5. \A x : x \in new <=> x \in old
  <2> TAKE x
  <2>1. x \in old <=> \E id \in C : \E kind \in ToSet(KindsOf(id)) \ Pending(id) : x = [id |-> id, kind |-> kind]
    BY RaisedMember
  <2>2. x \in new <=> \E id \in C' : \E kind \in ToSet(KindsOf(id)') \ Pending(id)' : x = [id |-> id, kind |-> kind]
    BY RaisedMember
  <2> DEFINE now(id) == ToSet(KindsOf(id)) \ Pending(id)
             next(id) == ToSet(KindsOf(id)') \ Pending(id)'
             D == C'
  <2>3. \A id \in C : next(id) = now(id)
    BY <1>3
  <2>4. next(d) = {} /\ D = C \cup {d}
    BY <1>2, <1>4
  <2> HIDE DEF C, D, d, old, new
  <2>5. x \in old <=> \E id \in C : \E kind \in now(id) : x = [id |-> id, kind |-> kind]
    BY <2>1
  <2>6. x \in new <=> \E id \in D : \E kind \in next(id) : x = [id |-> id, kind |-> kind]
    BY <2>2 DEF D
  <2> HIDE DEF now, next
  <2> QED
    BY <2>3, <2>4, <2>5, <2>6
<1> HIDE DEF old, new
<1>6. new = old
  BY <1>5
<1> QED
  BY <1>6 DEF old, new

\* No step loses a newer alert or reorders two.
LEMMA LedgerInductive == Types /\ LedgerInv /\ [Next]_vars => LedgerInv'
<1> SUFFICES ASSUME Types, LedgerInv, [Next]_vars PROVE LedgerInv'
  OBVIOUS
<1>1. ASSUME NEW p \in Producers, Aggregate(p)
      PROVE  LedgerInv'
  BY <1>1, AggregateRaisesNothing, LedgerKept DEF Aggregate
<1>2. ASSUME \A p \in Producers : ~Aggregate(p)
      PROVE  Counted' = Counted
  BY <1>2, OthersKeepCounted
<1>3. ASSUME NEW p \in Producers, Publish(p) \/ Store(p) \/ CallbackReturns(p),
             Counted' = Counted
      PROVE  LedgerInv'
  <2>1. UNCHANGED ledgerVars /\ Step(p)
    BY <1>3 DEF Publish, Store, CallbackReturns, Step
  <2>2. \A id \in Counted : Pending(id)' = Pending(id)
    <3> TAKE id \in Counted
    <3>1. CASE Publish(p) \/ id # Id(p)
      BY <2>1, <3>1, PendingKept
    <3>2. CASE ~Publish(p) /\ id = Id(p)
      <4>1. id[1] = p
        BY <3>2 DEF Id
      <4>2. published' = published /\ Id(p)' = Id(p)
        BY <1>3, <3>2 DEF Store, CallbackReturns, Id
      <4>3. CASE Store(p)
        <5>1. pc[p] # "detector" /\ pc'[p] # "detector"
          BY <4>3 DEF Store, Types
        <5> QED
          BY <4>1, <5>1, PendingOf, PendingNext
      <4>4. CASE CallbackReturns(p)
        <5>1. pc[p] = "detector" /\ pc'[p] # "detector" /\ EventOf(Id(p)).type # "anomaly" /\ raising[p] = <<>>
          BY <4>4, LatestEvent DEF CallbackReturns, Types
        <5>2. Pending(id) = {}
          BY <3>2, <4>1, <5>1, PendingOf DEF ToSet
        <5> QED
          BY <4>1, <5>1, <5>2, PendingNext
      <4> QED
        BY <1>3, <3>2, <4>3, <4>4
    <3> QED
      BY <3>1, <3>2
  <2>3. Raised' = Raised
    BY <1>3, <2>2, RaisedKept
  <2> QED
    BY <2>1, <2>3, LedgerKept
<1>4. ASSUME NEW p \in Producers, PassOn(p), Counted' = Counted
      PROVE  LedgerInv'
  <2> DEFINE k == KindsOf(Id(p))
  <2>1. /\ published' = published /\ Id(p)' = Id(p) /\ pc[p] = "detector" /\ pc'[p] = "idle"
        /\ EventOf(Id(p)).type = "anomaly" /\ Id(p)[1] = p
    BY <1>4, LatestEvent DEF PassOn, Types, Id
  <2>2. k = <<"flagged">>
    BY <2>1 DEF KindsOf
  <2>3. Len(k) = 1 /\ k[1] = "flagged" /\ 1 \in 1 .. Len(k)
    BY <2>2
  <2>4. Pending(Id(p)) = {"flagged"}
    BY <2>1, PendingOf
  <2>5. Pending(Id(p))' = {}
    <3>1. \A id : id = Id(p)' => Pending(id)' = {}
      BY <2>1, PendingNext
    <3> QED
      BY <2>1, <3>1 DEF Pending, Id
  <2>6. Det!PassThrough([id |-> Id(p), kind |-> k[1]])
    BY <1>4, <2>3 DEF PassOn
  <2> HIDE DEF k
  <2>7. /\ Pending(Id(p)) = {k[i] : i \in 1 .. Len(k)} /\ Pending(Id(p))' = {k[i] : i \in 1 + 1 .. Len(k)}
    BY <2>3, <2>4, <2>5
  <2> QED
    BY <1>4, <2>1, <2>3, <2>6, <2>7, LedgerGrows DEF Step, k
<1>5. ASSUME NEW p \in Producers, Raise(p), Counted' = Counted
      PROVE  LedgerInv'
  <2> DEFINE k == KindsOf(Id(p))
             rest == raising[p]
             n == Len(k)
             m == Len(rest)
             j == n - m + 1
  <2>1. /\ published' = published /\ Id(p)' = Id(p) /\ pc[p] = "detector" /\ pc'[p] = "detector"
        /\ Id(p)[1] = p /\ rest # <<>> /\ raising'[p] = Tail(rest) /\ rest \in Seq(Kinds)
    BY <1>5 DEF Raise, Types, Id
  <2>2. Latest(p).type = "layer_trace" /\ IsRest(rest, k) /\ Latest(p) = EventOf(Id(p)) /\ k \in Seq(Kinds)
    BY <2>1, LatestTypes DEF Types
  <2>3. Pending(Id(p)) = ToSet(rest)
    BY <2>1, <2>2, PendingOf
  <2>4. Pending(Id(p))' = ToSet(Tail(rest))
    <3>1. EventOf(Id(p))' = EventOf(Id(p))
      BY <2>1 DEF EventOf
    <3> QED
      BY <2>1, <2>2, <3>1 DEF Pending
  <2>5. Det!Record([id |-> Id(p), kind |-> Head(rest)])
    BY <1>5 DEF Raise
  <2>6. /\ n \in Nat /\ m \in Nat \ {0} /\ m <= n /\ \A i \in 1 .. m : rest[i] = k[n - m + i]
        /\ Head(rest) = rest[1] /\ Len(Tail(rest)) = m - 1 /\ \A i \in 1 .. m - 1 : Tail(rest)[i] = rest[i + 1]
        /\ Tail(rest) \in Seq(Kinds)
    <3> HIDE DEF k, rest
    <3>1. n \in Nat /\ m \in Nat \ {0}
      BY <2>1, <2>2
    <3>2. m <= n /\ \A i \in 1 .. m : rest[i] = k[n - m + i]
      BY <2>2 DEF IsRest
    <3>3. /\ Head(rest) = rest[1] /\ Len(Tail(rest)) = m - 1 /\ \A i \in 1 .. m - 1 : Tail(rest)[i] = rest[i + 1]
          /\ Tail(rest) \in Seq(Kinds)
      BY <2>1
    <3> QED
      BY <3>1, <3>2, <3>3
  <2>7. ToSet(rest) = {rest[i] : i \in 1 .. m} /\ ToSet(Tail(rest)) = {Tail(rest)[i] : i \in 1 .. m - 1}
    BY <2>1, <2>6, InSeq
  <2> DEFINE tail == Tail(rest)
  <2> HIDE DEF k, rest, n, m, tail
  <2>8. j \in 1 .. n /\ Head(rest) = k[j]
    <3>1. 1 \in 1 .. m /\ n - m + 1 \in 1 .. n
      BY <2>6
    <3> QED
      BY <2>6, <3>1
  <2>9. {rest[i] : i \in 1 .. m} = {k[i] : i \in j .. n}
    <3>1. ASSUME NEW i \in 1 .. m PROVE n - m + i \in j .. n /\ rest[i] = k[n - m + i]
      BY <2>6
    <3>2. ASSUME NEW i \in j .. n PROVE i - (n - m) \in 1 .. m /\ rest[i - (n - m)] = k[i]
      <4>1. i - (n - m) \in 1 .. m /\ n - m + (i - (n - m)) = i
        BY <2>6
      <4> QED
        BY <2>6, <4>1
    <3> HIDE DEF j
    <3> QED
      BY <3>1, <3>2
  <2>10. {tail[i] : i \in 1 .. m - 1} = {k[i] : i \in j + 1 .. n}
    <3>1. ASSUME NEW i \in 1 .. m - 1 PROVE n - m + (i + 1) \in j + 1 .. n /\ tail[i] = k[n - m + (i + 1)]
      BY <2>6 DEF tail
    <3>2. ASSUME NEW i \in j + 1 .. n PROVE i - (n - m) - 1 \in 1 .. m - 1 /\ tail[i - (n - m) - 1] = k[i]
      <4>1. i - (n - m) - 1 \in 1 .. m - 1 /\ n - m + ((i - (n - m) - 1) + 1) = i /\ (i - (n - m) - 1) + 1 \in 1 .. m
        BY <2>6
      <4> QED
        BY <2>6, <4>1 DEF tail
    <3> HIDE DEF j
    <3> QED
      BY <3>1, <3>2
  <2> HIDE DEF j
  <2>11. Pending(Id(p)) = {k[i] : i \in j .. n} /\ Pending(Id(p))' = {k[i] : i \in j + 1 .. n}
    BY <2>3, <2>4, <2>7, <2>9, <2>10 DEF tail
  <2>12. Det!Record([id |-> Id(p), kind |-> k[j]])
    BY <2>5, <2>8
  <2> QED
    BY <1>5, <2>1, <2>8, <2>11, <2>12, LedgerGrows DEF Step, k, n
<1>6. CASE UNCHANGED vars
  <2>1. Raised' = Raised /\ UNCHANGED ledgerVars
    <3>1. Counted' = Counted /\ \A id \in Counted : Pending(id)' = Pending(id)
      BY <1>6 DEF vars, Counted, Past, Pending, Id, EventOf
    <3> QED
      BY <1>6, <3>1, RaisedKept DEF vars
  <2> QED
    BY <2>1, LedgerKept
<1>7. ASSUME NEW p \in Producers, Step(p)
      PROVE  LedgerInv'
  <2>1. CASE Aggregate(p)
    BY <1>1, <2>1
  <2>2. CASE ~Aggregate(p)
    <3>1. \A q \in Producers : ~Aggregate(q)
      <4> SUFFICES ASSUME NEW q \in Producers, Aggregate(q), q # p PROVE FALSE
        BY <2>2
      <4>1. pc'[q] = pc[q]
        BY <1>7, OthersUnchanged
      <4> QED
        BY <4>1 DEF Aggregate, Types
    <3>2. Counted' = Counted
      BY <1>2, <3>1
    <3> QED
      BY <1>3, <1>4, <1>5, <1>7, <2>2, <3>2 DEF Step
  <2> QED
    BY <2>1, <2>2
<1> QED
  BY <1>6, <1>7 DEF Next

\* The statistics of a decoded trace are those of its packet.
LEMMA DecodedStats ==
  ASSUME NEW j, WellTyped(j), Decodes(j), j.event_type = "layer_trace"
  PROVE  LET given == HasPayload(j) /\ Has(j.payload, "stats")
             s == j.payload.stats
         IN  /\ Decode(j).stats = IF given THEN Stats(s) ELSE NoStats
             /\ given => Stats(s) \in Statistics /\ Has(s, "variance")
<1> DEFINE p == PayloadOf(j)
<1>1. Decode(j).stats = IF Has(p, "stats") THEN Stats(p.stats) ELSE NoStats
  <2> DEFINE v == IF Has(p, "stats") THEN Stats(p.stats) ELSE NoStats
             name == Value(p, "layer_name", "")
             sort == Value(p, "layer_type", "")
             dev == Value(p, "device", "CPU")
             ms == Value(p, "latency_ms", 0)
  <2>1. Decode(j) = [type |-> "layer_trace", layer |-> name, layer_type |-> sort, device |-> dev,
                     latency |-> ms, stats |-> v]
    BY DEF Decode, PayloadOf
  <2>2. SUFFICES Decode(j).stats = v
    OBVIOUS
  <2> HIDE DEF v, name, sort, dev, ms, p
  <2> QED
    BY <2>1
<1>2. CASE ~HasPayload(j)
  BY <1>1, <1>2 DEF PayloadOf, Has
<1>3. CASE HasPayload(j)
  <2>1. PayloadDecodes("layer_trace", j.payload)
    BY <1>3 DEF Decodes
  <2>2. j.payload # Wrong /\ p = j.payload
    BY <1>3, <2>1 DEF PayloadDecodes, Optional, PayloadOf
  <2>3. ASSUME Has(p, "stats") PROVE Stats(p.stats) \in Statistics /\ Has(p.stats, "variance")
    <3>1. StatsDecode(p.stats) /\ Writable(p.stats)
      BY <1>3, <2>1, <2>2, <2>3 DEF PayloadDecodes, Decodes
    <3>2. WellTypedStats(p.stats)
      <4>1. Has(j, "payload") /\ j.payload # Null /\ j # Wrong
        BY <1>3 DEF HasPayload, Decodes, Required
      <4>2. WellTypedPayload(j.payload)
        BY <4>1 DEF WellTyped
      <4>3. \A k \in DOMAIN p : IF k = "stats" THEN WellTypedStats(p.stats)
                                ELSE p[k] \in FieldValues(k) \cup {Wrong}
        BY <2>2, <4>1, <4>2 DEF WellTypedPayload
      <4> QED
        BY <2>3, <4>3 DEF Has
    <3>3. Has(p.stats, "variance")
      BY <3>1 DEF StatsDecode, Required
    <3> QED
      BY <3>1, <3>2, <3>3, StatsDecoded
  <2> HIDE DEF p
  <2> QED
    BY <1>1, <1>3, <2>2, <2>3
<1> QED
  BY <1>2, <1>3

\* An alert in the ledger is about something its packet reported.
LEMMA RaisedIsReported ==
  ASSUME Types, LedgerInv
  PROVE  AlertsAreReported
<1> SUFFICES ASSUME NEW i \in 1 .. Len(alerts), alerts[i].id[1] \in Remote
             PROVE  LET packet == published[alerts[i].id[1]][alerts[i].id[2]]
                        kind == alerts[i].kind
                        Silent == ~HasPayload(packet) \/ ~Has(packet.payload, "stats")
                        Says(keys, value) ==
                          ~Silent /\ \E k \in keys \cap DOMAIN packet.payload.stats : packet.payload.stats[k] = value
                    IN  /\ kind = "exploding" => Says({"min", "min_val", "max", "max_val"}, "huge")
                        /\ kind = "sparse" => Says({"sparsity"}, "high")
                        /\ kind = "dead" => Silent \/ Says({"variance"}, "dead")
  BY DEF AlertsAreReported
<1> DEFINE id == alerts[i].id
           p == id[1]
           j == published[p][id[2]]
           kind == alerts[i].kind
           given == HasPayload(j) /\ Has(j.payload, "stats")
           s == j.payload.stats
           e == EventOf(id)
<1>1. alerts[i] \in Raised
  <2>1. ToSet(alerts) \subseteq Raised /\ alerts \in Seq(AlertSet)
    BY DEF LedgerInv, LedgerKeepsNewest
  <2> QED
    BY <2>1, InSeq
<1>2. id \in Counted /\ kind \in ToSet(KindsOf(id))
  BY <1>1, RaisedAre
<1>3. p \in Producers /\ id[2] \in 1 .. Len(published[p]) /\ id = <<p, id[2]>>
  BY <1>2, PastKept DEF Counted
<1>4. j \in Arriving(p) /\ e = Event(p, j)
  BY <1>3 DEF Types, EventOf
<1>5. e \in TelemetryEvents /\ KindsOf(id) = Raises(e)
  <2> DEFINE n == id[2]
  <2>1. id = <<p, n>> /\ n \in 1 .. Len(published[p])
    BY <1>3
  <2>2. EventOf(<<p, n>>) \in TelemetryEvents /\ KindsOf(<<p, n>>) = Raises(EventOf(<<p, n>>))
    <3> HIDE DEF n, p
    <3> QED
      BY <1>3, <2>1, EventTypes
  <2> HIDE DEF n, p, id
  <2> QED
    BY <2>1, <2>2
<1>6. p \in Remote /\ WellTyped(j) /\ Decodes(j) /\ e = Decode(j)
  BY <1>3, <1>4, PacketAssumption DEF Arriving, Event
<1> HIDE DEF id, p, j, kind, e
<1>7. kind \in {"exploding", "dead", "sparse"} => e.type = "layer_trace"
  <2>1. CASE e.type = "anomaly"
    BY <1>2, <1>5, <2>1 DEF Raises, ToSet
  <2>2. CASE e.type = "layer_trace"
    BY <1>2, <1>5, <2>2, TraceFields, VerdictsRaised DEF Raises
  <2>3. CASE e.type \notin {"anomaly", "layer_trace"}
    BY <1>2, <1>5, <2>3 DEF Raises, ToSet
  <2> QED
    BY <2>1, <2>2, <2>3
<1>8. ASSUME e.type = "layer_trace"
      PROVE  /\ kind = "exploding" => Det!Exceeds(e.stats)
             /\ kind = "dead" => e.stats.variance = "dead"
             /\ kind = "sparse" => e.stats.sparsity = "high"
             /\ e.stats = IF given THEN Stats(s) ELSE NoStats
             /\ given => Stats(s) \in Statistics /\ Has(s, "variance")
  <2>1. KindsOf(id) = Det!Verdicts(e.layer_type, e.stats) /\ e.stats \in Statistics
    BY <1>5, <1>8, TraceFields DEF Raises
  <2>2. j.event_type = "layer_trace"
    <3> USE DEF KnownTypes
    <3>1. Decode(j).type = j.event_type
      BY DEF Decode
    <3> QED
      BY <1>6, <1>8, <3>1
  <2>3. /\ e.stats = IF given THEN Stats(s) ELSE NoStats
        /\ given => Stats(s) \in Statistics /\ Has(s, "variance")
    BY <1>6, <2>2, DecodedStats
  <2> HIDE DEF given, s
  <2> QED
    BY <1>2, <2>1, <2>3, VerdictsRaised
<1> HIDE DEF given, s
<1>9. kind = "exploding" => given /\ \E k \in {"min", "min_val", "max", "max_val"} \cap DOMAIN s : s[k] = "huge"
  <2> SUFFICES ASSUME kind = "exploding"
               PROVE  given /\ \E k \in {"min", "min_val", "max", "max_val"} \cap DOMAIN s : s[k] = "huge"
    OBVIOUS
  <2>1. Det!Exceeds(e.stats) /\ e.stats = (IF given THEN Stats(s) ELSE NoStats) /\ (given => Stats(s) \in Statistics)
    BY <1>7, <1>8
  <2>2. given
    BY <2>1 DEF NoStats, Det!Exceeds
  <2>3. Stats(s).max = "huge" \/ Stats(s).min = "huge"
    <3>1. Stats(s).min \in {"normal", "huge"}
      BY <2>1, <2>2 DEF Statistics
    <3> QED
      BY <2>1, <2>2, <3>1 DEF Det!Exceeds
  <2>4. Stats(s).max = "huge" => \E k \in {"max", "max_val"} \cap DOMAIN s : s[k] = "huge"
    BY DEF Stats, Value, Has, NoStats
  <2>5. Stats(s).min = "huge" => \E k \in {"min", "min_val"} \cap DOMAIN s : s[k] = "huge"
    BY DEF Stats, Value, Has, NoStats
  <2> QED
    BY <2>2, <2>3, <2>4, <2>5
<1>10. kind = "sparse" => given /\ \E k \in {"sparsity"} \cap DOMAIN s : s[k] = "high"
  <2> SUFFICES ASSUME kind = "sparse"
               PROVE  given /\ \E k \in {"sparsity"} \cap DOMAIN s : s[k] = "high"
    OBVIOUS
  <2>1. e.stats.sparsity = "high" /\ e.stats = (IF given THEN Stats(s) ELSE NoStats)
    BY <1>7, <1>8
  <2>2. given
    BY <2>1 DEF NoStats
  <2> QED
    BY <2>1, <2>2 DEF Stats, Value, Has, NoStats
<1>11. kind = "dead" => ~given \/ \E k \in {"variance"} \cap DOMAIN s : s[k] = "dead"
  <2> SUFFICES ASSUME kind = "dead", given
               PROVE  \E k \in {"variance"} \cap DOMAIN s : s[k] = "dead"
    OBVIOUS
  <2>1. e.stats.variance = "dead" /\ e.stats = Stats(s) /\ Has(s, "variance")
    BY <1>7, <1>8
  <2> QED
    BY <2>1 DEF Stats, Has
<1> QED
  BY <1>7, <1>9, <1>10, <1>11 DEF id, p, j, kind, given, s

-----------------------------------------------------------------------------
(* The theorems.                                                           *)

\* The ledger's invariant holds in every state.
LEMMA LedgerHolds == Spec => [](Types /\ LedgerInv)
BY TypesAtStart, TypesInductive, LedgerAtStart, LedgerInductive, PTL DEF Spec

\* Type correctness of all three consumers and of the callbacks in them.
THEOREM PipelineTypeCorrect == Spec => []TypeOK
<1>1. Types /\ StoredInv /\ CountedInv /\ LedgerInv => TypeOK
  <2> SUFFICES ASSUME Types, StoredInv, CountedInv, LedgerInv PROVE TypeOK
    OBVIOUS
  <2>1. Ring!TypeOK /\ Agg!TypeOK
    BY DEF StoredInv, RingIsFilled, CountedInv
  <2>2. Det!TypeOK
    BY DEF LedgerInv, Det!TypeOK, AlertSet
  <2>3. \A p \in Producers : published[p] \in Seq(Packets(p))
    <3> TAKE p \in Producers
    <3>1. published[p] \in Seq(Arriving(p)) /\ Arriving(p) \subseteq Packets(p)
      BY DEF Types, Arriving
    <3> QED
      BY <3>1
  <2> QED
    BY <2>1, <2>2, <2>3 DEF TypeOK, Types
<1> QED
  BY <1>1, StoredHolds, CountedHolds, LedgerHolds, PTL

\* The ledger of anomaly_detector.cpp:30-81 drops only its oldest alerts: of each
\* producer it holds the last ones raised, in the order of its events and, within
\* an event, of the detector's rules, although record() locks once per alert and
\* those of several threads interleave.
THEOREM LedgerKeepsTheNewest == Spec => []LedgerKeepsNewest
<1>1. LedgerInv => LedgerKeepsNewest
  BY DEF LedgerInv
<1> QED
  BY <1>1, LedgerHolds, PTL

\* The ledger never holds more than its cap (anomaly_detector.cpp:78) and one
\* alert for each anomaly that a sender flagged (anomaly_detector.cpp:31-38).
THEOREM LedgerStaysBounded == Spec => []LedgerBound
<1>1. LedgerInv => LedgerBound
  BY DEF LedgerInv
<1> QED
  BY <1>1, LedgerHolds, PTL

\* No alert on a client's event is made up: whatever JSON arrives, it stands for a
\* value the client sent under one of the keys types.hpp:55-65 reads, or for the
\* zeros of statistics it did not send.
THEOREM AlertsReported == Spec => []AlertsAreReported
BY RaisedIsReported, LedgerHolds, PTL

-----------------------------------------------------------------------------
(* The load of the host: each counter is where it was at the last reading  *)
(* plus the ticks since, less what it has lost.                            *)

LastReading ==
  have_prev =>
    /\ prev_busy < CounterSize /\ prev_busy <= prev_total
    /\ host["busy"] = prev_busy + since["busy"] - lost["busy"]
    /\ host["waiting"] = prev_total - prev_busy + since["waiting"] - lost["waiting"]

MonitorInv == MonitorTypeOK /\ LastReading /\ CpuIsBusyShare

\* A number below n is its own remainder.
LEMMA SmallMod ==
  ASSUME NEW a \in Nat, NEW n \in Nat, a < n
  PROVE  a % n = a
OBVIOUS

\* At a reading no tick has passed since it.
LEMMA NoSpanIsIdle == Sum(NoSpan.ticks) = 0 /\ Sum(NoSpan.lost) = 0
BY DEF NoSpan, NoTicks, Sum, Counters

\* The monitor's invariant holds before the first reading.
LEMMA MonitorStart == MonitorInit => MonitorInv
<1> SUFFICES ASSUME MonitorInit
             PROVE  MonitorInv
  OBVIOUS
<1>1. MonitorTypeOK
  <2>1. since \in [Counters -> Nat] /\ lost \in [Counters -> Nat]
    BY DEF MonitorInit, NoTicks
  <2>2. since["busy"] = 0 /\ since["waiting"] = 0
    BY DEF MonitorInit, NoTicks, Counters
  <2>3. since["busy"] + since["waiting"] < CounterSize
    BY <2>2, SizeAssumption
  <2>4. /\ host \in [Counters -> 0 .. CounterSize - 1]
        /\ prev_busy \in Nat /\ prev_total \in Nat /\ have_prev \in BOOLEAN
    BY DEF MonitorInit
  <2> QED
    BY <2>1, <2>3, <2>4 DEF MonitorTypeOK
<1>2. LastReading
  BY DEF MonitorInit, LastReading
<1>3. CpuIsBusyShare
  BY NoSpanIsIdle, SizeAssumption DEF MonitorInit, CpuIsBusyShare, Share
<1> QED
  BY <1>1, <1>2, <1>3 DEF MonitorInv

\* A tick of the host, wrapping or not.
LEMMA TickKeepsInv ==
  ASSUME MonitorInv, NEW c \in Counters, Tick(c)
  PROVE  MonitorInv'
<1> USE DEF MonitorInv
<1>1. CounterSize \in Nat \ {0}
  BY SizeAssumption
<1>2. c = "busy" \/ c = "waiting"
  BY DEF Counters
<1>3. MonitorTypeOK'
  BY <1>1, <1>2 DEF MonitorTypeOK, Tick, prev, Counters
<1>4. LastReading'
  BY <1>1, <1>2 DEF MonitorTypeOK, LastReading, Tick, prev, Counters
<1>5. CpuIsBusyShare'
  BY DEF CpuIsBusyShare, Tick
<1> QED
  BY <1>3, <1>4, <1>5

\* A counter that goes down, as iowait may.
LEMMA StepBackKeepsInv ==
  ASSUME MonitorInv, StepBack
  PROVE  MonitorInv'
<1> USE DEF MonitorInv
<1>1. CounterSize \in Nat \ {0}
  BY SizeAssumption
<1>2. MonitorTypeOK'
  BY <1>1 DEF MonitorTypeOK, StepBack, prev, Counters
<1>3. LastReading'
  BY <1>1 DEF MonitorTypeOK, LastReading, StepBack, prev, Counters
<1>4. CpuIsBusyShare'
  BY DEF CpuIsBusyShare, StepBack
<1> QED
  BY <1>2, <1>3, <1>4

\* What sample_cpu() computes from the differences of its counters.
LEMMA SampleKeepsInv ==
  ASSUME MonitorInv, Sample
  PROVE  MonitorInv'
<1> USE DEF MonitorInv
<1> DEFINE busy == host["busy"]
           total == busy + host["waiting"]
<1>1. CounterSize \in Nat \ {0} /\ WordSize \in Nat /\ 2 * CounterSize <= WordSize
  BY SizeAssumption
<1>2. /\ busy \in 0 .. CounterSize - 1 /\ total \in Nat /\ busy <= total
      /\ total < 2 * CounterSize
  BY <1>1 DEF MonitorTypeOK, Counters
<1>3. total % WordSize = total
  BY <1>1, <1>2, SmallMod
<1>4. /\ cpu' = Load(busy, total)
      /\ prev_busy' = busy /\ prev_total' = total /\ have_prev' = TRUE
      /\ spent' = IF have_prev THEN [ticks |-> since, lost |-> lost] ELSE NoSpan
      /\ since' = NoTicks /\ lost' = NoTicks /\ host' = host
  BY <1>3 DEF Sample, Remember
<1>5. MonitorTypeOK'
  BY <1>1, <1>2, <1>4 DEF MonitorTypeOK, NoTicks, Counters
<1>6. LastReading'
  BY <1>1, <1>2, <1>4 DEF MonitorTypeOK, LastReading, NoTicks, Counters
<1>7. CpuIsBusyShare'
  <2>1. CASE ~have_prev
    BY <1>1, <1>4, <2>1, NoSpanIsIdle DEF CpuIsBusyShare, Load, Share
  <2>2. CASE have_prev
    <3> DEFINE n == Sum(since)
               gone == Sum(lost)
    <3>1. /\ since["busy"] \in Nat /\ since["waiting"] \in Nat
          /\ lost["busy"] \in Nat /\ lost["waiting"] \in Nat
          /\ n < CounterSize /\ prev_busy \in Nat /\ prev_total \in Nat
      BY DEF MonitorTypeOK, Counters, Sum
    <3>2. /\ total - prev_total = n - gone
          /\ busy - prev_busy = since["busy"] - lost["busy"]
      BY <1>2, <2>2, <3>1 DEF LastReading, MonitorTypeOK, Counters, Sum
    <3>3. CASE gone = 0
      <4>1. /\ total - prev_total = n /\ busy - prev_busy = since["busy"]
            /\ since["busy"] <= n /\ n \in Nat
        BY <3>1, <3>2, <3>3 DEF Sum
      <4>2. Minus(busy, prev_busy) = since["busy"]
        <5>1. since["busy"] < WordSize
          BY <1>1, <3>1, <4>1
        <5> QED
          BY <1>1, <3>1, <4>1, <5>1, SmallMod DEF Minus
      <4>3. Minus(total, prev_total) = n
        BY <1>1, <3>1, <4>1, SmallMod DEF Minus, Sum
      <4>4. Load(busy, total) = Share(since)
        <5>1. total > prev_total <=> n # 0
          <6> HIDE DEF n, total
          <6> QED
            BY <1>2, <3>1, <4>1
        <5> QED
          BY <2>2, <4>2, <4>3, <5>1 DEF Load, Share
      <4>5. spent' = [ticks |-> since, lost |-> lost] /\ cpu' = Share(since)
        BY <1>4, <2>2, <4>4
      <4> QED
        BY <1>1, <3>3, <4>5 DEF CpuIsBusyShare
    <3>4. CASE gone >= CounterSize
      <4>1. ~(total > prev_total)
        BY <1>1, <1>2, <3>1, <3>2, <3>4 DEF Sum
      <4>2. spent' = [ticks |-> since, lost |-> lost] /\ cpu' = 0
        BY <1>4, <2>2, <4>1 DEF Load
      <4> QED
        BY <1>1, <3>4, <4>2 DEF CpuIsBusyShare
    <3>5. CASE gone # 0 /\ ~(gone >= CounterSize)
      BY <1>4, <2>2, <3>5 DEF CpuIsBusyShare
    <3> QED
      BY <3>3, <3>4, <3>5
  <2> QED
    BY <2>1, <2>2 DEF MonitorTypeOK
<1> QED
  BY <1>5, <1>6, <1>7

\* A reading that fails leaves the previous one (device_monitor.cpp:104-106).
LEMMA SampleFailsKeepsInv ==
  ASSUME MonitorInv, SampleFails
  PROVE  MonitorInv'
<1>1. MonitorTypeOK' /\ LastReading'
  BY DEF MonitorInv, MonitorTypeOK, LastReading, SampleFails, prev
<1>2. CpuIsBusyShare'
  BY NoSpanIsIdle, SizeAssumption DEF SampleFails, CpuIsBusyShare, Share
<1> QED
  BY <1>1, <1>2 DEF MonitorInv

\* No step of the host or the monitor leaves the invariant.
LEMMA MonitorInductive == MonitorInv /\ [MonitorNext]_monitorVars => MonitorInv'
<1> SUFFICES ASSUME MonitorInv, [MonitorNext]_monitorVars
             PROVE  MonitorInv'
  OBVIOUS
<1>1. CASE UNCHANGED monitorVars
  BY <1>1 DEF monitorVars, prev, MonitorInv, MonitorTypeOK, LastReading, CpuIsBusyShare
<1> QED
  BY <1>1, TickKeepsInv, StepBackKeepsInv, SampleKeepsInv, SampleFailsKeepsInv DEF MonitorNext

\* A frame's steps are steps of the monitor, or leave it alone.
LEMMA FrameStepsMonitor == [FrameNext]_allVars => [MonitorNext]_monitorVars
BY DEF FrameNext, allVars, Produce, Drop, Begin, Read, End, TimePasses, MonitorNext

\* For counters of any size the load that the dashboard shows is the busy share of
\* the time since its last frame, however events and frames interleave
\* (device_monitor.cpp:50-75 and 100-118).
THEOREM LoadIsBusyShare == FrameSpec => []CpuIsBusyShare
<1>1. FrameInit => MonitorInv
  BY MonitorStart DEF FrameInit
<1>2. MonitorInv /\ [FrameNext]_allVars => MonitorInv'
  BY MonitorInductive, FrameStepsMonitor
<1>3. MonitorInv => CpuIsBusyShare
  BY DEF MonitorInv
<1> QED
  BY <1>1, <1>2, <1>3, PTL DEF FrameSpec

-----------------------------------------------------------------------------
(* The consumers under the frames that read them.                          *)

\* A frame's steps are steps of a producer, or leave the consumers alone.
LEMMA FrameStepsPipeline == [FrameNext]_allVars => [Next]_vars
BY DEF FrameNext, allVars, Produce, Drop, Begin, Read, End, TimePasses, pipelineVars, Next

\* Frames and readings are no steps of the consumers.
LEMMA FrameSpecImplementsSpec == FrameSpec => Spec
<1>1. FrameInit => Init
  BY DEF FrameInit
<1> QED
  BY <1>1, FrameStepsPipeline, PTL DEF FrameSpec, Spec

\* Frames, headless lines and readings of the host only read: whatever is proved
\* of the consumers holds while dashboard.cpp:106-191 or main.cpp:83-96 look.
THEOREM ConsumersKeepTheirPromises ==
  FrameSpec => [](/\ TypeOK /\ RingKeepsEachStream /\ NothingMiscounted
                  /\ LedgerKeepsNewest /\ LedgerBound /\ AlertsAreReported)
BY FrameSpecImplementsSpec, PipelineTypeCorrect, RingLosesNothing, AggregatorMiscountsNothing,
   LedgerKeepsTheNewest, LedgerStaysBounded, AlertsReported, PTL

-----------------------------------------------------------------------------
(* What a frame shows.  Each piece other than the slowest layers is at most *)
(* the number of events counted when it is read.                            *)

IsSequence(s) == \E S : s \in Seq(S)

\* Appending to a sequence of whatever kind.
LEMMA Appended ==
  ASSUME NEW s, IsSequence(s), NEW a
  PROVE  IsSequence(Append(s, a)) /\ Len(Append(s, a)) = Len(s) + 1 /\ Len(s) \in Nat
<1>1. PICK S : s \in Seq(S)
  BY DEF IsSequence
<1>2. s \in Seq(S \cup {a}) /\ a \in S \cup {a}
  BY <1>1
<1>3. Append(s, a) \in Seq(S \cup {a}) /\ Len(Append(s, a)) = Len(s) + 1 /\ Len(s) \in Nat
  BY <1>2
<1> QED
  BY <1>3 DEF IsSequence

Dash == {"overview", "call_tree"}

\* What each tab reads, in its order.
LEMMA PiecesOf ==
  /\ Pieces("overview") = <<"device", "stream", "ledger">> \o Performance
  /\ Pieces("call_tree") = <<"device", "profile">> \o Performance
BY DEF Pieces

\* Only the slowest layers are read after the number of events.
LEMMA PieceOrder ==
  ASSUME NEW v \in Dash
  PROVE  /\ Len(Pieces(v)) \in Nat
         /\ \A i \in 1 .. Len(Pieces(v)) : Pieces(v)[i] \in
              {"device", "stream", "ledger", "profile", "speed", "average", "events", "slowest"}
         /\ \A i, j \in 1 .. Len(Pieces(v)) :
              Pieces(v)[j] = "events" /\ j < i => Pieces(v)[i] = "slowest"
<1> DEFINE All == {"device", "stream", "ledger", "profile", "speed", "average", "events", "slowest"}
<1>1. CASE v = "overview"
  <2> DEFINE s == <<"device", "stream", "ledger">>
             t == <<"speed", "average", "events", "slowest">>
  <2>1. s \in Seq(All) /\ Len(s) = 3 /\ t \in Seq(All) /\ Len(t) = 4
    OBVIOUS
  <2>2. Len(s \o t) = 7 /\ \A i \in 1 .. 7 : (s \o t)[i] = IF i <= 3 THEN s[i] ELSE t[i - 3]
    <3>1. /\ Len(s \o t) = Len(s) + Len(t)
          /\ \A i \in 1 .. Len(s) + Len(t) : (s \o t)[i] = IF i <= Len(s) THEN s[i] ELSE t[i - Len(s)]
      <4> HIDE DEF s, t, All
      <4> QED
        BY <2>1, ConcatProperties
    <3> HIDE DEF s, t, All
    <3> QED
      BY <2>1, <3>1
  <2>3. Pieces(v) = s \o t
    BY <1>1, PiecesOf DEF Performance
  <2> HIDE DEF s, t
  <2> QED
    BY <2>1, <2>2, <2>3 DEF s, t
<1>2. CASE v = "call_tree"
  <2> DEFINE s == <<"device", "profile">>
             t == <<"speed", "average", "events", "slowest">>
  <2>1. s \in Seq(All) /\ Len(s) = 2 /\ t \in Seq(All) /\ Len(t) = 4
    OBVIOUS
  <2>2. Len(s \o t) = 6 /\ \A i \in 1 .. 6 : (s \o t)[i] = IF i <= 2 THEN s[i] ELSE t[i - 2]
    <3>1. /\ Len(s \o t) = Len(s) + Len(t)
          /\ \A i \in 1 .. Len(s) + Len(t) : (s \o t)[i] = IF i <= Len(s) THEN s[i] ELSE t[i - Len(s)]
      <4> HIDE DEF s, t, All
      <4> QED
        BY <2>1, ConcatProperties
    <3> HIDE DEF s, t, All
    <3> QED
      BY <2>1, <3>1
  <2>3. Pieces(v) = s \o t
    BY <1>2, PiecesOf DEF Performance
  <2> QED
    BY <2>1, <2>2, <2>3
<1> QED
  BY <1>1, <1>2 DEF Dash

\* A finite set can be listed by descending weight, without a repetition.
LEMMA Listed ==
  ASSUME NEW S, IsFiniteSet(S), NEW w, \A x \in S : w[x] \in Nat
  PROVE  \E s \in [1 .. Cardinality(S) -> S] : \A i, j \in 1 .. Cardinality(S) :
           i < j => s[i] # s[j] /\ w[s[i]] >= w[s[j]]
<1> DEFINE Good(T, s) == \A i, j \in 1 .. Cardinality(T) : i < j => s[i] # s[j] /\ w[s[i]] >= w[s[j]]
           Bad == {T \in SUBSET S : ~ \E s \in [1 .. Cardinality(T) -> T] : Good(T, s)}
<1>1. Bad = {}
  <2> SUFFICES ASSUME Bad # {} PROVE FALSE
    OBVIOUS
  <2>1. \A T \in Bad : IsFiniteSet(T)
    BY FS_Subset
  <2>2. PICK T \in Bad : \A U \in Bad : Cardinality(T) <= Cardinality(U)
    <3> HIDE DEF Bad
    <3> QED
      BY <2>1, SmallestSet
  <2>3. T # {}
    <3>1. SUFFICES ASSUME T = {} PROVE FALSE
      OBVIOUS
    <3>2. Cardinality(T) = 0
      BY <3>1, FS_EmptySet
    <3>3. <<>> \in [1 .. Cardinality(T) -> T] /\ Good(T, <<>>)
      BY <3>2
    <3> QED
      BY <3>3
  <2> DEFINE W == {w[x] : x \in T}
  <2>4. PICK m \in W : \A n \in W : m <= n
    <3>1. W \in SUBSET Nat /\ W # {}
      BY <2>3
    <3> HIDE DEF W
    <3> QED
      BY <3>1, LeastMember
  <2>5. PICK x \in T : \A y \in T : w[x] <= w[y]
    BY <2>4
  <2> DEFINE U == T \ {x}
             n == Cardinality(U)
  <2>6. IsFiniteSet(U) /\ n \in Nat /\ Cardinality(T) = n + 1
    <3>1. IsFiniteSet(T)
      BY <2>1
    <3>2. IsFiniteSet(U) /\ Cardinality(U) = Cardinality(T) - 1
      BY <3>1, FS_RemoveElement
    <3>3. Cardinality(T) \in Nat /\ Cardinality(U) \in Nat
      BY <3>1, <3>2, FS_CardinalityType
    <3> HIDE DEF U
    <3> QED
      BY <3>2, <3>3
  <2>7. U \notin Bad
    <3> HIDE DEF Bad, U
    <3> QED
      BY <2>2, <2>6
  <2>8. PICK s \in [1 .. n -> U] : Good(U, s)
    BY <2>7
  <2> DEFINE t == [i \in 1 .. n + 1 |-> IF i = n + 1 THEN x ELSE s[i]]
  <2>9. t \in [1 .. n + 1 -> T]
    <3>1. \A i \in 1 .. n + 1 : i # n + 1 => i \in 1 .. n
      <4> HIDE DEF n
      <4> QED
        BY <2>6
    <3>2. \A i \in 1 .. n : s[i] \in T
      OBVIOUS
    <3> HIDE DEF n, U
    <3> QED
      BY <3>1, <3>2
  <2>10. ASSUME NEW i \in 1 .. n + 1, NEW j \in 1 .. n + 1, i < j
         PROVE  t[i] # t[j] /\ w[t[i]] >= w[t[j]]
    <3>1. i \in 1 .. n /\ t[i] = s[i] /\ s[i] \in T /\ s[i] # x
      <4> HIDE DEF n
      <4> QED
        BY <2>6, <2>10
    <3>2. CASE j = n + 1
      <4>1. t[j] = x /\ w[x] \in Nat /\ w[s[i]] \in Nat /\ w[x] <= w[s[i]]
        BY <2>5, <3>1, <3>2
      <4> HIDE DEF t
      <4> QED
        BY <3>1, <4>1
    <3>3. CASE j # n + 1
      <4>1. j \in 1 .. n /\ t[j] = s[j]
        <5> HIDE DEF n
        <5> QED
          BY <2>6, <3>3
      <4> HIDE DEF t
      <4> QED
        BY <2>8, <2>10, <3>1, <4>1
    <3> QED
      BY <3>2, <3>3
  <2>11. t \in [1 .. Cardinality(T) -> T] /\ Good(T, t)
    <3> HIDE DEF t, n
    <3> QED
      BY <2>6, <2>9, <2>10
  <2> HIDE DEF t, n, U, W
  <2> QED
    BY <2>11
<1> QED
  BY <1>1

\* The slowest layers first is a list of all of them.
LEMMA SlowestAreListed ==
  ASSUME Agg!TypeOK, IsFiniteSet(Layers), NEW some \in SUBSET Layers
  PROVE  Agg!SlowestFirst(some) \in [1 .. Cardinality(some) -> some]
<1> DEFINE n == Cardinality(some)
           Sorted(s) == \A i, j \in 1 .. n :
             i < j => s[i] # s[j] /\ layers[s[i]].avg >= layers[s[j]].avg
           w == [l \in Layers |-> layers[l].avg]
<1>1. IsFiniteSet(some) /\ \A l \in some : w[l] \in Nat
  BY FS_Subset DEF Agg!TypeOK
<1>2. PICK s \in [1 .. n -> some] : \A i, j \in 1 .. n : i < j => s[i] # s[j] /\ w[s[i]] >= w[s[j]]
  <2> HIDE DEF w
  <2> QED
    BY <1>1, Listed
<1>3. Sorted(s)
  BY <1>2
<1>4. Agg!SlowestFirst(some) = CHOOSE t \in [1 .. n -> some] : Sorted(t)
  BY Zenon DEF Agg!SlowestFirst, Agg!Cardinality, Cardinality
<1> HIDE DEF Sorted
<1> QED
  BY <1>3, <1>4

\* What slowest_layers() lists are layers.
LEMMA ListedLayers ==
  ASSUME Agg!TypeOK, IsFiniteSet(Layers)
  PROVE  ToSet(Agg!slowest_layers(Cardinality(Layers))) \subseteq Layers
<1> DEFINE seen == {l \in Layers : layers[l].calls > 0}
           n == Cardinality(seen)
           all == Agg!SlowestFirst(seen)
           k == Agg!Min({Cardinality(Layers), n})
<1>1. Agg!slowest_layers(Cardinality(Layers)) = SubSeq(all, 1, k)
  BY Zenon DEF Agg!slowest_layers, Agg!Cardinality, Cardinality
<1>2. IsFiniteSet(seen) /\ n \in Nat /\ Cardinality(Layers) \in Nat
  BY FS_Subset, FS_CardinalityType
<1>3. all \in [1 .. n -> seen]
  <2>1. seen \in SUBSET Layers
    OBVIOUS
  <2> HIDE DEF seen
  <2> QED
    BY <2>1, SlowestAreListed
<1>4. k \in Nat /\ k <= n
  <2> HIDE DEF n
  <2> QED
    BY <1>2, Smallest DEF Agg!Min, Min
<1> HIDE DEF all, n, k
<1>5. ToSet(SubSeq(all, 1, k)) \subseteq seen
  <2>1. SubSeq(all, 1, k) = [i \in 1 .. k |-> all[i]]
    BY <1>2, <1>3, <1>4
  <2>2. DOMAIN SubSeq(all, 1, k) = 1 .. k
    BY <2>1
  <2>3. \A i \in 1 .. k : SubSeq(all, 1, k)[i] \in seen
    BY <1>2, <1>3, <1>4, <2>1
  <2> HIDE DEF seen
  <2> QED
    BY <2>2, <2>3, Zenon DEF ToSet
<1> QED
  BY <1>1, <1>5

Listing(ids) == UNION {{id[1]} \X (1 .. id[2]) : id \in ids}

\* What is known to be counted from each piece.
LEMMA EvidenceOf ==
  /\ Evidence("device") = 0
  /\ Evidence("stream") = Cardinality(Listing(ToSet(Ring!GetAll)))
  /\ Evidence("ledger") = Cardinality(Listing({a.id : a \in ToSet(alerts)}))
  /\ Evidence("profile") = Calls(Agg!slowest_layers(Cardinality(Layers)))
  /\ Evidence("speed") = token_count
  /\ Evidence("average") = latency_samples
  /\ Evidence("events") = total_events
BY DEF Evidence, Listing

\* Events that are past the aggregator are no more than it has counted.
LEMMA NoMoreThanCounted ==
  ASSUME CountedInv, NEW S \in SUBSET Counted
  PROVE  Cardinality(S) \in Nat /\ Cardinality(S) <= total_events
<1>1. IsFiniteSet(S) /\ Cardinality(S) <= Cardinality(Counted)
  BY FS_Subset DEF CountedInv
<1> QED
  BY <1>1, FS_CardinalityType DEF CountedInv, NothingMiscounted

\* A row of the stream is stored before it is counted, but all rows before it of
\* its producer have been counted.
LEMMA RowsStored ==
  ASSUME Types, StoredInv
  PROVE  Listing(ToSet(Ring!GetAll)) \subseteq Counted \cup {Id(p) : p \in Producers}
<1> SUFFICES ASSUME NEW id \in ToSet(Ring!GetAll), NEW n \in 1 .. id[2], <<id[1], n>> # Id(id[1])
             PROVE  <<id[1], n>> \in Counted /\ id[1] \in Producers
  <2>1. \A id \in ToSet(Ring!GetAll) : id[1] \in Producers
    BY PastKept DEF StoredInv, RingKeepsEachStream, Stored
  <2> QED
    BY <2>1 DEF Listing
<1>1. id \in Past({"ring"})
  BY DEF StoredInv, RingKeepsEachStream, Stored
<1>2. id[1] \in Producers /\ id[2] \in 1 .. Len(published[id[1]])
  BY <1>1, PastKept
<1>3. <<id[1], n>> \in Producers \X Int /\ n \in 1 .. Reach(id[1], {"ring", "aggregator"})
  <2> DEFINE top == Len(published[id[1]])
  <2>1. top \in Nat /\ n # top
    BY <1>2 DEF Types, Id
  <2>2. Reach(id[1], {"ring", "aggregator"}) = top \/ Reach(id[1], {"ring", "aggregator"}) = top - 1
    <3>1. Reach(id[1], {"ring", "aggregator"}) = top - (IF pc[id[1]] \in {"ring", "aggregator"} THEN 1 ELSE 0)
      BY DEF Reach
    <3> HIDE DEF top
    <3> QED
      BY <2>1, <3>1
  <2> HIDE DEF top
  <2>3. id[2] \in 1 .. top
    BY <1>2 DEF top
  <2> QED
    BY <1>2, <2>1, <2>2, <2>3
<1> QED
  BY <1>2, <1>3, PastMember DEF Counted

\* Each producer adds one element at most.
LEMMA LatestIds ==
  ASSUME IsFiniteSet(Producers)
  PROVE  LET S == {Id(p) : p \in Producers}
         IN  IsFiniteSet(S) /\ Cardinality(S) <= Cardinality(Producers)
<1> DEFINE S == {Id(p) : p \in Producers}
           f == [p \in Producers |-> Id(p)]
<1>1. f \in Surjection(Producers, S)
  BY DEF Surjection
<1> HIDE DEF f
<1> QED
  BY <1>1, FS_Surjection

\* The stream shows at most one event of each producer that is not counted yet.
LEMMA RowsCounted ==
  ASSUME Types, StoredInv, CountedInv, IsFiniteSet(Producers), NEW R, R = Listing(ToSet(Ring!GetAll))
  PROVE  Cardinality(R) \in Nat /\ Cardinality(R) <= total_events + Cardinality(Producers)
<1> DEFINE S == {Id(p) : p \in Producers}
           C == Counted
<1>1. IsFiniteSet(C) /\ Cardinality(C) = total_events
  BY DEF CountedInv, NothingMiscounted
<1>2. IsFiniteSet(S) /\ Cardinality(S) <= Cardinality(Producers)
  BY LatestIds
<1>3. R \subseteq C \cup S
  BY RowsStored
<1>4. Cardinality(Producers) \in Nat
  BY FS_CardinalityType
<1> HIDE DEF S, C
<1>5. /\ IsFiniteSet(C \cup S) /\ IsFiniteSet(C \cap S)
      /\ Cardinality(C \cup S) = Cardinality(C) + Cardinality(S) - Cardinality(C \cap S)
  BY <1>1, <1>2, FS_Union, FS_Intersection
<1>6. Cardinality(C) \in Nat /\ Cardinality(S) \in Nat /\ Cardinality(C \cap S) \in Nat
  BY <1>1, <1>2, <1>5, FS_CardinalityType
<1>7. Cardinality(R) \in Nat /\ Cardinality(R) <= Cardinality(C \cup S)
  BY <1>3, <1>5, FS_Subset, FS_CardinalityType
<1> QED
  BY <1>1, <1>2, <1>4, <1>5, <1>6, <1>7

\* An alert is raised after its event was counted.
LEMMA AlertsUpTo ==
  ASSUME Types, LedgerInv
  PROVE  Listing({a.id : a \in ToSet(alerts)}) \subseteq Counted
<1> SUFFICES ASSUME NEW a \in ToSet(alerts), NEW n \in 1 .. a.id[2]
             PROVE  <<a.id[1], n>> \in Counted
  BY DEF Listing
<1>1. a \in Raised
  BY DEF LedgerInv, LedgerKeepsNewest
<1>2. a.id \in Counted
  BY <1>1, RaisedAre
<1>3. a.id \in Producers \X Int /\ a.id[2] \in 1 .. Reach(a.id[1], {"ring", "aggregator"})
  BY <1>2, PastMember DEF Counted
<1>4. Reach(a.id[1], {"ring", "aggregator"}) \in Int
  BY <1>3 DEF Reach, Types
<1>5. <<a.id[1], n>> \in Producers \X Int /\ n \in 1 .. Reach(a.id[1], {"ring", "aggregator"})
  <2> DEFINE r == Reach(a.id[1], {"ring", "aggregator"})
             m == a.id[2]
             q == a.id[1]
  <2>1. q \in Producers /\ m \in 1 .. r /\ r \in Int /\ n \in 1 .. m
    BY <1>3, <1>4
  <2> HIDE DEF r, m, q
  <2>2. n \in 1 .. r
    BY <2>1
  <2> QED
    BY <2>1, <2>2 DEF r, q
<1> QED
  BY <1>5, PastMember DEF Counted

\* No total of the performance panel exceeds the number of events.
LEMMA CallsNoMoreThanSamples ==
  ASSUME CountedInv, TalliesAgree, IsFiniteSet(Layers)
  PROVE  /\ latency_samples \in Nat /\ total_events \in Nat /\ latency_samples <= total_events
         /\ token_count \in Nat /\ token_count <= latency_samples
         /\ LET calls == Calls(Agg!slowest_layers(Cardinality(Layers)))
            IN  calls \in Nat /\ calls <= latency_samples
<1>1. /\ latency_samples \in Nat /\ total_events \in Nat /\ latency_samples <= total_events
      /\ \A l \in Layers : CallsOf[l] \in Nat /\ CallsOf[l] = layers[l].calls
      /\ token_count = layers[Embedding].calls /\ token_count \in Nat
      /\ Agg!TypeOK
  BY DEF CountedInv, TalliesAgree, Agg!TypeOK, CallsOf
<1>2. SumFunctionOnSet(CallsOf, Layers) = latency_samples
  BY DEF TalliesAgree, SumFunction, CallsOf
<1>3. ASSUME NEW T \in SUBSET Layers
      PROVE  /\ SumFunctionOnSet(CallsOf, T) \in Nat
             /\ SumFunctionOnSet(CallsOf, T) <= latency_samples
  <2>1. IsFiniteSet(T) /\ \A l \in T : CallsOf[l] \in Nat
    BY <1>1, FS_Subset
  <2> QED
    BY <1>1, <1>2, <2>1, SumNat, SumPart
<1>4. token_count <= latency_samples
  <2>1. CallsOf[Embedding] = token_count /\ {Embedding} \in SUBSET Layers
    BY <1>1, EmbeddingAssumption
  <2>2. SumFunctionOnSet(CallsOf, Layers) = CallsOf[Embedding] + SumFunctionOnSet(CallsOf, Layers \ {Embedding})
    BY <1>1, EmbeddingAssumption, SumAny
  <2>3. SumFunctionOnSet(CallsOf, Layers \ {Embedding}) \in Nat
    BY <1>3
  <2> QED
    BY <1>1, <1>2, <2>1, <2>2, <2>3
<1>5. Calls(Agg!slowest_layers(Cardinality(Layers)))
        = SumFunctionOnSet(CallsOf, ToSet(Agg!slowest_layers(Cardinality(Layers))))
  BY DEF Calls, CallsOf
<1> QED
  BY <1>1, <1>3, <1>4, <1>5, ListedLayers

Consistent == Types /\ StoredInv /\ CountedInv /\ TotalsInv(0) /\ LedgerInv

\* Whatever piece is read, the events it gives evidence of have been counted, but
\* for the newest rows.
LEMMA EvidenceCounted ==
  ASSUME Consistent, IsFiniteSet(Producers), IsFiniteSet(Layers),
         NEW piece \in {"device", "stream", "ledger", "profile", "speed", "average", "events"}
  PROVE  Evidence(piece) \in Nat /\ Evidence(piece) <= total_events + Uncounted(piece)
<1> USE DEF Consistent
<1>1. total_events \in Nat
  BY CallsNoMoreThanSamples DEF TotalsInv
<1>2. CASE piece = "device"
  BY <1>1, <1>2, EvidenceOf DEF Uncounted
<1>3. CASE piece = "stream"
  BY <1>3, EvidenceOf, RowsCounted DEF Uncounted
<1>4. CASE piece = "ledger"
  <2>1. Evidence(piece) \in Nat /\ Evidence(piece) <= total_events
    BY <1>4, EvidenceOf, AlertsUpTo, NoMoreThanCounted
  <2> QED
    BY <1>1, <1>4, <2>1 DEF Uncounted
<1>5. CASE piece \in {"profile", "speed", "average", "events"}
  <2>1. Evidence(piece) \in Nat /\ Evidence(piece) <= total_events
    BY <1>5, EvidenceOf, CallsNoMoreThanSamples DEF TotalsInv
  <2> QED
    BY <1>1, <1>5, <2>1 DEF Uncounted
<1> QED
  BY <1>2, <1>3, <1>4, <1>5

\* A frame that is being drawn shows nothing of an event that is not counted yet,
\* but for the newest rows, and nothing but the slowest layers is read after the number of events.
FrameInv ==
  view \in Dash =>
    /\ IsSequence(shown) /\ Len(shown) <= Len(Pieces(view))
    /\ \A i \in 1 .. Len(shown) : Pieces(view)[i] # "slowest" =>
         shown[i] \in Nat /\ shown[i] <= total_events + Uncounted(Pieces(view)[i])
    /\ \A i, j \in 1 .. Len(shown) :
         Pieces(view)[j] = "events" /\ Pieces(view)[i] # "slowest"
           => shown[i] <= shown[j] + Uncounted(Pieces(view)[i])

\* Reading a piece of a frame.
LEMMA ReadKeepsFrame ==
  ASSUME Consistent, IsFiniteSet(Producers), IsFiniteSet(Layers), FrameInv, Read
  PROVE  FrameInv'
<1> SUFFICES ASSUME view \in Dash PROVE FrameInv'
  BY DEF Read, FrameInv
<1> DEFINE P == Pieces(view)
           k == Len(shown) + 1
           piece == P[k]
           e == Evidence(piece)
<1>1. shown' = Append(shown, e) /\ view' = view /\ Len(shown) < Len(P) /\ total_events' = total_events
  BY DEF Read, pipelineVars, vars, aggregatorVars
<1>2. IsSequence(shown') /\ Len(shown') = k /\ Len(shown) \in Nat
  BY <1>1, Appended DEF FrameInv
<1>3. \A i \in 1 .. k - 1 : shown'[i] = shown[i]
  BY <1>1 DEF FrameInv, IsSequence
<1>4. shown'[k] = e
  BY <1>1 DEF FrameInv, IsSequence
<1>5. /\ Len(P) \in Nat
      /\ P[k] \in {"device", "stream", "ledger", "profile", "speed", "average", "events", "slowest"}
      /\ \A j \in 1 .. k - 1 : P[j] = "events" => P[k] = "slowest"
  <2>1. Len(P) \in Nat /\ k \in 1 .. Len(P)
    BY <1>1, <1>2, PieceOrder
  <2> HIDE DEF P
  <2> QED
    BY <1>2, <2>1, PieceOrder DEF P
<1>6. piece # "slowest" => e \in Nat /\ e <= total_events + Uncounted(piece)
  <2> HIDE DEF e, P, k
  <2> QED
    BY <1>5, EvidenceCounted DEF piece, e
<1>7. piece = "events" => e = total_events
  BY EvidenceOf
<1>8. \A i \in 1 .. k : P[i] # "slowest" => shown'[i] \in Nat /\ shown'[i] <= total_events + Uncounted(P[i])
  <2>1. ASSUME NEW i \in 1 .. k, P[i] # "slowest"
        PROVE  shown'[i] \in Nat /\ shown'[i] <= total_events + Uncounted(P[i])
    <3>1. CASE i = k
      BY <1>4, <1>6, <2>1, <3>1
    <3>2. CASE i \in 1 .. k - 1
      BY <1>3, <2>1, <3>2 DEF FrameInv
    <3> QED
      BY <1>2, <3>1, <3>2
  <2> QED
    BY <2>1
<1>9. ASSUME NEW i \in 1 .. k, NEW j \in 1 .. k, P[j] = "events", P[i] # "slowest"
      PROVE  shown'[i] <= shown'[j] + Uncounted(P[i])
  <2>1. CASE j = k
    BY <1>4, <1>7, <1>8, <1>9, <2>1
  <2>2. CASE j # k
    <3>1. j \in 1 .. k - 1 /\ i # k
      BY <1>2, <1>5, <1>9, <2>2
    <3>2. i \in 1 .. k - 1
      BY <1>2, <3>1
    <3> QED
      BY <1>3, <1>9, <3>1, <3>2 DEF FrameInv
  <2> QED
    BY <2>1, <2>2
<1> HIDE DEF k, piece, e
<1> QED
  BY <1>1, <1>2, <1>5, <1>8, <1>9 DEF FrameInv, k

\* What the consumers count meanwhile only adds to what a frame may show.
LEMMA ProducersKeepFrame ==
  ASSUME CountedInv, IsFiniteSet(Producers), FrameInv, NEW p \in Producers, Produce(p)
  PROVE  FrameInv'
<1>1. view' = view /\ shown' = shown
  BY DEF Produce, frameVars
<1>2. total_events \in Nat
  BY DEF CountedInv, Agg!TypeOK
<1>3. total_events' = total_events \/ total_events' = total_events + 1
  BY DEF Produce, Step, Publish, Store, Aggregate, PassOn, Raise, CallbackReturns, aggregatorVars,
         Agg!CountTrace, Agg!CountOther
<1>4. \A n \in Nat, m \in Nat : n <= total_events + m => n <= total_events' + m
  BY <1>2, <1>3
<1>5. \A piece : Uncounted(piece) \in Nat /\ Uncounted(piece)' = Uncounted(piece)
  BY FS_CardinalityType DEF Uncounted
<1> QED
  BY <1>1, <1>4, <1>5 DEF FrameInv

\* No step makes a frame contradict itself.
LEMMA FrameInductive ==
  ASSUME IsFiniteSet(Producers), IsFiniteSet(Layers)
  PROVE  Consistent /\ FrameInv /\ [FrameNext]_allVars => FrameInv'
<1> SUFFICES ASSUME Consistent, FrameInv, [FrameNext]_allVars PROVE FrameInv'
  OBVIOUS
<1>1. ASSUME NEW v \in load.views, Begin(v) PROVE FrameInv'
  <2>1. view' = v /\ shown' = <<>>
    BY <1>1 DEF Begin
  <2>2. IsSequence(shown') /\ Len(shown') = 0
    BY <2>1 DEF IsSequence
  <2> QED
    BY <2>1, <2>2, PieceOrder DEF FrameInv
<1>2. CASE Read
  BY <1>2, ReadKeepsFrame
<1>3. CASE End
  BY <1>3 DEF End, FrameInv, Dash
<1>4. ASSUME NEW p \in Producers, Produce(p) PROVE FrameInv'
  BY <1>4, ProducersKeepFrame DEF Consistent
<1>5. CASE UNCHANGED <<pipelineVars, frameVars>>
  BY <1>5 DEF pipelineVars, vars, frameVars, aggregatorVars, FrameInv, Uncounted
<1> QED
  BY <1>1, <1>2, <1>3, <1>4, <1>5 DEF FrameNext, TimePasses, Drop, allVars

\* The invariants of the consumers hold together.
LEMMA ConsistentHolds ==
  ASSUME IsFiniteSet(Layers), IsFiniteSet(Devices)
  PROVE  Spec => []Consistent
<1>1. Init => TotalsInv(0)
  BY TalliesAtStart DEF TotalsInv
<1>2. Types /\ CountedInv /\ TotalsInv(0) /\ [Next]_vars => TotalsInv(0)'
  BY TotalsInductive
<1>3. Init => Consistent
  BY <1>1, TypesAtStart, StoredAtStart, CountedAtStart, LedgerAtStart DEF Consistent
<1>4. Consistent /\ [Next]_vars => Consistent'
  BY <1>2, TypesInductive, StoredInductive, CountedInductive, LedgerInductive DEF Consistent
<1> QED
  BY <1>3, <1>4, PTL DEF Spec

\* A frame's pieces are read one by one, each under its owner's lock, while the
\* producers go on (dashboard.cpp:106-191), and the order in which they are read
\* is what keeps the frame from contradicting itself: the number of events is
\* read after all that must be counted in it, of the rows all but one of each
\* source at most, however many sources there are.
THEOREM FramesAreCoherent ==
  ASSUME IsFiniteSet(Producers), IsFiniteSet(Layers), IsFiniteSet(Devices)
  PROVE  FrameSpec => []FrameIsCoherent
<1>1. FrameInit => FrameInv
  BY DEF FrameInit, FrameInv, Dash
<1>2. Consistent /\ FrameInv /\ [FrameNext]_allVars => FrameInv'
  BY FrameInductive
<1>3. FrameInv => FrameIsCoherent
  BY DEF FrameInv, FrameIsCoherent, Dash
<1>4. FrameSpec => []Consistent
  BY FrameSpecImplementsSpec, ConsistentHolds, PTL
<1> QED
  BY <1>1, <1>2, <1>3, <1>4, PTL DEF FrameSpec
=============================================================================
