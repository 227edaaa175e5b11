------------------------------- MODULE WireFormat -------------------------------
(***************************************************************************)
(* from_json() of include/telemetry/types.hpp; the program never calls     *)
(* to_json().  A JSON object is a function from the keys that are present  *)
(* to their values; a value of a type that the field cannot take is Wrong. *)
(* An event is what the consumers look at: numbers, names and tensors are  *)
(* members of small sets, statistics the classes of AnomalyDetector; of an *)
(* alert, its time and texts are left out.  What throws in the code does   *)
(* not decode, and TelemetryServer drops the line.                         *)
(***************************************************************************)
EXTENDS Integers

CONSTANTS
  Strings,      \* the strings a field can hold
  Wrong, Null

Has(j, key) == key \in DOMAIN j
Value(j, key, default) == IF Has(j, key) THEN j[key] ELSE default

\* j.at(key) and j.value(key, default) throw for a value of the wrong type, the
\* first for an absent key as well.
Required(j, keys) == j # Wrong /\ \A k \in keys : Has(j, k) /\ j[k] # Wrong
Optional(j, keys) == j # Wrong /\ \A k \in keys : Has(j, k) => j[k] # Wrong

\* JSON has no NaN and no infinity, so a line with one of them does not parse.
Writable(stats) == stats = Wrong \/ \A k \in DOMAIN stats : stats[k] \notin {"nan", "inf"}

-----------------------------------------------------------------------------

\* TensorStats with fields that start out with anything.
NoStatsUninitialized ==
  [mean |-> "normal", variance |-> "dead", min |-> "normal", max |-> "huge", sparsity |-> "high"]

\* TensorStats{}: all fields are 0.
NoStats ==
  [mean |-> "normal", variance |-> "dead", min |-> "normal", max |-> "normal", sparsity |-> "low"]

\* "min" hides "min_val", and so does "max".
StatsDecode(s) ==
  /\ Required(s, {"mean", "variance"}) /\ Optional(s, {"min", "max", "sparsity"})
  /\ Has(s, "min") \/ Optional(s, {"min_val"})
  /\ Has(s, "max") \/ Optional(s, {"max_val"})

Stats(s) ==
  [mean |-> s.mean, variance |-> s.variance,
   min |-> Value(s, "min", Value(s, "min_val", NoStats.min)),
   max |-> Value(s, "max", Value(s, "max_val", NoStats.max)),
   sparsity |-> Value(s, "sparsity", NoStats.sparsity)]

ModelKeys == {"name", "layers", "hidden_size", "num_heads", "vocab_size", "quantization"}
AttentionKeys == {"layer_name", "num_heads", "token_count", "tokens", "matrices"}
AlertKeys == {"severity", "layer_name", "description"}
TraceKeys == {"event_id", "layer_name", "layer_type", "device", "latency_ms", "input", "output"}

PayloadDecodes(type, p) ==
  CASE type = "model_info" -> Required(p, ModelKeys)
    [] type = "layer_trace" -> /\ Optional(p, TraceKeys \cup {"stats"})
                               /\ Has(p, "stats") => StatsDecode(p.stats)
    [] type = "attention_weights" -> Required(p, AttentionKeys)
    [] type = "anomaly" -> Optional(p, AlertKeys \cup {"timestamp"})
    [] OTHER -> TRUE

HasPayload(j) == Has(j, "payload") /\ j.payload # Null

\* json::parse() and get<TelemetryEvent>() return an event.
Decodes(j) ==
  /\ Required(j, {"event_type"}) /\ Optional(j, {"timestamp"})
  /\ HasPayload(j) /\ j.payload # Wrong /\ Has(j.payload, "stats") => Writable(j.payload.stats)
  /\ HasPayload(j) => PayloadDecodes(j.event_type, j.payload)

\* The event it returns: without a payload every member keeps its default.
Decode(j) ==
  LET p == IF HasPayload(j) /\ j.payload # Wrong THEN j.payload ELSE [k \in {} |-> Null]
      type == j.event_type
  IN  CASE type = "model_info" -> [type |-> type, layers |-> Value(p, "layers", 0)]
        [] type = "layer_trace" ->
             [type |-> type, layer |-> Value(p, "layer_name", ""),
              layer_type |-> Value(p, "layer_type", ""), device |-> Value(p, "device", "CPU"),
              latency |-> Value(p, "latency_ms", 0),
              stats |-> IF Has(p, "stats") THEN Stats(p.stats) ELSE NoStats]
        [] type = "attention_weights" -> [type |-> type, layer |-> Value(p, "layer_name", "")]
        [] type = "anomaly" -> [type |-> type, severity |-> Value(p, "severity", "WARNING")]
        [] OTHER -> [type |-> type]

-----------------------------------------------------------------------------
(* The members of TelemetryEvent and the values they can take.             *)

Statistics ==
  [mean : {"normal", "huge"}, variance : {"negative", "dead", "live"},
   min : {"normal", "huge"}, max : {"normal", "huge"}, sparsity : {"low", "high"}]

KnownTypes == {"model_info", "layer_trace", "attention_weights", "anomaly"}
TelemetryEvents ==
  [type : {"model_info"}, layers : Nat]
    \cup [type : {"layer_trace"}, layer : Strings, layer_type : Strings, device : Strings,
          latency : Nat, stats : Statistics]
    \cup [type : {"attention_weights"}, layer : Strings]
    \cup [type : {"anomaly"}, severity : Strings]
    \cup [type : Strings \ KnownTypes]

\* The type of a field of a payload, and what a number of a statistic can be.
FieldValues(key) == IF key \in {"layers", "latency_ms"} THEN Nat ELSE Strings
StatValues(key) ==
  CASE key = "variance" -> {"negative", "dead", "live", "nan"}
    [] key = "sparsity" -> {"low", "high", "nan"}
    [] OTHER -> {"normal", "huge", "inf", "nan"}

\* A value of another type than its field's is Wrong.
WellTypedStats(s) == s = Wrong \/ \A k \in DOMAIN s : s[k] \in StatValues(k) \cup {Wrong}
WellTypedPayload(p) ==
  p \in {Wrong, Null} \/ \A k \in DOMAIN p : IF k = "stats" THEN WellTypedStats(p.stats)
                                             ELSE p[k] \in FieldValues(k) \cup {Wrong}
WellTyped(j) ==
  \/ j = Wrong
  \/ /\ Has(j, "event_type") => j.event_type \in Strings \cup {Wrong}
     /\ Has(j, "payload") => WellTypedPayload(j.payload)

ASSUME StringsAssumption == KnownTypes \cup {"", "CPU", "WARNING"} \subseteq Strings
=============================================================================
