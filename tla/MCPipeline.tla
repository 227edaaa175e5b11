------------------------------ MODULE MCPipeline ------------------------------
(***************************************************************************)
(* A server and a tracer that publish a few events each, of every kind the *)
(* consumers tell apart.  The packets that do not decode, a NaN among them,*)
(* are there to be dropped.                                                *)
(***************************************************************************)
EXTENDS Frame, TLC

CONSTANTS ServerEvents, TracerEvents

MCProducers == {"server", "tracer"}
MCLayers == {"", "embed_tokens", "mlp"}
MCStrings == STRING
MCDevices == {"CUDA", "CPU"}

Limits(server, tracer) == [p \in MCProducers |-> IF p = "server" THEN server ELSE tracer]

\* The consumers under load, frames of a smaller load, and an idle host.
MCLoads == {
  [limit |-> Limits(ServerEvents, TracerEvents), views |-> {}, frames |-> 0, host |-> FALSE, drops |-> FALSE],
  [limit |-> Limits(2, 0), views |-> {"overview"}, frames |-> 1, host |-> FALSE, drops |-> FALSE],
  [limit |-> Limits(1, 1), views |-> {"overview", "call_tree", "headless"}, frames |-> 1, host |-> FALSE, drops |-> FALSE],
  [limit |-> Limits(0, 0), views |-> {"call_tree"}, frames |-> 3, host |-> TRUE, drops |-> FALSE],
  [limit |-> Limits(2, 0), views |-> {}, frames |-> 0, host |-> FALSE, drops |-> TRUE]}

Json(type, payload) == [event_type |-> type, payload |-> payload]
Live == [mean |-> "normal", variance |-> "live", sparsity |-> "low"]

MCJson == {
  Json("layer_trace", [layer_name |-> "embed_tokens", layer_type |-> "Embedding",
       device |-> "CUDA", latency_ms |-> 1, stats |-> [variance |-> "dead"] @@ Live]),
  Json("layer_trace", [layer_name |-> "mlp", latency_ms |-> 4,
       stats |-> [variance |-> "dead", sparsity |-> "high", min_val |-> "huge", max |-> "normal"] @@ Live]),
  Json("layer_trace", [layer_type |-> "MLP"]),
  Json("attention_weights", [k \in AttentionKeys |-> "mlp"]),
  Json("anomaly", [severity |-> "ERROR"]),
  Json("model_info", Null),
  Json("layer_trace", [layer_name |-> "mlp", stats |-> [mean |-> "nan"] @@ Live]),
  Json("layer_trace", [stats |-> [mean |-> "normal", max |-> "huge"]]),
  Json("layer_trace", [latency_ms |-> Wrong]),
  Json("attention_weights", [layer_name |-> "mlp"]),
  Json("anomaly", Wrong),
  [payload |-> Null],
  Wrong }

Trace(layer, layer_type, device, latency, stats) ==
  [type |-> "layer_trace", layer |-> layer, layer_type |-> layer_type,
   device |-> device, latency |-> latency, stats |-> stats]

MCSimulated ==
  { Trace("embed_tokens", "Embedding", "CUDA", 1, Stats(Live)),
    Trace("mlp", "MLP", "CPU", 3, Stats([max |-> "huge"] @@ Live)),
    [type |-> "attention_weights", layer |-> "mlp"],
    [type |-> "anomaly", severity |-> "ERROR"] }

MCPackets(p) == IF p = "server" THEN MCJson ELSE MCSimulated
=============================================================================
