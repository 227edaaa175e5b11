----------------------------- MODULE MCDashboard -----------------------------
(***************************************************************************)
(* Dashboard for TLC: one session per panel or pair of panels that share   *)
(* state, each with the events that matter to it.                          *)
(***************************************************************************)
EXTENDS Dashboard

Attention(i) == <<"layers", i, "self_attn">>
Trace(p) == [type |-> "layer_trace", layer |-> p]
Matrix(i, heads, matrices) ==
  [type |-> "attention_weights", layer |-> Attention(i), heads |-> heads, matrices |-> matrices]
Model(n) == [type |-> "model_info", layers |-> n]
Anomaly == [type |-> "anomaly"]

MCSources == {"server", "tracer"}
MCAttentionLayers == {Attention(0), Attention(1)}

MCSessions == {
  [keys |-> {"topology", "head"}, tabs |-> {0, 1}, senders |-> {"server"},
   events |-> {Model(2), Trace(Attention(1)), Matrix(0, 2, 2), Matrix(1, 1, 1), Matrix(1, 2, 1),
               Matrix(1, 0, 0)}],
  [keys |-> {"topology", "stream"}, tabs |-> {0}, senders |-> {"server"},
   events |-> {Model(1), Model(2), Trace(Attention(0)), Trace(None), Anomaly}],
  [keys |-> {"topology", "stream"}, tabs |-> {}, senders |-> MCSources,
   events |-> {Trace(Attention(0)), Trace(<<"norm">>), Trace(None)}],
  [keys |-> {"view", "journey"}, tabs |-> {0, 1}, senders |-> {"server"},
   events |-> {Trace(<<"embed_tokens">>), Trace(Attention(0)), Anomaly}],
  [keys |-> {"flame"}, tabs |-> {2, 3}, senders |-> {"server"}, events |-> {Model(1), Model(2)}],
  [keys |-> {"snapshot"}, tabs |-> {}, senders |-> MCSources,
   events |-> {Model(1), Model(2), Matrix(0, 1, 1), Matrix(1, 1, 1), Trace(Attention(1))}]}
=============================================================================
