--------------------------- MODULE SimulatedProfile ---------------------------
(***************************************************************************)
(* What the call tree makes of the simulator's traces.  The two agree on   *)
(* the names of the layers by convention only: mock_tracer.cpp puts them   *)
(* together from strings, and panels.cpp looks the latencies up by strings *)
(* of its own, where a name that nobody traced counts as 0 ms.             *)
(***************************************************************************)
EXTENDS MockTracer, Panels

Ends == {"embed_tokens", "norm", "lm_head"}

\* Paths with the second norm under the label that the call tree prints.
PathOfLabels(e) ==
  IF e[1] \in Ends THEN <<e[1]>>
  ELSE <<"layers", e[2], IF e[1] = "post_attention_layernorm" THEN "post_attn_layernorm" ELSE e[1]>>

\* The layer_name under which an event of a pass is published.
PathOf(e) == IF e[1] \in Ends THEN <<e[1]>> ELSE <<"layers", e[2], e[1]>>

\* base_latency in 1/100 ms; the jitter around it is left out.
BaseLatency == [e \in Traces |->
  CASE e[1] = "embed_tokens" -> 20
    [] e[1] \in {"input_layernorm", "post_attention_layernorm"} -> 5
    [] e[1] = "self_attn" -> 100 + 3 * e[2]
    [] e[1] = "mlp" -> 240 + 5 * e[2]
    [] e[1] = "norm" -> 6
    [] e[1] = "lm_head" -> 90]

Traced == {run[i][1] : i \in 1 .. Len(run)} \cap Traces

\* avg[path] of render_flame_graph(): 0 for a path that was not traced.
Average(path) == SumFunctionOnSet(BaseLatency, {e \in Traced : PathOf(e) = path})

-----------------------------------------------------------------------------

\* Wherever a run stands, the call tree accounts for all of it: the time of the
\* whole tree is that of every layer traced so far, so that no name differs.
CallTreeIsComplete ==
  FlameTime(Root, kLayers, [p \in FlameLeaves(kLayers) |-> Average(p)]) = SumFunctionOnSet(BaseLatency, Traced)
=============================================================================
