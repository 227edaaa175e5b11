--------------------------------- MODULE Panels ---------------------------------
(***************************************************************************)
(* What the panels of src/tui/panels.cpp compute from the data they are    *)
(* handed: which rows they show, in which order, and which of them is the  *)
(* selected one.  Formatting, colours and layout are left out.  The path   *)
(* of a layer is a tuple: <<"layers", 0, "mlp">> is layers.0.mlp.          *)
(***************************************************************************)
EXTENDS Integers, Sequences, SequencesExt

Least(a, b) == IF a <= b THEN a ELSE b
Most(a, b) == IF a <= b THEN b ELSE a

\* topology_nodes(): three nodes for each layer, between the embedding and the end.
TopologyNodes(layers) ==
  LET Node(i) == <<"layers", i \div 3>> \o <<<<>>, <<"self_attn">>, <<"mlp">>>>[(i % 3) + 1]
  IN  <<<<"embed_tokens">>>> \o [i \in 1 .. 3 * layers |-> Node(i - 1)] \o <<<<"norm">>, <<"lm_head">>>>

\* The members of a set, in the order of a sequence.
Those(seq, set) ==
  LET upTo[n \in 0 .. Len(seq)] ==
        IF n = 0 THEN <<>> ELSE IF seq[n] \in set THEN Append(upTo[n - 1], seq[n]) ELSE upTo[n - 1]
  IN  upTo[Len(seq)]

\* The layer_traces among the events, oldest first, and the row render_live_stream()
\* highlights, which it counts from the newest.
TracesOf(events) == Those(events, {e \in ToSet(events) : e.type = "layer_trace"})
StreamRow(traces, idx) == Reverse(traces)[idx + 1]

-----------------------------------------------------------------------------

\* A cycle that starts with the traces of the one before.
ExtendUncleared(journey, trace) ==
  IF trace.layer = <<"embed_tokens">> /\ journey.cur # <<>>
  THEN [cycles |-> Append(journey.cycles, journey.cur), cur |-> Append(journey.cur, trace)]
  ELSE [journey EXCEPT !.cur = Append(@, trace)]

\* One more trace for render_token_journey(): embed_tokens ends the cycle before it.
Extend(journey, trace) ==
  IF trace.layer = <<"embed_tokens">> /\ journey.cur # <<>>
  THEN [cycles |-> Append(journey.cycles, journey.cur), cur |-> <<trace>>]
  ELSE [journey EXCEPT !.cur = Append(@, trace)]

\* Its token cycles, the one that is still being received included.
Cycles(traces) ==
  LET upTo[n \in 0 .. Len(traces)] ==
        IF n = 0 THEN [cycles |-> <<>>, cur |-> <<>>] ELSE Extend(upTo[n - 1], traces[n])
      all == upTo[Len(traces)]
  IN  IF all.cur = <<>> THEN all.cycles ELSE Append(all.cycles, all.cur)

-----------------------------------------------------------------------------

\* render_attention() draws the head, and not "No attention weights".
DrawsHead(matrices, head) == matrices # 0 /\ head < matrices

\* render_attention() that forgets that the matrix may be smaller than the view.
ViewStartSmall(tokens, pan, vp) == Least(pan, tokens - vp)

\* The first row or column render_attention() shows of so many tokens, and the
\* first it does not.
ViewStart(tokens, pan, vp) == Least(Most(0, pan), Most(0, tokens - vp))
ViewEnd(tokens, pan, vp) == Least(tokens, ViewStart(tokens, pan, vp) + vp)

-----------------------------------------------------------------------------

Root == <<"Inference">>
Block == <<"layers">>
Parts == <<"input_layernorm", "self_attn", "post_attention_layernorm", "mlp">>

\* The call tree of render_flame_graph(), from top to bottom.
FlameNodes(layers) ==
  LET Node(i) == <<"layers", i \div 5>> \o (IF i % 5 = 0 THEN <<>> ELSE <<Parts[i % 5]>>)
  IN  <<Root, <<"embed_tokens">>, Block>>
        \o [i \in 1 .. 5 * layers |-> Node(i - 1)] \o <<<<"norm">>, <<"lm_head">>>>

\* The nodes a node is inside of.
Above(path) ==
  (IF path = Root THEN {} ELSE {Root})
    \cup (IF path[1] = "layers" THEN {SubSeq(path, 1, n) : n \in 1 .. Len(path) - 1} ELSE {})

\* The rows it draws once anything was traced: those inside open nodes only.
FlameRows(layers, open) ==
  LET nodes == FlameNodes(layers)
  IN  Those(nodes, {p \in ToSet(nodes) : Above(p) \subseteq open})

\* The nodes with a time of their own; avg gives it, on average.  The time shown
\* for a node is its own, or that of all the leaves inside it.
FlameLeaves(layers) == {p \in ToSet(FlameNodes(layers)) : p \notin {Root, Block} /\ Len(p) # 2}
FlameTime(path, layers, avg) ==
  SumFunctionOnSet(avg, {p \in FlameLeaves(layers) : p = path \/ path \in Above(p)})
=============================================================================
