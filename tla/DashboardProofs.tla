----------------------------- MODULE DashboardProofs -----------------------------
(***************************************************************************)
(* What holds of the navigation for every set of sessions: any models,     *)
(* matrices and traces, in any number, between any keys.                   *)
(***************************************************************************)
EXTENDS Dashboard, Lemmas

-----------------------------------------------------------------------------
(* The list of nodes.                                                      *)

Node(i) == <<"layers", i \div 3>> \o <<<<>>, <<"self_attn">>, <<"mlp">>>>[(i % 3) + 1]

\* One element, and so many after it.
LEMMA FirstTwoParts ==
  ASSUME NEW S, NEW s \in Seq(S), NEW t \in Seq(S), NEW m \in Nat, Len(s) = 1, Len(t) = m
  PROVE  /\ s \o t \in Seq(S) /\ Len(s \o t) = m + 1
         /\ (s \o t)[1] = s[1] /\ \A k \in 2 .. m + 1 : (s \o t)[k] = t[k - 1]
<1>1. s \o t \in Seq(S) /\ Len(s \o t) = Len(s) + Len(t)
  BY ConcatLen
<1>2. ASSUME NEW k \in 1 .. Len(s) PROVE (s \o t)[k] = s[k]
  BY ConcatLeft
<1>3. ASSUME NEW k \in 1 .. Len(t) PROVE (s \o t)[Len(s) + k] = t[k]
  BY ConcatRight
<1> DEFINE v == s \o t
<1> HIDE DEF v
<1>4. v \in Seq(S) /\ Len(v) = m + 1
  BY <1>1 DEF v
<1>5. \A k \in 1 .. Len(s) : v[k] = s[k]
  BY <1>2 DEF v
<1>6. \A k \in 1 .. Len(t) : v[Len(s) + k] = t[k]
  BY <1>3 DEF v
<1>7. v[1] = s[1]
  BY <1>5
<1>8. ASSUME NEW k \in 2 .. m + 1
      PROVE  v[k] = t[k - 1]
  <2>1. k - 1 \in 1 .. Len(t) /\ Len(s) + (k - 1) = k
    OBVIOUS
  <2>2. v[Len(s) + (k - 1)] = t[k - 1]
    BY <2>1, <1>6
  <2> QED
    BY <2>1, <2>2
<1> QED
  BY <1>4, <1>7, <1>8 DEF v

\* Two more elements at the end.
LEMMA LastPart ==
  ASSUME NEW S, NEW s \in Seq(S), NEW t \in Seq(S), NEW m \in Nat, Len(s) = m + 1, Len(t) = 2
  PROVE  /\ Len(s \o t) = m + 3 /\ (s \o t)[m + 2] = t[1] /\ (s \o t)[m + 3] = t[2]
         /\ \A k \in 1 .. m + 1 : (s \o t)[k] = s[k]
<1>1. s \o t \in Seq(S) /\ Len(s \o t) = Len(s) + Len(t)
  BY ConcatLen
<1>2. ASSUME NEW k \in 1 .. Len(s) PROVE (s \o t)[k] = s[k]
  BY ConcatLeft
<1>3. ASSUME NEW k \in 1 .. Len(t) PROVE (s \o t)[Len(s) + k] = t[k]
  BY ConcatRight
<1> DEFINE v == s \o t
<1> HIDE DEF v
<1>4. Len(v) = m + 3
  BY <1>1 DEF v
<1>5. \A k \in 1 .. Len(s) : v[k] = s[k]
  BY <1>2 DEF v
<1>6. \A k \in 1 .. Len(t) : v[Len(s) + k] = t[k]
  BY <1>3 DEF v
<1>7. v[m + 2] = t[1] /\ v[m + 3] = t[2]
  <2>1. v[Len(s) + 1] = t[1] /\ v[Len(s) + 2] = t[2]
    BY <1>6
  <2>2. Len(s) + 1 = m + 2 /\ Len(s) + 2 = m + 3
    OBVIOUS
  <2> QED
    BY <2>1, <2>2
<1> QED
  BY <1>4, <1>5, <1>7 DEF v

\* One element, so many after it, and two at the end.
LEMMA ThreeParts ==
  ASSUME NEW S, NEW s \in Seq(S), NEW t \in Seq(S), NEW u \in Seq(S), NEW m \in Nat,
         Len(s) = 1, Len(t) = m, Len(u) = 2
  PROVE  /\ Len((s \o t) \o u) = m + 3
         /\ ((s \o t) \o u)[1] = s[1]
         /\ ((s \o t) \o u)[m + 2] = u[1] /\ ((s \o t) \o u)[m + 3] = u[2]
         /\ \A k \in 2 .. m + 1 : ((s \o t) \o u)[k] = t[k - 1]
<1> DEFINE v == s \o t
           w == v \o u
<1>1. /\ v \in Seq(S) /\ Len(v) = m + 1
      /\ v[1] = s[1] /\ \A k \in 2 .. m + 1 : v[k] = t[k - 1]
  BY FirstTwoParts
<1> HIDE DEF v
<1>2. /\ Len(w) = m + 3 /\ w[m + 2] = u[1] /\ w[m + 3] = u[2]
      /\ \A k \in 1 .. m + 1 : w[k] = v[k]
  BY <1>1, LastPart
<1> HIDE DEF w
<1> QED
  BY <1>1, <1>2 DEF w, v

\* The nodes of the topology, one by one.
LEMMA NodesOfModel ==
  ASSUME NEW n \in Nat
  PROVE  /\ Len(TopologyNodes(n)) = 3 * n + 3
         /\ TopologyNodes(n)[1] = <<"embed_tokens">>
         /\ \A k \in 2 .. 3 * n + 1 : TopologyNodes(n)[k] = Node(k - 2)
         /\ TopologyNodes(n)[3 * n + 2] = <<"norm">>
         /\ TopologyNodes(n)[3 * n + 3] = <<"lm_head">>
<1> DEFINE m == 3 * n
           first == <<<<"embed_tokens">>>>
           inner == [i \in 1 .. m |-> Node(i - 1)]
           end == <<<<"norm">>, <<"lm_head">>>>
           all == {<<"embed_tokens">>, <<"norm">>, <<"lm_head">>} \cup {Node(i - 1) : i \in 1 .. m}
           nodes == first \o inner \o end
<1>1. m \in Nat
  OBVIOUS
<1>2. TopologyNodes(n) = nodes
  BY DEF TopologyNodes, Node
<1> HIDE DEF m
<1>3. first \in Seq(all) /\ Len(first) = 1 /\ first[1] = <<"embed_tokens">>
  OBVIOUS
<1>4. inner \in Seq(all) /\ Len(inner) = m /\ \A i \in 1 .. m : inner[i] = Node(i - 1)
  <2>1. inner \in [1 .. m -> all] /\ \A i \in 1 .. m : inner[i] = Node(i - 1)
    OBVIOUS
  <2> HIDE DEF inner, all
  <2> QED
    BY <1>1, <2>1
<1>5. end \in Seq(all) /\ Len(end) = 2 /\ end[1] = <<"norm">> /\ end[2] = <<"lm_head">>
  OBVIOUS
<1> HIDE DEF first, inner, end, all
<1>6. /\ Len(nodes) = m + 3
      /\ nodes[1] = first[1]
      /\ \A k \in 2 .. m + 1 : nodes[k] = inner[k - 1]
      /\ nodes[m + 2] = end[1] /\ nodes[m + 3] = end[2]
  BY <1>1, <1>3, <1>4, <1>5, ThreeParts
<1> HIDE DEF nodes
<1>7. ASSUME NEW k \in 2 .. m + 1
      PROVE  nodes[k] = Node(k - 2)
  <2>1. k - 1 \in 1 .. m /\ k - 1 - 1 = k - 2
    BY <1>1
  <2> QED
    BY <2>1, <1>4, <1>6
<1> QED
  BY <1>2, <1>3, <1>5, <1>6, <1>7 DEF m

\* How many there are.
LEMMA NodeCount == \A n \in Nat : Len(TopologyNodes(n)) = 3 * n + 3
BY NodesOfModel

-----------------------------------------------------------------------------
(* What is in work, and the models there have been.                        *)

EventInv ==
  /\ session \in Sessions /\ DOMAIN event = Sources
  /\ \A s \in Sources : event[s] # None => event[s] \in session.events

Probes == [layers : Nat, at : Nat, fewest : Nat]

\* The topology of a snapshot is at most as wide as the widest model.
ModelInv ==
  /\ model \in Nat /\ widest \in Nat /\ model <= widest
  /\ probe \in Probes /\ probe.at >= 1
  /\ probe.layers <= widest /\ probe.fewest <= probe.layers

\* Everything that is not the telemetry, written once for all keys and frames.
LEMMA KeysLeaveTelemetry ==
  ASSUME Press \/ BeginFrame \/ Proceed
  PROVE  UNCHANGED <<session, telemetry, model, widest, overwrote>>
BY DEF Press, Proceed, Untouched, Still, OpenTab, CycleFocus, MoveTopology, SelectNode, MoveStream,
       AttentionKey, ChangeHead, Pan, Resize, StepJourney, FlameKey, MoveFlame, ToggleFlame, Key,
       BeginFrame, SelectMatrix, Sync, EndFrame, BeginProbe, Probe, SelectFound

\* on_event() leaves everything else alone.
LEMMA EventsLeaveKeys ==
  ASSUME NEW s \in Sources, OnEvent(s)
  PROVE  UNCHANGED <<session, ring, latest, screen, cursors, attention, flame>>
BY DEF OnEvent, TestTrace, ShowTrace, ShowModel, ShowNothing, Leave

\* Only events of the session are in work.
LEMMA EventStep == EventInv /\ [Next]_vars => EventInv'
<1> SUFFICES ASSUME EventInv, [Next]_vars
             PROVE  EventInv'
  OBVIOUS
<1>1. ASSUME NEW s \in Sources, NEW e \in session.events, Push(s, e)
      PROVE  EventInv'
  BY <1>1 DEF EventInv, Push
<1>2. ASSUME NEW s \in Sources, OnEvent(s)
      PROVE  EventInv'
  BY <1>2 DEF EventInv, OnEvent, TestTrace, ShowTrace, ShowModel, ShowNothing, Leave
<1>3. CASE Press \/ BeginFrame \/ Proceed
  BY <1>3, KeysLeaveTelemetry DEF EventInv, telemetry
<1>4. CASE UNCHANGED vars
  BY <1>4 DEF EventInv, vars, telemetry
<1> QED
  BY <1>1, <1>2, <1>3, <1>4 DEF Next

\* Who writes the model and the layers that snapshot() read.
LEMMA ModelSteps ==
  [Next]_vars => (\E s \in Sources : ShowModel(s)) \/ BeginProbe \/ Probe \/ UNCHANGED <<model, widest, probe>>
<1> SUFFICES ASSUME [Next]_vars, ~(\E s \in Sources : ShowModel(s)), ~(BeginProbe \/ Probe)
             PROVE  UNCHANGED <<model, widest, probe>>
  OBVIOUS
<1>1. ASSUME NEW s \in Sources, NEW e \in session.events, Push(s, e)
      PROVE  UNCHANGED <<model, widest, probe>>
  BY <1>1 DEF Push, inspector
<1>2. ASSUME NEW s \in Sources, OnEvent(s)
      PROVE  UNCHANGED <<model, widest, probe>>
  BY <1>2 DEF OnEvent, TestTrace, ShowTrace, ShowNothing, inspector, history
<1>3. CASE Press \/ BeginFrame \/ Proceed
  <2>1. probe' = probe
    BY <1>3 DEF Press, Proceed, Still, OpenTab, CycleFocus, MoveTopology, SelectNode, MoveStream,
         AttentionKey, ChangeHead, Pan, Resize, StepJourney, FlameKey, MoveFlame, ToggleFlame, Key,
         BeginFrame, SelectMatrix, Sync, EndFrame, SelectFound
  <2> QED
    BY <1>3, <2>1, KeysLeaveTelemetry
<1>4. CASE UNCHANGED vars
  BY <1>4 DEF vars, inspector, history
<1> QED
  BY <1>1, <1>2, <1>3, <1>4 DEF Next

\* What a model_info that is shown sets.
LEMMA NewModel ==
  ASSUME EventInv, NEW s \in Sources, ShowModel(s)
  PROVE  /\ event[s].layers \in Nat
         /\ model' = event[s].layers /\ widest' = Most(widest, event[s].layers)
         /\ probe' = [probe EXCEPT !.fewest = Least(@, event[s].layers)]
BY SessionAssumption DEF EventInv, ShowModel, Leave

\* No model is wider than the widest.
LEMMA ModelStep == EventInv /\ ModelInv /\ [Next]_vars => ModelInv'
<1> SUFFICES ASSUME EventInv, ModelInv, [Next]_vars
             PROVE  ModelInv'
  OBVIOUS
<1>1. ASSUME NEW s \in Sources, ShowModel(s)
      PROVE  ModelInv'
  <2> DEFINE n == event[s].layers
  <2>1. /\ n \in Nat /\ model' = n /\ widest' = Most(widest, n)
        /\ probe' = [probe EXCEPT !.fewest = Least(@, n)]
    BY <1>1, NewModel
  <2> HIDE DEF n
  <2>2. /\ probe' \in Probes /\ probe'.layers = probe.layers /\ probe'.at = probe.at
        /\ probe'.fewest = Least(probe.fewest, n)
    BY <2>1 DEF ModelInv, Probes, Least
  <2>3. probe.fewest \in Nat /\ probe.layers \in Nat /\ probe.at \in Nat
    BY DEF ModelInv, Probes
  <2> QED
    BY <2>1, <2>2, <2>3 DEF ModelInv, Least, Most
<1>2. CASE BeginProbe
  BY <1>2 DEF ModelInv, BeginProbe, Still, Untouched, Probes
<1>3. CASE Probe
  <2>1. /\ model' = model /\ widest' = widest
        /\ probe' = probe \/ probe' = [probe EXCEPT !.at = @ + 1]
    BY <1>3 DEF Probe, Still, Untouched
  <2>2. /\ probe' \in Probes /\ probe'.layers = probe.layers /\ probe'.fewest = probe.fewest
        /\ probe'.at >= 1
    BY <2>1 DEF ModelInv, Probes
  <2> QED
    BY <2>1, <2>2 DEF ModelInv
<1>4. CASE UNCHANGED <<model, widest, probe>>
  BY <1>4 DEF ModelInv
<1> QED
  BY <1>1, <1>2, <1>3, <1>4, ModelSteps

\* The widest model never becomes smaller.
LEMMA WidestGrows == EventInv /\ ModelInv /\ [Next]_vars => widest' \in Nat /\ widest <= widest'
<1> SUFFICES ASSUME EventInv, ModelInv, [Next]_vars
             PROVE  widest' \in Nat /\ widest <= widest'
  OBVIOUS
<1>1. ASSUME NEW s \in Sources, ShowModel(s)
      PROVE  widest' \in Nat /\ widest <= widest'
  <2> DEFINE n == event[s].layers
  <2>1. n \in Nat /\ widest' = Most(widest, n)
    BY <1>1, NewModel
  <2> HIDE DEF n
  <2> QED
    BY <2>1 DEF ModelInv, Most
<1>2. CASE widest' = widest
  BY <1>2 DEF ModelInv
<1> QED
  BY <1>1, <1>2, ModelSteps DEF BeginProbe, Probe, Still, Untouched

-----------------------------------------------------------------------------
(* The cursor of the topology.                                             *)

\* Who writes the topology cursor.
LEMMA CursorSteps == [Next]_vars => MoveTopology \/ Probe \/ UNCHANGED topo_idx
<1> SUFFICES ASSUME [Next]_vars, ~(MoveTopology \/ Probe)
             PROVE  topo_idx' = topo_idx
  OBVIOUS
<1>1. ASSUME NEW s \in Sources, NEW e \in session.events, Push(s, e)
      PROVE  topo_idx' = topo_idx
  BY <1>1 DEF Push, cursors
<1>2. ASSUME NEW s \in Sources, OnEvent(s)
      PROVE  topo_idx' = topo_idx
  BY <1>2, EventsLeaveKeys DEF cursors
<1>3. CASE Press \/ BeginFrame \/ Proceed
  BY <1>3 DEF Press, Proceed, Still, OpenTab, CycleFocus, SelectNode, MoveStream, cursors,
       AttentionKey, ChangeHead, Pan, Resize, StepJourney, FlameKey, MoveFlame, ToggleFlame, Key,
       BeginFrame, SelectMatrix, Sync, EndFrame, BeginProbe, SelectFound
<1>4. CASE UNCHANGED vars
  BY <1>4 DEF vars, cursors
<1> QED
  BY <1>1, <1>2, <1>3, <1>4 DEF Next

\* A wider model has room for the cursor of a narrower one.
LEMMA StillBelow ==
  ASSUME NEW a \in Nat, NEW b \in Nat, a <= b, NEW i \in Nat, i <= 3 * a + 2
  PROVE  i <= 3 * b + 2
OBVIOUS

CursorInv == topo_idx \in Nat /\ topo_idx <= 3 * widest + 2

\* The cursor stays below the nodes of the widest model.
LEMMA CursorStep == EventInv /\ ModelInv /\ CursorInv /\ [Next]_vars => CursorInv'
<1> SUFFICES ASSUME EventInv, ModelInv, CursorInv, [Next]_vars
             PROVE  CursorInv'
  OBVIOUS
<1>1. widest \in Nat /\ widest' \in Nat /\ widest <= widest'
  BY WidestGrows DEF ModelInv
<1>2. CASE MoveTopology
  <2>1. model \in Nat /\ model <= widest /\ widest' = widest
    BY <1>2 DEF ModelInv, MoveTopology, Key, Untouched
  <2> DEFINE len == Len(TopologyNodes(model))
  <2>2. topo_idx' = Least(len - 1, topo_idx + 1) \/ topo_idx' = Most(0, topo_idx - 1)
    BY <1>2 DEF MoveTopology, Down, Up
  <2>3. len = 3 * model + 3
    BY <2>1, NodeCount
  <2>4. topo_idx \in Nat /\ topo_idx <= 3 * widest + 2
    BY DEF CursorInv
  <2> HIDE DEF len
  <2>5. len \in Nat /\ len >= 1 /\ len - 1 <= 3 * widest + 2
    BY <1>1, <2>1, <2>3
  <2>6. topo_idx' \in Nat /\ topo_idx' <= 3 * widest + 2
    BY <1>1, <2>2, <2>4, <2>5 DEF Least, Most
  <2> QED
    BY <2>1, <2>6 DEF CursorInv
<1>3. CASE Probe
  <2> DEFINE n == probe.layers
  <2>1. n \in Nat /\ n <= widest /\ probe.at \in Nat /\ probe.at >= 1
    BY DEF ModelInv, Probes
  <2>2. Len(TopologyNodes(n)) = 3 * n + 3
    BY <2>1, NodeCount
  <2>3. topo_idx' = topo_idx \/ (topo_idx' = probe.at - 1 /\ probe.at <= 3 * n + 3)
    <3> HIDE DEF n
    <3>1. CASE probe.at > Len(TopologyNodes(n))
      BY <1>3, <3>1 DEF Probe, n
    <3>2. CASE ~(probe.at > Len(TopologyNodes(n)))
      <4>1. probe.at <= 3 * n + 3
        BY <2>1, <2>2, <3>2
      <4>2. topo_idx' = topo_idx \/ topo_idx' = probe.at - 1
        BY <1>3, <3>2 DEF Probe, Index, n
      <4> QED
        BY <4>1, <4>2
    <3> QED
      BY <3>1, <3>2
  <2> HIDE DEF n
  <2> QED
    BY <1>1, <2>1, <2>3 DEF CursorInv
<1>4. CASE topo_idx' = topo_idx
  <2>1. topo_idx \in Nat /\ topo_idx <= 3 * widest + 2
    BY DEF CursorInv
  <2>3. topo_idx <= 3 * widest' + 2
    BY <1>1, <2>1, StillBelow
  <2> QED
    BY <1>4, <2>1, <2>3 DEF CursorInv
<1>5. MoveTopology \/ Probe \/ topo_idx' = topo_idx
  BY CursorSteps
<1> QED
  BY <1>2, <1>3, <1>4, <1>5

\* For models of any size that come and go in any order between the keys, the
\* topology cursor stays on a node of the widest of them (dashboard.cpp:222-227 and
\* 307-316).
THEOREM TopologyCursorStaysInRange == Spec => []TopologyCursorBound
<1> DEFINE Inv == EventInv /\ ModelInv /\ CursorInv
<1>1. Init => Inv
  <2> SUFFICES ASSUME Init PROVE Inv
    OBVIOUS
  <2>1. EventInv /\ CursorInv
    BY DEF Init, EventInv, CursorInv
  <2>2. ModelInv
    BY DEF Init, ModelInv, Probes
  <2> QED
    BY <2>1, <2>2
<1>2. Inv /\ [Next]_vars => Inv'
  BY EventStep, ModelStep, CursorStep
<1>3. Inv => TopologyCursorBound
  <2> SUFFICES ASSUME Inv PROVE TopologyCursorBound
    OBVIOUS
  <2>1. widest \in Nat /\ topo_idx \in Nat /\ topo_idx <= 3 * widest + 2
    BY DEF ModelInv, CursorInv
  <2>2. Len(TopologyNodes(widest)) = 3 * widest + 3
    BY <2>1, NodeCount
  <2> QED
    BY <2>1, <2>2 DEF TopologyCursorBound
<1> HIDE DEF Inv
<1> QED
  BY <1>1, <1>2, <1>3, PTL DEF Spec

-----------------------------------------------------------------------------
(* The matrix and the part of it that is shown.                            *)

MatrixInv ==
  /\ DOMAIN latest = AttentionLayers
  /\ \A p \in AttentionLayers : latest[p] # None =>
       latest[p].heads \in Nat /\ latest[p].matrices \in Nat /\ latest[p].layer = p

\* The ring keeps the matrix of a layer under that layer.
LEMMA MatrixStep == EventInv /\ MatrixInv /\ [Next]_vars => MatrixInv'
<1> SUFFICES ASSUME EventInv, MatrixInv, [Next]_vars
             PROVE  MatrixInv'
  OBVIOUS
<1>1. ASSUME NEW s \in Sources, NEW e \in session.events, Push(s, e)
      PROVE  MatrixInv'
  <2>1. CASE e.type = "attention_weights"
    <3>1. latest' = [latest EXCEPT ![e.layer] = e]
      BY <1>1, <2>1 DEF Push, Ring!Replace
    <3>2. e.heads \in Nat /\ e.matrices \in Nat
      BY <2>1, SessionAssumption DEF EventInv
    <3> QED
      BY <3>1, <3>2 DEF MatrixInv
  <2>2. CASE e.type # "attention_weights"
    BY <1>1, <2>2 DEF Push, Ring!Record, MatrixInv
  <2> QED
    BY <2>1, <2>2
<1>2. ASSUME NEW s \in Sources, OnEvent(s)
      PROVE  MatrixInv'
  BY <1>2, EventsLeaveKeys DEF MatrixInv
<1>3. CASE Press \/ BeginFrame \/ Proceed
  BY <1>3, KeysLeaveTelemetry DEF MatrixInv, telemetry
<1>4. CASE UNCHANGED vars
  BY <1>4 DEF MatrixInv, vars, telemetry
<1> QED
  BY <1>1, <1>2, <1>3, <1>4 DEF Next

\* The head is one of those announced, or the first.
HeadInv ==
  /\ active # None => active.heads \in Nat /\ active.matrices \in Nat
  /\ attn_head \in Nat
  /\ attn_head = 0 \/ (active # None /\ attn_head < active.heads)

\* Who writes the view of the matrix.
LEMMA AttentionSteps ==
  [Next]_vars => \/ SelectMatrix \/ ChangeHead \/ Pan \/ Resize
                 \/ UNCHANGED <<active, attn_head, pan, viewport>>
<1> SUFFICES ASSUME [Next]_vars, ~(SelectMatrix \/ ChangeHead \/ Pan \/ Resize)
             PROVE  UNCHANGED attention
  BY DEF attention
<1>1. ASSUME NEW s \in Sources, NEW e \in session.events, Push(s, e)
      PROVE  UNCHANGED attention
  BY <1>1 DEF Push
<1>2. ASSUME NEW s \in Sources, OnEvent(s)
      PROVE  UNCHANGED attention
  BY <1>2, EventsLeaveKeys
<1>3. CASE Press \/ BeginFrame \/ Proceed
  BY <1>3 DEF Press, Proceed, Still, OpenTab, CycleFocus, MoveTopology, SelectNode, MoveStream,
       StepJourney, FlameKey, MoveFlame, ToggleFlame, Key, attention,
       BeginFrame, Sync, EndFrame, BeginProbe, Probe, SelectFound
<1>4. CASE UNCHANGED vars
  BY <1>4 DEF vars
<1> QED
  BY <1>1, <1>2, <1>3, <1>4 DEF Next

\* The head stays one of those announced by the packet shown.
LEMMA HeadStep == MatrixInv /\ HeadInv /\ [Next]_vars => HeadInv'
<1> SUFFICES ASSUME MatrixInv, HeadInv, [Next]_vars
             PROVE  HeadInv'
  OBVIOUS
<1>1. CASE SelectMatrix
  <2>1. CASE HasMatrix(picked)
    <3>1. active' = latest[picked] /\ attn_head' = 0 /\ picked \in AttentionLayers
      BY <1>1, <2>1 DEF SelectMatrix, FirstHead, HasMatrix
    <3>2. active' # None => active'.heads \in Nat /\ active'.matrices \in Nat
      BY <3>1 DEF MatrixInv
    <3> QED
      BY <3>1, <3>2 DEF HeadInv
  <2>2. CASE ~HasMatrix(picked)
    BY <1>1, <2>2 DEF SelectMatrix, HeadInv
  <2> QED
    BY <2>1, <2>2
<1>2. CASE ChangeHead
  BY <1>2 DEF ChangeHead, AttentionKey, HeadInv, Up, Down, Least, Most
<1>3. CASE Pan \/ Resize \/ UNCHANGED <<active, attn_head>>
  BY <1>3 DEF Pan, Resize, AttentionKey, HeadInv
<1>4. SelectMatrix \/ ChangeHead \/ Pan \/ Resize \/ UNCHANGED <<active, attn_head>>
  BY AttentionSteps
<1> QED
  BY <1>1, <1>2, <1>3, <1>4

\* For any packets, in any order between the keys: if the one that is shown has a
\* matrix for each head it announces, the panel has one to draw for the head that
\* the keys have reached (dashboard.cpp:85-91 and 253, panels.cpp:167-168).
THEOREM ReachableHeadsAreDrawn == Spec => []HeadIsDrawn
<1> DEFINE Inv == EventInv /\ MatrixInv /\ HeadInv
<1>1. Init => Inv
  <2> SUFFICES ASSUME Init PROVE Inv
    OBVIOUS
  <2>1. EventInv /\ HeadInv
    BY DEF Init, EventInv, HeadInv
  <2>2. MatrixInv
    BY DEF Init, MatrixInv
  <2> QED
    BY <2>1, <2>2
<1>2. Inv /\ [Next]_vars => Inv'
  BY EventStep, MatrixStep, HeadStep
<1>3. Inv => HeadIsDrawn
  BY DEF HeadInv, HeadIsDrawn, DrawsHead
<1> HIDE DEF Inv
<1> QED
  BY <1>1, <1>2, <1>3, PTL DEF Spec

ViewInv == viewport \in Nat /\ pan \in Nat

\* Panning and zooming stay inside their limits.
LEMMA ViewStep == ViewInv /\ [Next]_vars => ViewInv'
<1> SUFFICES ASSUME ViewInv, [Next]_vars
             PROVE  ViewInv'
  OBVIOUS
<1>1. CASE SelectMatrix \/ ChangeHead \/ UNCHANGED <<pan, viewport>>
  BY <1>1 DEF SelectMatrix, ChangeHead, AttentionKey, ViewInv
<1>2. CASE Pan \/ Resize
  BY <1>2, ViewAssumption DEF Pan, Resize, AttentionKey, ViewInv, Up, Least, Most
<1>3. SelectMatrix \/ ChangeHead \/ Pan \/ Resize \/ UNCHANGED <<pan, viewport>>
  BY AttentionSteps
<1> QED
  BY <1>1, <1>2, <1>3

\* A window of any size, panned anywhere, fits into the matrix.
LEMMA WindowFits ==
  ASSUME NEW n \in Nat, NEW p \in Nat, NEW vp \in Nat
  PROVE  /\ 0 <= ViewStart(n, p, vp) /\ ViewEnd(n, p, vp) <= n
         /\ ViewEnd(n, p, vp) - ViewStart(n, p, vp) = Least(n, vp)
BY DEF ViewStart, ViewEnd, Least, Most

\* For a matrix, a viewport and a pan of any size the window lies inside the matrix
\* and is as large as fits (dashboard.cpp:246-255, panels.cpp:175-181).
THEOREM ViewAlwaysInMatrix == Spec => []ViewInMatrix
<1>1. Init => ViewInv
  BY ViewAssumption DEF Init, ViewInv
<1>2. ViewInv /\ [Next]_vars => ViewInv'
  BY ViewStep
<1>3. ViewInv => ViewInMatrix
  <2> SUFFICES ASSUME ViewInv, NEW n \in 1 .. MaxTokens
               PROVE  /\ 0 <= ViewStart(n, pan, viewport) /\ ViewEnd(n, pan, viewport) <= n
                      /\ ViewEnd(n, pan, viewport) - ViewStart(n, pan, viewport) = Least(n, viewport)
    BY DEF ViewInMatrix
  <2> QED
    BY WindowFits, ViewAssumption DEF ViewInv
<1> QED
  BY <1>1, <1>2, <1>3, PTL DEF Spec

-----------------------------------------------------------------------------
(* The selection.                                                          *)

\* A source that has replaced a selection is not about to do so again: its next
\* trace finds the inspector taken, or it finds it empty and the count starts anew.
LateInv == \A s \in overwrote : s \in Sources /\ s \notin following

\* A test that lets a trace through finds the inspector empty, and an assignment
\* ends what the test began.
LEMMA LateStep == LateInv /\ [Next]_vars => LateInv'
<1> SUFFICES ASSUME LateInv, [Next]_vars
             PROVE  LateInv'
  OBVIOUS
<1>1. ASSUME NEW s \in Sources, NEW e \in session.events, Push(s, e)
      PROVE  LateInv'
  BY <1>1 DEF Push, LateInv
<1>2. ASSUME NEW s \in Sources, TestTrace(s)
      PROVE  LateInv'
  <2>1. CASE Follows
    BY <1>2, <2>1 DEF TestTrace, Follows, LateInv
  <2>2. CASE ~Follows
    BY <1>2, <2>2 DEF TestTrace, Leave, LateInv
  <2> QED
    BY <2>1, <2>2
<1>3. ASSUME NEW s \in Sources, ShowTrace(s)
      PROVE  LateInv'
  BY <1>3 DEF ShowTrace, Leave, LateInv
<1>4. ASSUME NEW s \in Sources, ShowModel(s) \/ ShowNothing(s)
      PROVE  LateInv'
  BY <1>4 DEF ShowModel, ShowNothing, Leave, history, LateInv
<1>5. CASE Press \/ BeginFrame \/ Proceed
  BY <1>5, KeysLeaveTelemetry DEF telemetry, LateInv
<1>6. CASE UNCHANGED vars
  BY <1>6 DEF vars, telemetry, history, LateInv
<1> QED
  BY <1>1, <1>2, <1>3, <1>4, <1>5, <1>6 DEF Next, OnEvent

\* What is selected changes in an assignment of a source that has not yet replaced
\* a selection, or by a key.
LEMMA OnceStep ==
  LateInv /\ [Next]_vars => [\A s \in overwrote : selected' # selected => UNCHANGED event[s]]_vars
<1> SUFFICES ASSUME LateInv, Next, NEW r \in overwrote, selected' # selected
             PROVE  event'[r] = event[r]
  BY DEF vars
<1>1. ASSUME NEW s \in Sources, NEW e \in session.events, Push(s, e)
      PROVE  FALSE
  BY <1>1 DEF Push, inspector
<1>2. ASSUME NEW s \in Sources, OnEvent(s)
      PROVE  event'[r] = event[r]
  <2>1. ShowTrace(s)
    BY <1>2 DEF OnEvent, TestTrace, ShowModel, ShowNothing, inspector
  <2>2. s # r /\ event' = [event EXCEPT ![s] = None]
    BY <2>1 DEF ShowTrace, Leave, LateInv
  <2> QED
    BY <2>2
<1>3. CASE Press \/ BeginFrame \/ Proceed
  BY <1>3, KeysLeaveTelemetry DEF telemetry
<1> QED
  BY <1>1, <1>2, <1>3 DEF Next

\* However many sources there are, whatever they send, and between whichever keys
\* and steps of on_event(): a source takes a selection away with the trace that had
\* passed the test when the selection was made, and not again until a trace has
\* found the inspector empty, which none does while something is selected
\* (dashboard.cpp:64-69).
THEOREM SelectionIsTakenOnce == Spec => OneLateTracePerSource
<1>1. Init => LateInv
  BY DEF Init, LateInv
<1>2. LateInv /\ [Next]_vars => LateInv'
  BY LateStep
<1>3. LateInv /\ [Next]_vars => [\A s \in overwrote : selected' # selected => UNCHANGED event[s]]_vars
  BY OnceStep
<1> QED
  BY <1>1, <1>2, <1>3, PTL DEF Spec, OneLateTracePerSource

-----------------------------------------------------------------------------
(* The snapshot.                                                           *)

Nodes == TopologyNodes(probe.layers)

\* The node that snapshot() found, by its place in the model it read.
IsFound == probe.at <= Len(Nodes) /\ HasMatrix(Nodes[probe.at])

Smaller == probe.fewest < probe.layers

\* What snapshot() has found is what select_topology_node() picks and then shows,
\* unless a smaller model came between.
SnapshotInv ==
  Snapshot =>
    /\ ui \in {"settle", "probe", "found", "select", "drawing", "done"}
    /\ ui # "settle" => probe.fewest <= model
    /\ ui = "found" => IsFound /\ topo_idx = probe.at - 1
    /\ ui = "select" => IsFound /\ (picked = Nodes[probe.at] \/ Smaller)
    /\ ui = "drawing" => SnapshotShowsMatrix

\* A matrix is replaced, never taken back.
LEMMA MatricesStay ==
  EventInv /\ MatrixInv /\ [Next]_vars
    => \A p \in AttentionLayers : latest[p] # None => latest'[p] # None
<1> SUFFICES ASSUME EventInv, MatrixInv, [Next]_vars, NEW p \in AttentionLayers, latest[p] # None
             PROVE  latest'[p] # None
  OBVIOUS
<1>1. ASSUME NEW s \in Sources, NEW e \in session.events, Push(s, e)
      PROVE  latest'[p] # None
  <2>1. e # None
    BY SessionAssumption DEF EventInv
  <2> QED
    BY <1>1, <2>1 DEF Push, Ring!Replace, Ring!Record, MatrixInv
<1>2. ASSUME NEW s \in Sources, OnEvent(s)
      PROVE  latest'[p] # None
  BY <1>2, EventsLeaveKeys
<1>3. CASE Press \/ BeginFrame \/ Proceed
  BY <1>3, KeysLeaveTelemetry DEF telemetry
<1>4. CASE UNCHANGED vars
  BY <1>4 DEF vars, telemetry
<1> QED
  BY <1>1, <1>2, <1>3, <1>4 DEF Next

\* Unless it is one of the last two, a node has the same place in a larger model.
LEMMA SamePlace ==
  ASSUME NEW n \in Nat, NEW m \in Nat, n <= m, NEW k \in 1 .. 3 * n + 3,
         TopologyNodes(n)[k] \in AttentionLayers
  PROVE  TopologyNodes(m)[k] = TopologyNodes(n)[k]
<1>1. k # 3 * n + 2 /\ k # 3 * n + 3
  BY NodesOfModel, SessionAssumption
<1>2. CASE k = 1
  <2>1. TopologyNodes(n)[1] = <<"embed_tokens">> /\ TopologyNodes(m)[1] = <<"embed_tokens">>
    BY NodesOfModel
  <2> QED
    BY <1>2, <2>1
<1>3. CASE k # 1
  <2>1. k \in 2 .. 3 * n + 1 /\ k \in 2 .. 3 * m + 1
    BY <1>1, <1>3
  <2>2. TopologyNodes(n)[k] = Node(k - 2)
    BY <2>1, NodesOfModel
  <2>3. TopologyNodes(m)[k] = Node(k - 2)
    BY <2>1, NodesOfModel
  <2> QED
    BY <2>2, <2>3
<1> QED
  BY <1>2, <1>3

\* select_topology_node() picks the node that snapshot() found.
LEMMA PickedWhatWasFound ==
  ASSUME ModelInv, Snapshot, SnapshotInv, SelectFound
  PROVE  \/ ui' = "select" /\ (picked' = Nodes[probe.at] \/ Smaller)
         \/ ui' = "drawing" /\ Smaller
<1> DEFINE n == probe.layers
<1>1. /\ ui = "found" /\ n \in Nat /\ model \in Nat /\ probe.at \in Nat /\ probe.at >= 1
      /\ probe.fewest \in Nat /\ probe.fewest <= n /\ probe.fewest <= model
      /\ topo_idx = probe.at - 1
  BY DEF ModelInv, Probes, SnapshotInv, SelectFound
<1>2. /\ probe.at <= Len(TopologyNodes(n)) /\ TopologyNodes(n)[probe.at] \in AttentionLayers
  BY <1>1 DEF SnapshotInv, IsFound, HasMatrix, Nodes
<1>3. Len(TopologyNodes(n)) = 3 * n + 3
  BY <1>1, NodeCount
<1>4. Len(TopologyNodes(model)) = 3 * model + 3
  BY <1>1, NodeCount
<1>5. CASE PickNode
  <2>1. ui' = "select" /\ picked' = TopologyNodes(model)[topo_idx + 1]
    BY <1>5 DEF PickNode
  <2>2. topo_idx + 1 = probe.at
    BY <1>1
  <2>3. ASSUME ~(probe.fewest < n)
        PROVE  picked' = TopologyNodes(n)[probe.at]
    <3>1. n <= model
      BY <1>1, <2>3
    <3>2. probe.at \in 1 .. 3 * n + 3
      BY <1>1, <1>2, <1>3
    <3>3. TopologyNodes(model)[probe.at] = TopologyNodes(n)[probe.at]
      BY <1>1, <1>2, <3>1, <3>2, SamePlace
    <3> QED
      BY <2>1, <2>2, <3>3
  <2> QED
    BY <2>1, <2>3 DEF Nodes, Smaller
<1>6. CASE ~PickNode
  <2>1. ui' = "drawing" /\ topo_idx >= Len(TopologyNodes(model))
    BY <1>6 DEF SelectFound
  <2>2. probe.fewest < n
    <3> DEFINE a == Len(TopologyNodes(n))
               b == Len(TopologyNodes(model))
    <3>1. a = 3 * n + 3 /\ b = 3 * model + 3 /\ probe.at <= a /\ probe.at - 1 >= b
      BY <1>1, <1>2, <1>3, <1>4, <2>1
    <3> HIDE DEF a, b, n
    <3> QED
      BY <1>1, <3>1
  <2> QED
    BY <2>1, <2>2 DEF Smaller
<1> QED
  BY <1>5, <1>6

\* What snapshot() has found stays found.
LEMMA SnapshotStep ==
  EventInv /\ ModelInv /\ MatrixInv /\ SnapshotInv /\ [Next]_vars => SnapshotInv'
<1> SUFFICES ASSUME EventInv, ModelInv, MatrixInv, SnapshotInv, [Next]_vars, Snapshot'
             PROVE  SnapshotInv'
  BY DEF SnapshotInv
<1>1. session' = session /\ Snapshot
  <2>1. session' = session
    BY KeysLeaveTelemetry, EventsLeaveKeys DEF Next, vars, Push
  <2> QED
    BY <2>1 DEF Snapshot
<1>2. /\ ui \in {"settle", "probe", "found", "select", "drawing", "done"}
      /\ ui # "settle" => probe.fewest <= model
      /\ ui = "found" => IsFound /\ topo_idx = probe.at - 1
      /\ ui = "select" => IsFound /\ (picked = Nodes[probe.at] \/ Smaller)
      /\ ui = "drawing" => SnapshotShowsMatrix
  BY <1>1 DEF SnapshotInv
<1>3. ASSUME IsFound, probe'.at = probe.at, probe'.layers = probe.layers
      PROVE  IsFound'
  BY <1>3, MatricesStay DEF IsFound, HasMatrix, Nodes
<1>4. CASE UNCHANGED <<ui, model, probe, topo_idx, picked, active>>
  BY <1>1, <1>2, <1>3, <1>4 DEF SnapshotInv, SnapshotShowsMatrix, Smaller, Nodes, Snapshot
<1>5. ASSUME NEW s \in Sources, ShowModel(s)
      PROVE  SnapshotInv'
  <2> DEFINE n == event[s].layers
  <2>1. /\ n \in Nat /\ model' = n /\ probe' = [probe EXCEPT !.fewest = Least(@, n)]
    BY <1>5, NewModel
  <2>2. UNCHANGED <<ui, topo_idx, picked, active>>
    BY <1>5 DEF ShowModel, Leave, screen, cursors, attention
  <2> HIDE DEF n
  <2>3. /\ probe'.layers = probe.layers /\ probe'.at = probe.at
        /\ probe'.fewest = Least(probe.fewest, n)
        /\ probe.fewest \in Nat /\ probe.layers \in Nat
    BY <2>1 DEF ModelInv, Probes
  <2>4. probe'.fewest <= model' /\ (Smaller => Smaller') /\ Nodes' = Nodes
    BY <2>1, <2>3 DEF Smaller, Least, Nodes
  <2>5. ui = "drawing" => SnapshotShowsMatrix'
    BY <1>1, <1>2, <2>2, <2>3, <2>4 DEF SnapshotShowsMatrix, Smaller, Nodes
  <2> QED
    BY <1>1, <1>2, <1>3, <2>2, <2>3, <2>4, <2>5 DEF SnapshotInv
<1>6. CASE BeginProbe
  BY <1>1, <1>6 DEF BeginProbe, Still, Untouched, SnapshotInv, ModelInv
<1>7. CASE Probe
  BY <1>1, <1>2, <1>7 DEF Probe, Still, Untouched, SnapshotInv, SnapshotShowsMatrix, IsFound, Nodes,
       HasMatrix, Index, telemetry, ModelInv, Probes
<1>8. CASE SelectFound
  <2>1. UNCHANGED <<model, probe, topo_idx, latest>> /\ ui = "found"
    BY <1>8 DEF SelectFound, Untouched, cursors, telemetry
  <2> QED
    BY <1>1, <1>2, <1>3, <1>8, <2>1, PickedWhatWasFound
       DEF SnapshotInv, SnapshotShowsMatrix, Smaller, Nodes
<1>9. CASE SelectMatrix
  <2>1. UNCHANGED <<model, probe, latest>> /\ ui = "select" /\ ui' = "drawing"
    BY <1>1, <1>9 DEF SelectMatrix, Untouched, telemetry
  <2>2. CASE picked = Nodes[probe.at]
    <3>1. HasMatrix(picked) /\ active' = latest[picked]
      BY <1>2, <1>9, <2>1, <2>2 DEF SelectMatrix, IsFound
    <3>2. active' # None /\ active'.layer = picked
      BY <3>1 DEF HasMatrix, MatrixInv
    <3> QED
      BY <1>1, <1>2, <2>1, <2>2, <3>2 DEF SnapshotInv, SnapshotShowsMatrix, Nodes
  <2>3. CASE Smaller
    BY <1>1, <1>2, <2>1, <2>3 DEF SnapshotInv, SnapshotShowsMatrix, Smaller
  <2> QED
    BY <1>2, <2>1, <2>2, <2>3
<1>10. CASE EndFrame
  BY <1>1, <1>2, <1>10 DEF EndFrame, Still, Untouched, SnapshotInv
<1>11. CASE Press \/ BeginFrame \/ Sync
  BY <1>2, <1>11 DEF Press, OpenTab, CycleFocus, MoveTopology, SelectNode, MoveStream,
       AttentionKey, ChangeHead, Pan, Resize, StepJourney, FlameKey, MoveFlame, ToggleFlame, Key,
       BeginFrame, Sync
<1>12. ASSUME NEW s \in Sources, NEW e \in session.events, Push(s, e)
       PROVE  UNCHANGED <<ui, model, probe, topo_idx, picked, active>>
  BY <1>12 DEF Push, screen, inspector, cursors, attention
<1>13. ASSUME NEW s \in Sources, TestTrace(s) \/ ShowTrace(s) \/ ShowNothing(s)
       PROVE  SnapshotInv'
  <2>1. UNCHANGED <<ui, topo_idx, picked, active>>
    BY <1>13, EventsLeaveKeys DEF OnEvent, screen, cursors, attention
  <2>2. UNCHANGED <<model, probe>>
    BY <1>13 DEF TestTrace, ShowTrace, ShowNothing, inspector
  <2> QED
    BY <1>4, <2>1, <2>2
<1>14. CASE UNCHANGED vars
  BY <1>4, <1>14 DEF vars, screen, inspector, cursors, attention
<1> QED
  BY <1>4, <1>5, <1>6, <1>7, <1>8, <1>9, <1>10, <1>11, <1>12, <1>13, <1>14 DEF Next, OnEvent, Proceed

\* Whatever arrives between its steps, a snapshot that found a layer with a matrix
\* shows that layer's matrix, unless a smaller model comes (dashboard.cpp:72-91 and
\* 300-316).
THEOREM SnapshotAlwaysShowsMatrix == Spec => []SnapshotShowsMatrix
<1> DEFINE Inv == EventInv /\ ModelInv /\ MatrixInv /\ SnapshotInv
<1>1. Init => Inv
  <2> SUFFICES ASSUME Init PROVE Inv
    OBVIOUS
  <2>1. EventInv /\ SnapshotInv
    BY DEF Init, EventInv, SnapshotInv
  <2>2. ModelInv
    BY DEF Init, ModelInv, Probes
  <2>3. MatrixInv
    BY DEF Init, MatrixInv
  <2> QED
    BY <2>1, <2>2, <2>3
<1>2. Inv /\ [Next]_vars => Inv'
  BY EventStep, ModelStep, MatrixStep, SnapshotStep
<1>3. Inv => SnapshotShowsMatrix
  BY DEF SnapshotInv, SnapshotShowsMatrix
<1> HIDE DEF Inv
<1> QED
  BY <1>1, <1>2, <1>3, PTL DEF Spec

-----------------------------------------------------------------------------
(* The row of the stream.                                                  *)

\* The newest of a sequence are of the same kind.
LEMMA LastNType ==
  ASSUME NEW E, NEW s \in Seq(E), NEW n \in Nat
  PROVE  Ring!LastN(s, n) \in Seq(E)
<1>1. CASE Len(s) <= n
  BY <1>1 DEF Ring!LastN
<1>2. CASE ~(Len(s) <= n)
  <2>1. Len(s) \in Nat /\ Len(s) - n + 1 \in 1 .. Len(s) + 1 /\ \A i \in 1 .. Len(s) : s[i] \in E
    BY <1>2
  <2>2. SubSeq(s, Len(s) - n + 1, Len(s)) \in Seq(E)
    BY <2>1
  <2> QED
    BY <1>2, <2>2 DEF Ring!LastN
<1> QED
  BY <1>1, <1>2

\* The ring holds events, so that its traces have a length, and from Sync to the
\* next event or selection the inspector has the trace that many from the newest.
StreamInv ==
  /\ ring \in Seq(session.events) /\ stream_idx \in Nat
  /\ synced /\ stream_idx < Len(Traces) => selected = FromNewest(Traces).layer

\* The steps that move what the row depends on are an event for the ring, the keys of
\* the stream and Sync.
LEMMA StreamSteps ==
  [Next]_vars => \/ \E s \in Sources, e \in session.events : Push(s, e)
                 \/ MoveStream \/ Sync
                 \/ /\ UNCHANGED <<session, ring, stream_idx>>
                    /\ ~synced' \/ (synced' = synced /\ selected' = selected)
<1> SUFFICES ASSUME [Next]_vars, ~(\E s \in Sources, e \in session.events : Push(s, e)), ~MoveStream, ~Sync
             PROVE  /\ UNCHANGED <<session, ring, stream_idx>>
                    /\ ~synced' \/ (synced' = synced /\ selected' = selected)
  OBVIOUS
<1>1. ASSUME NEW s \in Sources, OnEvent(s)
      PROVE  /\ UNCHANGED <<session, ring, stream_idx>>
             /\ ~synced' \/ (synced' = synced /\ selected' = selected)
  <2>1. UNCHANGED <<session, ring, stream_idx>>
    BY <1>1, EventsLeaveKeys DEF cursors
  <2>2. ~synced' \/ (synced' = synced /\ selected' = selected)
    BY <1>1 DEF OnEvent, TestTrace, ShowTrace, ShowModel, ShowNothing, inspector, history
  <2> QED
    BY <2>1, <2>2
<1>2. CASE Press \/ BeginFrame \/ Proceed
  <2>1. UNCHANGED <<session, ring>>
    BY <1>2, KeysLeaveTelemetry DEF telemetry
  <2>2. stream_idx' = stream_idx
    BY <1>2 DEF Press, Proceed, Still, OpenTab, CycleFocus, MoveTopology, SelectNode, cursors,
         AttentionKey, ChangeHead, Pan, Resize, StepJourney, FlameKey, MoveFlame, ToggleFlame, Key,
         BeginFrame, SelectMatrix, EndFrame, BeginProbe, Probe, SelectFound
  <2>3. ~synced' \/ (synced' = synced /\ selected' = selected)
    BY <1>2 DEF Press, Proceed, Still, OpenTab, CycleFocus, MoveTopology, SelectNode, PickNode,
         AttentionKey, ChangeHead, Pan, Resize, StepJourney, FlameKey, MoveFlame, ToggleFlame, Key,
         BeginFrame, SelectMatrix, EndFrame, BeginProbe, Probe, SelectFound
  <2> QED
    BY <2>1, <2>2, <2>3
<1>3. CASE UNCHANGED vars
  BY <1>3 DEF vars, telemetry, inspector, cursors, history
<1> QED
  BY <1>1, <1>2, <1>3 DEF Next

\* StreamInv is inductive, given what the kinds of events say of a trace.
LEMMA StreamStep == EventInv /\ StreamInv /\ [Next]_vars => StreamInv'
<1> SUFFICES ASSUME EventInv, StreamInv, [Next]_vars
             PROVE  StreamInv'
  OBVIOUS
<1>1. Traces \in Seq(session.events) /\ Len(Traces) \in Nat
  <2>1. Traces \in Seq(session.events)
    BY ThoseMembers DEF Traces, TracesOf, StreamInv
  <2> QED
    BY <2>1
<1>2. ASSUME NEW s \in Sources, NEW e \in session.events, Push(s, e)
      PROVE  StreamInv'
  <2>1. session' = session /\ stream_idx' = stream_idx /\ ~synced'
    BY <1>2 DEF Push, cursors
  <2>2. ring' \in Seq(session.events)
    <3>1. CASE e.type = "attention_weights"
      BY <1>2, <3>1 DEF Push, Ring!Replace, StreamInv
    <3>2. CASE e.type # "attention_weights"
      <4>1. ring' = Ring!LastN(Append(ring, e), Limit)
        BY <1>2, <3>2 DEF Push, Ring!Record
      <4>2. Append(ring, e) \in Seq(session.events)
        BY DEF StreamInv
      <4> QED
        BY <4>1, <4>2, LimitAssumption, LastNType
    <3> QED
      BY <3>1, <3>2
  <2> QED
    BY <2>1, <2>2 DEF StreamInv
<1>3. CASE MoveStream
  <2>1. UNCHANGED <<session, ring>> /\ ~synced'
    BY <1>3 DEF MoveStream, Key, Untouched, telemetry
  <2>2. \/ stream_idx' = Least(Most(0, Len(Traces) - 1), stream_idx + 1)
        \/ stream_idx' = Most(0, stream_idx - 1)
    BY <1>3 DEF MoveStream, Down, Up
  <2>3. stream_idx' \in Nat
    BY <1>1, <2>2 DEF StreamInv, Least, Most
  <2> QED
    BY <2>1, <2>3 DEF StreamInv
<1>4. CASE Sync
  <2>1. UNCHANGED <<session, ring, stream_idx>>
    BY <1>4 DEF Sync, Untouched, telemetry, cursors
  <2>2. Traces' = Traces
    BY <2>1 DEF Traces
  <2>3. stream_idx < Len(Traces) => selected' = FromNewest(Traces).layer
    BY <1>4 DEF Sync
  <2>4. FromNewest(Traces)' = FromNewest(Traces)
    BY <2>1, <2>2 DEF FromNewest
  <2> QED
    BY <2>1, <2>2, <2>3, <2>4 DEF StreamInv
<1>5. CASE /\ UNCHANGED <<session, ring, stream_idx>>
           /\ ~synced' \/ (synced' = synced /\ selected' = selected)
  <2>1. Traces' = Traces
    BY <1>5 DEF Traces
  <2>2. FromNewest(Traces)' = FromNewest(Traces)
    BY <1>5, <2>1 DEF FromNewest
  <2> QED
    BY <1>5, <2>1, <2>2 DEF StreamInv
<1> QED
  BY <1>2, <1>3, <1>4, <1>5, StreamSteps

\* It holds before anything arrived.
LEMMA StreamAtStart == Init => StreamInv
<1> SUFFICES ASSUME Init PROVE StreamInv
  OBVIOUS
<1>1. ring = <<>> /\ stream_idx = 0 /\ synced = FALSE
  BY DEF Init
<1>2. <<>> \in Seq(session.events)
  OBVIOUS
<1> QED
  BY <1>1, <1>2 DEF StreamInv

\* Whatever arrives between the two reads of the ring, once they are done and until
\* the next event or selection the inspector shows the row that is highlighted,
\* which panels.cpp:138-156 counts in the other direction (dashboard.cpp:228-241).
THEOREM HighlightedRowIsInspected == Spec => []StreamRowIsInspected
<1> DEFINE Inv == EventInv /\ StreamInv
<1>1. Init => Inv
  <2> SUFFICES ASSUME Init PROVE Inv
    OBVIOUS
  <2>1. EventInv
    BY DEF Init, EventInv
  <2> QED
    BY <2>1, StreamAtStart
<1>2. Inv /\ [Next]_vars => Inv'
  BY EventStep, StreamStep
<1>3. Inv => StreamRowIsInspected
  <2> SUFFICES ASSUME Inv, synced, stream_idx < Len(Traces)
               PROVE  StreamRow(Traces, stream_idx).layer = selected
    BY DEF StreamRowIsInspected
  <2>1. Traces \in Seq(session.events) /\ stream_idx \in Nat
    BY ThoseMembers DEF Traces, TracesOf, StreamInv
  <2>2. stream_idx + 1 \in 1 .. Len(Traces) /\ (Len(Traces) - (stream_idx + 1)) + 1 = Len(Traces) - stream_idx
    BY <2>1
  <2>3. StreamRow(Traces, stream_idx) = Traces[Len(Traces) - stream_idx]
    BY <2>2 DEF StreamRow, Reverse
  <2> QED
    BY <2>3 DEF StreamInv, FromNewest
<1> HIDE DEF Inv
<1> QED
  BY <1>1, <1>2, <1>3, PTL DEF Spec

-----------------------------------------------------------------------------
(* The token cycles.                                                       *)

NoTrace == [cycles |-> <<>>, cur |-> <<>>]
IsJourney(g, t) ==
  g = [n \in 0 .. Len(t) |-> IF n = 0 THEN NoTrace ELSE Extend(g[n - 1], t[n])]

Closed(j) == IF j.cur = <<>> THEN j.cycles ELSE Append(j.cycles, j.cur)

\* Cycles is that recursion, run to the end, and the cycle under way closed.
LEMMA CyclesAre == ASSUME NEW t PROVE Cycles(t) = Closed((CHOOSE g : IsJourney(g, t))[Len(t)])
BY Zenon DEF Cycles, IsJourney, NoTrace, Closed

Journeys(E) == [cycles : Seq(Seq(E)), cur : Seq(E)]

\* One more trace makes a journey of a journey.
LEMMA ExtendType ==
  ASSUME NEW E, NEW j \in Journeys(E), NEW e \in E
  PROVE  Extend(j, e) \in Journeys(E)
<1>1. j.cycles \in Seq(Seq(E)) /\ j.cur \in Seq(E) /\ j = [cycles |-> j.cycles, cur |-> j.cur]
  BY DEF Journeys
<1>2. Append(j.cycles, j.cur) \in Seq(Seq(E)) /\ <<e>> \in Seq(E) /\ Append(j.cur, e) \in Seq(E)
  BY <1>1
<1>3. CASE e.layer = <<"embed_tokens">> /\ j.cur # <<>>
  <2>1. Extend(j, e) = [cycles |-> Append(j.cycles, j.cur), cur |-> <<e>>]
    BY <1>3 DEF Extend
  <2> QED
    BY <1>2, <2>1 DEF Journeys
<1>4. CASE ~(e.layer = <<"embed_tokens">> /\ j.cur # <<>>)
  <2>1. Extend(j, e) = [j EXCEPT !.cur = Append(@, e)]
    BY <1>4 DEF Extend
  <2> QED
    BY <1>2, <2>1 DEF Journeys
<1> QED
  BY <1>3, <1>4

\* The recursion is defined for any traces.
LEMMA JourneyExists ==
  ASSUME NEW E, NEW t \in Seq(E)
  PROVE  \E g : IsJourney(g, t)
<1>1. PICK k \in Nat : k = Len(t)
  OBVIOUS
<1> DEFINE S == Journeys(E)
           F == [x \in S \X (1 .. k) |-> Extend(x[1], t[x[2]])]
<1>2. \A n \in 1 .. k : t[n] \in E
  BY <1>1
<1>3. NoTrace \in S
  BY DEF Journeys, NoTrace
<1>4. \A j \in S, n \in 1 .. k : Extend(j, t[n]) \in S
  BY <1>2, ExtendType
<1> HIDE DEF S
<1>5. F \in [S \X (1 .. k) -> S] /\ \A j \in S, n \in 1 .. k : F[<<j, n>>] = Extend(j, t[n])
  BY <1>4
<1> HIDE DEF F
<1>6. PICK g \in [0 .. k -> S] : Recursive(g, NoTrace, F, k)
  BY <1>3, <1>5, RecursionExists
<1>7. ASSUME NEW n \in 0 .. k
      PROVE  g[n] = IF n = 0 THEN NoTrace ELSE Extend(g[n - 1], t[n])
  <2>1. CASE n = 0
    BY <1>6, <2>1 DEF Recursive
  <2>2. CASE n # 0
    <3>1. n \in 1 .. k /\ n - 1 \in 0 .. k
      BY <2>2
    <3>2. g[n] = F[<<g[n - 1], n>>] /\ g[n - 1] \in S
      BY <1>6, <2>2, <3>1 DEF Recursive
    <3> QED
      BY <1>5, <2>2, <3>1, <3>2
  <2> QED
    BY <2>1, <2>2
<1>8. g = [n \in 0 .. k |-> g[n]]
  BY <1>6
<1>9. IsJourney(g, t)
  BY <1>1, <1>7, <1>8 DEF IsJourney
<1> QED
  BY <1>9

Embeds(seq) == seq[1].layer = <<"embed_tokens">>

\* After some traces: the cycles are what there is of them, one after the other, and
\* each but the first, the one under way included, begins at embed_tokens.
JourneyInv(j, seen) ==
  /\ FlattenSeq(j.cycles) \o j.cur = seen
  /\ j.cur = <<>> => j.cycles = <<>> /\ seen = <<>>
  /\ j.cycles # <<>> => Embeds(j.cur)
  /\ \A c \in 2 .. Len(j.cycles) : Embeds(j.cycles[c])

\* One more trace, in a cycle of its own or in the one under way, keeps JourneyInv.
LEMMA OneMoreTrace ==
  ASSUME NEW E, NEW j \in Journeys(E), NEW seen \in Seq(E), NEW e \in E, JourneyInv(j, seen)
  PROVE  JourneyInv(Extend(j, e), Append(seen, e))
<1>1. PICK cycles \in Seq(Seq(E)) : cycles = j.cycles
  BY DEF Journeys
<1>2. PICK cur \in Seq(E) : cur = j.cur
  BY DEF Journeys
<1>3. PICK flat \in Seq(E) : flat = FlattenSeq(cycles)
  BY FlatType
<1>4. /\ flat \o cur = seen
      /\ cur = <<>> => cycles = <<>> /\ seen = <<>>
      /\ cycles # <<>> => Embeds(cur)
      /\ \A c \in 2 .. Len(cycles) : Embeds(cycles[c])
  BY <1>1, <1>2, <1>3 DEF JourneyInv
<1>5. Append(seen, e) = (flat \o cur) \o <<e>>
  BY <1>4, AppendIsConcat
<1>6. CASE e.layer = <<"embed_tokens">> /\ cur # <<>>
  <2>1. PICK all \in Seq(Seq(E)) : all = Append(cycles, cur)
    <3>1. Append(cycles, cur) \in Seq(Seq(E))
      BY AppendProperties
    <3> QED
      BY <3>1
  <2>2. Extend(j, e) = [cycles |-> all, cur |-> <<e>>]
    BY <1>1, <1>2, <1>6, <2>1 DEF Extend
  <2>3. FlattenSeq(all) = flat \o cur
    BY <1>3, <2>1, FlatLast
  <2>4. Embeds(<<e>>) /\ <<e>> # <<>>
    BY <1>6 DEF Embeds
  <2>5. ASSUME NEW c \in 2 .. Len(all)
        PROVE  Embeds(all[c])
    <3>1. Len(all) = Len(cycles) + 1 /\ Len(cycles) \in Nat /\ all[Len(cycles) + 1] = cur
          /\ \A i \in 1 .. Len(cycles) : all[i] = cycles[i]
      BY <2>1, AppendProperties
    <3>2. CASE c \in 2 .. Len(cycles)
      BY <1>4, <3>1, <3>2
    <3>3. CASE c = Len(cycles) + 1
      <4>1. cycles # <<>>
        BY <3>3
      <4> QED
        BY <1>4, <3>1, <3>3, <4>1
    <3> QED
      BY <3>1, <3>2, <3>3
  <2> QED
    BY <1>5, <2>2, <2>3, <2>4, <2>5 DEF JourneyInv
<1>7. CASE ~(e.layer = <<"embed_tokens">> /\ cur # <<>>)
  <2>1. PICK longer \in Seq(E) : longer = Append(cur, e) /\ longer # <<>> /\ (cur # <<>> => longer[1] = cur[1])
    <3>1. Append(cur, e) \in Seq(E) /\ Append(cur, e) # <<>>
      BY AppendProperties
    <3>2. cur # <<>> => 1 \in 1 .. Len(cur)
      BY EmptySeq
    <3>3. cur # <<>> => Append(cur, e)[1] = cur[1]
      BY <3>2
    <3> QED
      BY <3>1, <3>3
  <2>2. Extend(j, e) = [cycles |-> cycles, cur |-> longer]
    <3>1. Extend(j, e) = [j EXCEPT !.cur = Append(@, e)]
      BY <1>2, <1>7 DEF Extend
    <3> QED
      BY <1>1, <1>2, <2>1, <3>1 DEF Journeys
  <2>3. flat \o longer = (flat \o cur) \o <<e>>
    <3>1. longer = cur \o <<e>> /\ <<e>> \in Seq(E)
      BY <2>1, AppendIsConcat
    <3> QED
      BY <3>1, ConcatAssociative
  <2>4. cycles # <<>> => Embeds(longer)
    BY <1>4, <2>1 DEF Embeds
  <2>5. PICK k : /\ k = Extend(j, e)
                 /\ k.cycles = cycles /\ k.cur = longer
    <3>1. PICK k : k = [cycles |-> cycles, cur |-> longer]
      OBVIOUS
    <3>2. k.cycles = cycles /\ k.cur = longer
      BY <3>1
    <3> QED
      BY <2>2, <3>1, <3>2
  <2>6. FlattenSeq(k.cycles) \o k.cur = Append(seen, e)
    BY <1>3, <1>5, <2>3, <2>5
  <2>7. JourneyInv(k, Append(seen, e))
    BY <1>4, <2>1, <2>4, <2>5, <2>6 DEF JourneyInv
  <2> QED
    BY <2>5, <2>7
<1> QED
  BY <1>6, <1>7

\* The cycles of any traces.
LEMMA CyclesOfTraces ==
  ASSUME NEW E, NEW t \in Seq(E)
  PROVE  /\ FlattenSeq(Cycles(t)) = t
         /\ \A c \in 2 .. Len(Cycles(t)) : Embeds(Cycles(t)[c])
<1>1. PICK k \in Nat : k = Len(t)
  OBVIOUS
<1>2. PICK h : IsJourney(h, t) /\ h = CHOOSE g : IsJourney(g, t)
  BY JourneyExists
<1>3. h[0] = NoTrace /\ \A n \in 1 .. k : h[n] = Extend(h[n - 1], t[n])
  <2>1. \A n \in 0 .. k : h[n] = IF n = 0 THEN NoTrace ELSE Extend(h[n - 1], t[n])
    BY <1>1, <1>2 DEF IsJourney
  <2> QED
    BY <2>1
<1> DEFINE A == {n \in 0 .. k : h[n] \in Journeys(E) /\ JourneyInv(h[n], SubSeq(t, 1, n))}
<1>4. 0 \in A
  <2>1. h[0] \in Journeys(E)
    BY <1>3 DEF NoTrace, Journeys
  <2>2. SubSeq(t, 1, 0) = <<>>
    BY SubSeqEmpty
  <2>3. FlattenSeq(<<>>) = <<>>
    BY DEF FlattenSeq
  <2>4. <<>> \o <<>> = <<>> /\ Len(<<>>) = 0 /\ 0 \in 0 .. k
    OBVIOUS
  <2>5. h[0].cycles = <<>> /\ h[0].cur = <<>>
    BY <1>3 DEF NoTrace
  <2>6. JourneyInv(h[0], <<>>)
    BY <2>3, <2>4, <2>5 DEF JourneyInv
  <2> QED
    BY <2>1, <2>2, <2>4, <2>6
<1>5. ASSUME NEW n \in 1 .. k, n - 1 \in A
      PROVE  n \in A
  <2>1. h[n - 1] \in Journeys(E) /\ JourneyInv(h[n - 1], SubSeq(t, 1, n - 1))
    BY <1>5
  <2>2. t[n] \in E /\ n \in 1 .. Len(t) /\ 1 \in 1 .. Len(t) /\ n \in 0 .. k
    BY <1>1
  <2>3. PICK seen \in Seq(E) : seen = SubSeq(t, 1, n - 1)
    <3>1. n - 1 \in Int /\ \A i \in 1 .. n - 1 : t[i] \in E
      BY <1>1
    <3>2. SubSeq(t, 1, n - 1) \in Seq(E)
      BY <3>1
    <3> QED
      BY <3>2
  <2>4. SubSeq(t, 1, n) = Append(seen, t[n])
    BY <2>2, <2>3, SubSeqRecursiveSecond, AppendIsConcat
  <2>5. h[n] = Extend(h[n - 1], t[n])
    BY <1>3
  <2>6. h[n] \in Journeys(E)
    BY <2>1, <2>2, <2>5, ExtendType
  <2>7. JourneyInv(h[n], SubSeq(t, 1, n))
    BY <2>1, <2>2, <2>3, <2>4, <2>5, OneMoreTrace
  <2> QED
    BY <2>2, <2>6, <2>7
<1> HIDE DEF A
<1>6. \A n \in 0 .. k : n \in A
  BY <1>4, <1>5, UpTo
<1>7. PICK all \in Journeys(E) : all = h[k] /\ JourneyInv(all, t)
  <2>1. k \in A
    BY <1>6
  <2>2. h[k] \in Journeys(E) /\ JourneyInv(h[k], SubSeq(t, 1, k))
    BY <2>1 DEF A
  <2>3. SubSeq(t, 1, k) = t
    BY <1>1, SubSeqFull
  <2> QED
    BY <2>2, <2>3
<1>8. Cycles(t) = IF all.cur = <<>> THEN all.cycles ELSE Append(all.cycles, all.cur)
  <2>1. all = (CHOOSE g : IsJourney(g, t))[Len(t)]
    BY <1>1, <1>2, <1>7
  <2> QED
    BY <2>1, CyclesAre DEF Closed
<1>9. PICK cycles \in Seq(Seq(E)) : cycles = all.cycles
  BY DEF Journeys
<1>10. PICK cur \in Seq(E) : cur = all.cur
  BY DEF Journeys
<1>11. CASE cur = <<>>
  <2>1. Cycles(t) = <<>> /\ t = <<>>
    BY <1>7, <1>8, <1>10, <1>11 DEF JourneyInv
  <2>2. FlattenSeq(<<>>) = <<>> /\ Len(<<>>) = 0
    BY DEF FlattenSeq
  <2> QED
    BY <2>1, <2>2
<1>12. CASE cur # <<>>
  <2>1. PICK d \in Seq(Seq(E)) : d = Append(cycles, cur) /\ d = Cycles(t)
    <3>1. Append(cycles, cur) \in Seq(Seq(E))
      BY AppendProperties
    <3> QED
      BY <1>8, <1>9, <1>10, <1>12, <3>1
  <2>2. FlattenSeq(d) = t
    BY <1>7, <1>9, <1>10, <2>1, FlatLast DEF JourneyInv
  <2>3. ASSUME NEW c \in 2 .. Len(d)
        PROVE  Embeds(d[c])
    <3>1. /\ Len(d) = Len(cycles) + 1 /\ Len(cycles) \in Nat /\ d[Len(cycles) + 1] = cur
          /\ \A i \in 1 .. Len(cycles) : d[i] = cycles[i]
      <4>1. d = Append(cycles, cur)
        BY <2>1
      <4> HIDE <2>1
      <4> QED
        BY <4>1, AppendProperties
    <3>2. CASE c \in 2 .. Len(cycles)
      BY <1>7, <1>9, <3>1, <3>2 DEF JourneyInv
    <3>3. CASE c = Len(cycles) + 1
      <4>1. cycles # <<>>
        BY <3>3
      <4> QED
        BY <1>7, <1>9, <1>10, <3>1, <3>3, <4>1 DEF JourneyInv
    <3> QED
      BY <3>1, <3>2, <3>3
  <2> QED
    BY <2>1, <2>2, <2>3
<1> QED
  BY <1>11, <1>12

\* Whatever the ring has lost or is receiving, the token cycles are all its traces,
\* each cycle but the first from an embed_tokens on (panels.cpp:404-418).
THEOREM JourneyAlwaysComplete == Spec => []JourneyComplete
<1> DEFINE Inv == EventInv /\ StreamInv
<1>1. Init => Inv
  <2> SUFFICES ASSUME Init PROVE Inv
    OBVIOUS
  <2>1. EventInv
    BY DEF Init, EventInv
  <2> QED
    BY <2>1, StreamAtStart
<1>2. Inv /\ [Next]_vars => Inv'
  BY EventStep, StreamStep
<1>3. Inv => JourneyComplete
  <2> SUFFICES ASSUME Inv PROVE JourneyComplete
    OBVIOUS
  <2>1. Traces \in Seq(session.events)
    BY ThoseMembers DEF Traces, TracesOf, StreamInv
  <2>2. /\ FlattenSeq(Cycles(Traces)) = Traces
        /\ \A c \in 2 .. Len(Cycles(Traces)) : Embeds(Cycles(Traces)[c])
    BY <2>1, CyclesOfTraces
  <2> QED
    BY <2>2 DEF JourneyComplete, Embeds
<1> HIDE DEF Inv
<1> QED
  BY <1>1, <1>2, <1>3, PTL DEF Spec

-----------------------------------------------------------------------------
(* The rows of the call tree.                                             *)

\* The rows of one layer, and of so many of them, in an open tree.
LayerRows(open, l) == <<Layer5(l)>> \o (IF Layer5(l) \in open THEN Inside(l) ELSE <<>>)
OpenRows(open, m) == [i \in 1 .. m |-> LayerRows(open, i - 1)]

\* A set that takes of the nodes of so many layers those inside open ones.
Takes(S, n, open) == \A p \in NodesOf(n) : p \in S <=> Above(p) \subseteq open

\* One layer is drawn the way the keys walk it.
LEMMA LayerShown ==
  ASSUME NEW n \in Nat, NEW l \in 0 .. n - 1, NEW S, NEW open, Takes(S, n, open), Root \in open, Block \in open
  PROVE  LayerRows(open, l) \in Seq(Paths) /\ Those(Five(l), S) = LayerRows(open, l)
<1>1. l \in Nat
  OBVIOUS
<1>2. PICK s \in Seq(Paths), t \in Seq(Paths) : s = <<Layer5(l)>> /\ t = Inside(l)
  BY <1>1, FiveIs
<1>3. ToSet(s) = {Layer5(l)} /\ ToSet(t) = {Part(l, k) : k \in 1 .. 4}
  <2>1. Layer5(l) \in Paths
    BY <1>1 DEF Paths
  <2> QED
    BY <1>1, <1>2, <2>1, SetOfOne, SetOfInside
<1>4. Layer5(l) \in S
  BY <1>1, NodesInside, AboveIs DEF Takes
<1>5. \A k \in 1 .. 4 : Part(l, k) \in S <=> Layer5(l) \in open
  BY <1>1, NodesInside, AboveIs DEF Takes
<1>6. Those(s, S) = s
  <2>1. ToSet(s) \subseteq S
    BY <1>3, <1>4
  <2> QED
    BY <2>1, ThoseAll
<1>10. Those(s \o t, S) = Those(s, S) \o Those(t, S)
  BY ThoseConcat
<1>7. Those(Five(l), S) = s \o Those(t, S)
  BY <1>2, <1>6, <1>10 DEF Five
<1>8. CASE Layer5(l) \in open
  <2>1. ToSet(t) \subseteq S
    BY <1>3, <1>5, <1>8
  <2>2. Those(t, S) = t
    BY <2>1, ThoseAll
  <2>3. s \o t \in Seq(Paths)
    BY ConcatLen
  <2> QED
    BY <1>2, <1>7, <1>8, <2>2, <2>3 DEF LayerRows
<1>9. CASE Layer5(l) \notin open
  <2>1. ToSet(t) \cap S = {}
    BY <1>3, <1>5, <1>9
  <2>2. Those(t, S) = <<>>
    BY <2>1, ThoseNone
  <2>3. s \o <<>> = s
    BY ConcatEmptySeq
  <2> QED
    BY <1>2, <1>7, <1>9, <2>2, <2>3 DEF LayerRows
<1> QED
  BY <1>8, <1>9

\* One more layer.
LEMMA RowsMore ==
  ASSUME NEW E, NEW open, NEW m \in Nat, \A l \in 0 .. m : LayerRows(open, l) \in E
  PROVE  OpenRows(open, m) \in Seq(E) /\ OpenRows(open, m + 1) = Append(OpenRows(open, m), LayerRows(open, m))
<1>1. /\ \A i \in 1 .. m : i - 1 \in 0 .. m
      /\ \A i \in 1 .. m + 1 : i - 1 \in 0 .. m
  OBVIOUS
<1>2. OpenRows(open, m) \in [1 .. m -> E] /\ \A i \in 1 .. m : OpenRows(open, m)[i] = LayerRows(open, i - 1)
  BY <1>1 DEF OpenRows
<1>3. /\ OpenRows(open, m + 1) \in [1 .. m + 1 -> E]
      /\ \A i \in 1 .. m + 1 : OpenRows(open, m + 1)[i] = LayerRows(open, i - 1)
  BY <1>1 DEF OpenRows
<1>4. PICK s \in Seq(E) : s = OpenRows(open, m) /\ Len(s) = m
  BY <1>2, FunctionIsSeq
<1>5. PICK r \in Seq(E) : r = OpenRows(open, m + 1) /\ Len(r) = m + 1
  <2>1. m + 1 \in Nat
    OBVIOUS
  <2> QED
    BY <1>3, <2>1, FunctionIsSeq
<1>6. PICK x \in E : x = LayerRows(open, m)
  OBVIOUS
<1>7. PICK q \in Seq(E) : q = Append(s, x) /\ Len(q) = m + 1 /\ q[m + 1] = x /\ \A i \in 1 .. m : q[i] = s[i]
  <2>1. Append(s, x) \in Seq(E) /\ Len(Append(s, x)) = Len(s) + 1
    BY AppendProperties
  <2>2. Append(s, x)[Len(s) + 1] = x /\ \A i \in 1 .. Len(s) : Append(s, x)[i] = s[i]
    BY AppendProperties
  <2> QED
    BY <1>4, <2>1, <2>2
<1>8. \A i \in 1 .. m + 1 : q[i] = r[i]
  <2> SUFFICES ASSUME NEW i \in 1 .. m + 1 PROVE q[i] = r[i]
    OBVIOUS
  <2>1. CASE i = m + 1
    <3>1. i - 1 = m
      BY <2>1
    <3> QED
      BY <1>3, <1>5, <1>6, <1>7, <2>1, <3>1
  <2>2. CASE i # m + 1
    <3>1. i \in 1 .. m
      BY <2>2
    <3> QED
      BY <1>2, <1>3, <1>4, <1>5, <1>7, <3>1
  <2> QED
    BY <2>1, <2>2
<1>9. q = r
  BY <1>5, <1>7, <1>8, SeqEqual
<1> QED
  BY <1>4, <1>5, <1>6, <1>7, <1>9

\* The layers are drawn the way the keys walk them.
LEMMA LayersShown ==
  ASSUME NEW n \in Nat, NEW S, NEW open, Takes(S, n, open), Root \in open, Block \in open
  PROVE  Those(Middle(n), S) = FlattenSeq(OpenRows(open, n))
<1> DEFINE A == {m \in 0 .. n : Those(Middle(m), S) = FlattenSeq(OpenRows(open, m))}
<1>1. 0 \in A
  <2>1. Middle(0) = <<>> /\ OpenRows(open, 0) = <<>>
    BY DEF Middle, OpenRows
  <2>2. FlattenSeq(<<>>) = <<>>
    BY DEF FlattenSeq
  <2> QED
    BY <2>1, <2>2, ThoseEmpty
<1>2. ASSUME NEW m \in 1 .. n, m - 1 \in A
      PROVE  m \in A
  <2>1. PICK l \in 0 .. n - 1 : l = m - 1 /\ l \in Nat /\ l + 1 = m
    OBVIOUS
  <2>2. Middle(m) = Middle(l) \o Five(l)
    BY <2>1, FiveMore
  <2>3. Middle(l) \in Seq(Paths) /\ Five(l) \in Seq(Paths)
    BY <2>1, FlameNodesAre, FiveIs
  <2>4. Those(Middle(m), S) = Those(Middle(l), S) \o Those(Five(l), S)
    BY <2>2, <2>3, ThoseConcat
  <2>5. Those(Five(l), S) = LayerRows(open, l)
    BY LayerShown
  <2>6. Those(Middle(l), S) = FlattenSeq(OpenRows(open, l))
    BY <1>2, <2>1
  <2>7. \A j \in 0 .. l : LayerRows(open, j) \in Seq(Paths)
    <3>1. \A j \in 0 .. l : j \in 0 .. n - 1
      BY <2>1
    <3> QED
      BY <3>1, LayerShown
  <2>8. OpenRows(open, l) \in Seq(Seq(Paths)) /\ OpenRows(open, m) = Append(OpenRows(open, l), LayerRows(open, l))
    BY <2>1, <2>7, RowsMore
  <2>9. LayerRows(open, l) \in Seq(Paths)
    BY <2>1, <2>7
  <2>10. FlattenSeq(OpenRows(open, m)) = FlattenSeq(OpenRows(open, l)) \o LayerRows(open, l)
    BY <2>8, <2>9, FlatLast
  <2>11. m \in 0 .. n
    OBVIOUS
  <2> QED
    BY <2>4, <2>5, <2>6, <2>10, <2>11
<1> HIDE DEF A
<1>3. \A m \in 0 .. n : m \in A
  BY <1>1, <1>2, UpTo
<1>4. n \in A
  BY <1>3
<1> QED
  BY <1>4 DEF A

Pair == <<Embed, Block>>

\* Three elements, the first of them apart.
LEMMA FirstOfThree ==
  ASSUME NEW E, NEW a \in E, NEW b \in E, NEW c \in E
  PROVE  <<a>> \in Seq(E) /\ <<b, c>> \in Seq(E) /\ <<a, b, c>> = <<a>> \o <<b, c>>
<1>1. <<a>> \in Seq(E) /\ <<b, c>> \in Seq(E) /\ <<a, b, c>> \in Seq(E)
  OBVIOUS
<1>2. PICK s \in Seq(E), t \in Seq(E), u \in Seq(E) : s = <<a>> /\ t = <<b, c>> /\ u = <<a, b, c>>
  BY <1>1
<1>3. /\ Len(s) = 1 /\ Len(t) = 2 /\ Len(u) = 3
      /\ s[1] = a /\ t[1] = b /\ t[2] = c /\ u[1] = a /\ u[2] = b /\ u[3] = c
  BY <1>2
<1>4. PICK r \in Seq(E) : r = s \o t
  BY ConcatLen
<1>5. Len(r) = 3 /\ r[1] = a /\ r[2] = b /\ r[3] = c
  <2>1. Len(s \o t) = Len(s) + Len(t)
    BY ConcatLen
  <2>2. \A k \in 1 .. Len(s) : (s \o t)[k] = s[k]
    BY ConcatLeft
  <2>3. \A k \in 1 .. Len(t) : (s \o t)[Len(s) + k] = t[k]
    BY ConcatRight
  <2>4. 1 \in 1 .. Len(s) /\ 1 \in 1 .. Len(t) /\ 2 \in 1 .. Len(t) /\ Len(s) + 1 = 2 /\ Len(s) + 2 = 3
    BY <1>3
  <2> QED
    BY <1>3, <1>4, <2>1, <2>2, <2>3, <2>4
<1>6. r = u
  BY <1>3, <1>5, SeqEqual
<1> QED
  BY <1>1, <1>2, <1>4, <1>6

\* The call tree, in the parts that open and close together.
LEMMA TreeParts ==
  ASSUME NEW n \in Nat
  PROVE  /\ FlameNodes(n) = ((<<Root>> \o Pair) \o Middle(n)) \o Bottom
         /\ <<Root>> \in Seq(Paths) /\ Pair \in Seq(Paths)
         /\ Middle(n) \in Seq(Paths) /\ Bottom \in Seq(Paths)
         /\ ToSet(<<Root>>) = {Root} /\ ToSet(Pair) = {Embed, Block}
         /\ ToSet(Bottom) = {<<"norm">>, <<"lm_head">>}
         /\ ToSet(Middle(n)) = {FlameNode(i) : i \in 0 .. 5 * n - 1}
<1>1. Root \in Paths /\ Embed \in Paths /\ Block \in Paths
  BY DEF Paths
<1>2. <<Root>> \in Seq(Paths) /\ Pair \in Seq(Paths) /\ Top = <<Root>> \o Pair
  BY <1>1, FirstOfThree DEF Top, Pair
<1>3. ToSet(<<Root>>) = {Root}
  BY <1>1, SetOfOne
<1>4. ToSet(Pair) = {Embed, Block}
  <2>1. PICK s \in Seq(Paths) : s = Pair
    BY <1>2
  <2>2. Len(s) = 2 /\ s[1] = Embed /\ s[2] = Block
    BY <2>1 DEF Pair
  <2>3. ToSet(s) = {s[i] : i \in 1 .. 2}
    BY <2>2, MembersOf
  <2>4. ToSet(s) = {s[1], s[2]}
    BY <2>3
  <2> QED
    BY <2>1, <2>2, <2>4
<1> QED
  BY <1>2, <1>3, <1>4, FlameNodesAre, PartSets

\* What is taken of the call tree, part by part.
LEMMA TakenParts ==
  ASSUME NEW n \in Nat, NEW S
  PROVE  Those(FlameNodes(n), S)
           = ((Those(<<Root>>, S) \o Those(Pair, S)) \o Those(Middle(n), S)) \o Those(Bottom, S)
<1>4. PICK E : E = Paths
  OBVIOUS
<1>1. PICK r \in Seq(E), p \in Seq(E), m \in Seq(E), b \in Seq(E) :
        r = <<Root>> /\ p = Pair /\ m = Middle(n) /\ b = Bottom
  BY <1>4, TreeParts
<1>2. FlameNodes(n) = ((r \o p) \o m) \o b
  BY <1>1, TreeParts
<1>3. PICK x \in Seq(E), y \in Seq(E) : x = r \o p /\ y = x \o m
  <2>1. PICK x \in Seq(E) : x = r \o p
    BY ConcatLen
  <2>2. PICK y \in Seq(E) : y = x \o m
    BY ConcatLen
  <2> QED
    BY <2>1, <2>2
<1>5. Those(y \o b, S) = Those(y, S) \o Those(b, S)
  BY ThoseConcat, SMTT(30)
<1>6. Those(x \o m, S) = Those(x, S) \o Those(m, S)
  BY ThoseConcat, SMTT(30)
<1>7. Those(r \o p, S) = Those(r, S) \o Those(p, S)
  BY ThoseConcat, SMTT(30)
<1> QED
  BY <1>1, <1>2, <1>3, <1>5, <1>6, <1>7

\* The rows of the keys, with the parts named.
LEMMA VisibleIs ==
  ASSUME NEW n \in Nat, NEW open
  PROVE  Visible(n, open) =
           <<Root>> \o IF Root \in open
                       THEN (Pair \o (IF Block \in open THEN FlattenSeq(OpenRows(open, n)) ELSE <<>>)) \o Bottom
                       ELSE <<>>
BY DEF Visible, OpenRows, LayerRows, Inside, Layer5, Part, Pair, Embed, Bottom

\* The keys walk the rows that are drawn, whatever is open.
LEMMA SameRows ==
  ASSUME NEW n \in Nat, NEW open
  PROVE  /\ Visible(n, open) = FlameRows(n, open)
         /\ FlameRows(n, open) \in Seq(Paths)
         /\ ToSet(FlameRows(n, open)) = {p \in NodesOf(n) : Above(p) \subseteq open}
<1> DEFINE S == {p \in NodesOf(n) : Above(p) \subseteq open}
<1>1. FlameNodes(n) \in Seq(Paths) /\ ToSet(FlameNodes(n)) = NodesOf(n)
  BY FlameNodeSet
<1>2. FlameRows(n, open) = Those(FlameNodes(n), S)
  BY <1>1 DEF FlameRows
<1>3. Takes(S, n, open) /\ S \subseteq NodesOf(n)
  BY DEF Takes
<1> HIDE DEF S
<1>4. FlameRows(n, open) \in Seq(Paths) /\ ToSet(FlameRows(n, open)) = NodesOf(n) \cap S
  BY <1>1, <1>2, ThoseMembers
<1>5. PICK r \in Seq(Paths), p \in Seq(Paths), m \in Seq(Paths), b \in Seq(Paths) :
        r = <<Root>> /\ p = Pair /\ m = Middle(n) /\ b = Bottom
  BY TreeParts
<1>6. /\ ToSet(r) = {Root} /\ ToSet(p) = {Embed, Block}
      /\ ToSet(b) = {<<"norm">>, <<"lm_head">>}
      /\ ToSet(m) = {FlameNode(i) : i \in 0 .. 5 * n - 1}
  BY <1>5, TreeParts
<1>7. ToSet(r) \cup ToSet(p) \cup ToSet(b) \cup ToSet(m) \subseteq NodesOf(n)
  BY <1>6 DEF NodesOf
<1>8. Those(FlameNodes(n), S) = ((Those(r, S) \o Those(p, S)) \o Those(m, S)) \o Those(b, S)
  BY <1>5, TakenParts
<1>9. Those(r, S) = r
  <2>1. Root \in S
    BY <1>3, <1>6, <1>7, AboveIs DEF Takes
  <2>2. ToSet(r) \subseteq S
    BY <1>6, <2>1
  <2> QED
    BY <2>2, ThoseAll
<1>10. r \o <<>> = r
  BY ConcatEmptySeq
<1>11. CASE Root \notin open
  <2>1. \A x \in ToSet(p) \cup ToSet(b) \cup ToSet(m) : x \notin S
    <3>1. ASSUME NEW i \in 0 .. 5 * n - 1 PROVE Root \in Above(FlameNode(i))
      BY AboveNode
    <3>2. \A x \in ToSet(p) \cup ToSet(b) : Root \in Above(x)
      BY <1>6, AboveIs
    <3>3. \A x \in ToSet(p) \cup ToSet(b) \cup ToSet(m) : Root \in Above(x)
      BY <1>6, <3>1, <3>2
    <3> QED
      BY <1>3, <1>7, <1>11, <3>3 DEF Takes
  <2>2. Those(p, S) = <<>> /\ Those(m, S) = <<>> /\ Those(b, S) = <<>>
    <3>1. ToSet(p) \cap S = {} /\ ToSet(m) \cap S = {} /\ ToSet(b) \cap S = {}
      BY <2>1
    <3> QED
      BY <3>1, ThoseNone
  <2>3. FlameRows(n, open) = r
    BY <1>2, <1>8, <1>9, <1>10, <2>2
  <2>4. Visible(n, open) = r
    BY <1>5, <1>10, <1>11, VisibleIs
  <2> QED
    BY <1>3, <1>4, <2>3, <2>4 DEF S
<1>12. ASSUME Root \in open
       PROVE  Those(p, S) = p /\ Those(b, S) = b
  <2>1. \A x \in ToSet(p) \cup ToSet(b) : Above(x) = {Root}
    BY <1>6, AboveIs
  <2>2. ToSet(p) \subseteq S /\ ToSet(b) \subseteq S
    BY <1>3, <1>7, <1>12, <2>1 DEF Takes
  <2> QED
    BY <2>2, ThoseAll
<1>13. ASSUME NEW f \in Seq(Paths)
       PROVE  ((r \o p) \o f) \o b = r \o ((p \o f) \o b)
  <2>1. PICK x \in Seq(Paths) : x = p \o f
    BY ConcatLen
  <2>2. (r \o p) \o f = r \o (p \o f)
    BY ConcatAssociative
  <2>3. (r \o x) \o b = r \o (x \o b)
    BY ConcatAssociative
  <2> QED
    BY <2>1, <2>2, <2>3
<1>14. PICK f \in Seq(Paths) : f = Those(m, S)
  BY ThoseMembers
<1>15. ASSUME Root \in open
       PROVE  FlameRows(n, open) = r \o ((p \o f) \o b)
  <2>1. FlameRows(n, open) = ((r \o p) \o f) \o b
    BY <1>2, <1>8, <1>9, <1>12, <1>14, <1>15
  <2> QED
    BY <1>13, <2>1
<1>16. CASE Root \in open /\ Block \notin open
  <2>1. \A x \in ToSet(m) : x \notin S
    <3>1. ASSUME NEW i \in 0 .. 5 * n - 1 PROVE Block \in Above(FlameNode(i))
      BY AboveNode
    <3>2. \A x \in ToSet(m) : Block \in Above(x)
      BY <1>6, <3>1
    <3> QED
      BY <1>3, <1>7, <1>16, <3>2 DEF Takes
  <2>2. f = <<>>
    BY <1>14, <2>1, ThoseNone
  <2>3. Visible(n, open) = r \o ((p \o <<>>) \o b)
    BY <1>5, <1>16, VisibleIs
  <2> QED
    BY <1>4, <1>15, <1>16, <2>2, <2>3, <1>3 DEF S
<1>17. CASE Root \in open /\ Block \in open
  <2>1. f = FlattenSeq(OpenRows(open, n))
    BY <1>3, <1>5, <1>14, <1>17, LayersShown
  <2>2. Visible(n, open) = r \o ((p \o f) \o b)
    BY <1>5, <1>17, <2>1, VisibleIs
  <2> QED
    BY <1>4, <1>15, <1>17, <2>2, <1>3 DEF S
<1> QED
  BY <1>11, <1>16, <1>17

-----------------------------------------------------------------------------
(* The selection in the call tree.                                         *)

\* No node is above itself.
LEMMA NotAboveItself == ASSUME NEW n \in Nat, NEW p \in NodesOf(n) PROVE p \notin Above(p)
<1>1. p \in Paths
  <2>1. \A i \in 0 .. 5 * n - 1 : FlameNode(i) \in Paths
    BY FlameNodeType
  <2> QED
    BY <2>1 DEF NodesOf, Paths
<1>2. CASE p = Root
  BY <1>2, AboveIs
<1>3. CASE p \in {Embed, Block, <<"norm">>, <<"lm_head">>}
  <2>1. p[1] # Root[1]
    BY <1>3 DEF Root, Embed, Block
  <2> QED
    BY <1>3, <2>1, AboveIs
<1>4. ASSUME NEW l \in Nat, p = Layer5(l) PROVE p \notin Above(p)
  <2>1. Len(Layer5(l)) = 2 /\ Len(Root) = 1 /\ Len(Block) = 1
    BY DEF Layer5, Root, Block
  <2> QED
    BY <1>4, <2>1, AboveIs
<1>5. ASSUME NEW l \in Nat, NEW k \in 1 .. 4, p = Part(l, k) PROVE p \notin Above(p)
  <2>1. Len(Part(l, k)) = 3 /\ Len(Layer5(l)) = 2 /\ Len(Root) = 1 /\ Len(Block) = 1
    BY DEF Part, Layer5, Root, Block
  <2> QED
    BY <1>5, <2>1, AboveIs
<1> QED
  BY <1>1, <1>2, <1>3, <1>4, <1>5 DEF Paths

RowOf(seq, x) == SelectInSeq(seq, LAMBDA p : p = x)

\* Where a row is found: 0 if it is not.
LEMMA FoundInRange ==
  ASSUME NEW E, NEW seq \in Seq(E), NEW x
  PROVE  RowOf(seq, x) \in 0 .. Len(seq)
<1> DEFINE T == {i \in 1 .. Len(seq) : seq[i] = x}
<1>1. RowOf(seq, x) = IF T # {} THEN CHOOSE i \in T : \A y \in T : i <= y ELSE 0
  BY DEF RowOf, SelectInSeq, Min
<1>2. T \subseteq 1 .. Len(seq) /\ T \in SUBSET Nat /\ Len(seq) \in Nat
  OBVIOUS
<1> HIDE DEF T
<1>3. CASE T # {}
  <2>1. \E i \in T : \A y \in T : i <= y
    BY <1>2, <1>3, LeastMember
  <2>2. (CHOOSE i \in T : \A y \in T : i <= y) \in T
    BY <2>1
  <2>3. RowOf(seq, x) = CHOOSE i \in T : \A y \in T : i <= y
    BY <1>1, <1>3
  <2>4. RowOf(seq, x) \in T
    BY <2>2, <2>3, Zenon
  <2>5. \A i \in T : i \in 0 .. Len(seq)
    BY <1>2
  <2> QED
    BY <2>4, <2>5, Zenon
<1>4. CASE T = {}
  BY <1>1, <1>2, <1>4
<1> QED
  BY <1>3, <1>4

\* Who writes the selection in the call tree.
LEMMA FlameSteps == [Next]_vars => MoveFlame \/ ToggleFlame \/ UNCHANGED <<flame_selected, flame_open>>
<1> SUFFICES ASSUME [Next]_vars, ~(MoveFlame \/ ToggleFlame)
             PROVE  UNCHANGED flame
  BY DEF flame
<1>1. ASSUME NEW s \in Sources, NEW e \in session.events, Push(s, e)
      PROVE  UNCHANGED flame
  BY <1>1 DEF Push
<1>2. ASSUME NEW s \in Sources, OnEvent(s)
      PROVE  UNCHANGED flame
  BY <1>2, EventsLeaveKeys
<1>3. CASE Press \/ BeginFrame \/ Proceed
  BY <1>3 DEF Press, Proceed, Still, OpenTab, CycleFocus, MoveTopology, SelectNode, MoveStream,
       AttentionKey, ChangeHead, Pan, Resize, StepJourney, Key,
       BeginFrame, SelectMatrix, Sync, EndFrame, BeginProbe, Probe, SelectFound
<1>4. CASE UNCHANGED vars
  BY <1>4 DEF vars
<1> QED
  BY <1>1, <1>2, <1>3, <1>4 DEF Next

\* The selected node is one that the widest model has, and all above it is open.
FlameInv == flame_selected \in NodesOf(widest) /\ Above(flame_selected) \subseteq flame_open

\* The selected node stays inside open ones.
LEMMA FlameStep == EventInv /\ ModelInv /\ FlameInv /\ [Next]_vars => FlameInv'
<1> SUFFICES ASSUME EventInv, ModelInv, FlameInv, [Next]_vars
             PROVE  FlameInv'
  OBVIOUS
<1>1. widest \in Nat /\ model \in Nat /\ model <= widest /\ widest' \in Nat /\ widest <= widest'
  BY WidestGrows DEF ModelInv
<1>2. CASE MoveFlame
  <2> DEFINE rows == Visible(model, flame_open)
             found == RowOf(rows, flame_selected)
             at == Most(1, found)
  <2>1. /\ widest' = widest /\ flame_open' = flame_open
        /\ flame_selected' \in {rows[Least(Len(rows), at + 1)], rows[Most(1, at - 1)]}
    BY <1>2 DEF MoveFlame, FlameKey, Key, Untouched, RowOf
  <2>2. rows \in Seq(Paths) /\ ToSet(rows) = {p \in NodesOf(model) : Above(p) \subseteq flame_open}
    BY <1>1, SameRows
  <2>3. ToSet(rows) = {rows[i] : i \in 1 .. Len(rows)}
    BY <2>2, MembersOf
  <2>4. found \in 0 .. Len(rows)
    BY <2>2, FoundInRange
  <2>5. Len(rows) \in Nat /\ Len(rows) >= 1
    <3>1. Root \in NodesOf(model)
      BY DEF NodesOf
    <3>2. Root \in ToSet(rows)
      BY <2>2, <3>1, AboveIs
    <3>3. \E i \in 1 .. Len(rows) : TRUE
      BY <2>3, <3>2
    <3>4. Len(rows) \in Nat
      BY <2>2
    <3> QED
      BY <3>3, <3>4
  <2> HIDE DEF rows, found
  <2>6. Least(Len(rows), at + 1) \in 1 .. Len(rows) /\ Most(1, at - 1) \in 1 .. Len(rows)
    BY <2>4, <2>5 DEF Least, Most
  <2> HIDE DEF at
  <2>7. flame_selected' \in ToSet(rows)
    BY <2>1, <2>3, <2>6
  <2>8. flame_selected' \in NodesOf(model) /\ Above(flame_selected') \subseteq flame_open
    BY <2>2, <2>7
  <2>9. flame_selected' \in NodesOf(widest)
    BY <1>1, <2>8, MoreNodes
  <2> QED
    BY <2>1, <2>8, <2>9 DEF FlameInv
<1>3. CASE ToggleFlame
  <2>1. /\ widest' = widest /\ flame_selected' = flame_selected
        /\ flame_open' = flame_open \/ flame_open' = SymDiff(flame_open, {flame_selected})
    BY <1>3 DEF ToggleFlame, FlameKey, Key, Untouched
  <2>2. flame_selected \notin Above(flame_selected)
    BY <1>1, NotAboveItself DEF FlameInv
  <2>3. Above(flame_selected) \subseteq flame_open'
    BY <2>1, <2>2 DEF FlameInv, SymDiff
  <2> QED
    BY <2>1, <2>3 DEF FlameInv
<1>4. CASE UNCHANGED <<flame_selected, flame_open>>
  BY <1>1, <1>4, MoreNodes DEF FlameInv
<1> QED
  BY <1>2, <1>3, <1>4, FlameSteps

\* For models of any size that come and go, and whatever the user expands and
\* collapses, the keys walk exactly the rows that are drawn, although
\* render_flame_graph() and the dashboard each collect them, and the selected row
\* is hidden by nothing but a smaller model (dashboard.cpp:242-305).
THEOREM SelectionStaysShown == Spec => []FlameSelectionShown
<1> DEFINE Inv == EventInv /\ ModelInv /\ FlameInv
<1>1. Init => Inv
  <2> SUFFICES ASSUME Init PROVE Inv
    OBVIOUS
  <2>1. EventInv /\ ModelInv
    BY DEF Init, EventInv, ModelInv, Probes
  <2>2. FlameInv
    BY AboveIs DEF Init, FlameInv, NodesOf
  <2> QED
    BY <2>1, <2>2
<1>2. Inv /\ [Next]_vars => Inv'
  BY EventStep, ModelStep, FlameStep
<1>3. Inv => FlameSelectionShown
  <2> SUFFICES ASSUME Inv PROVE FlameSelectionShown
    OBVIOUS
  <2>1. model \in Nat /\ widest \in Nat
    BY DEF ModelInv
  <2>2. Visible(model, flame_open) = FlameRows(model, flame_open)
    BY <2>1, SameRows
  <2>3. ToSet(FlameRows(widest, flame_open)) = {p \in NodesOf(widest) : Above(p) \subseteq flame_open}
    BY <2>1, SameRows
  <2> QED
    BY <2>2, <2>3 DEF FlameSelectionShown, FlameInv
<1> HIDE DEF Inv
<1> QED
  BY <1>1, <1>2, <1>3, PTL DEF Spec
=============================================================================
