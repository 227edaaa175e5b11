------------------------------- MODULE Dashboard -------------------------------
(***************************************************************************)
(* The navigation state of the Dashboard, src/tui/dashboard.cpp.  The UI   *)
(* thread handles keys and draws frames, or main() takes a snapshot; the   *)
(* threads of the sources run on_event() at the same time, without a lock. *)
(* The ring is the bounded log that RingBuffer is shown to implement.  A   *)
(* trace is reduced to the path of its layer (None if it names none), a    *)
(* packet of matrices to its num_heads and to how many matrices it has;    *)
(* contrast, which only scales colours, is left out.                       *)
(***************************************************************************)
EXTENDS Panels

CONSTANTS
  Sources,        \* the threads that publish
  Sessions,       \* bound: what a session may see, records with the fields
                  \*   keys    the groups of keys the user presses, or
                  \*           "snapshot"
                  \*   tabs    the tabs the user opens
                  \*   events  the events that arrive
                  \*   senders the sources that publish them
  Limit,          \* the capacity of the ring
  AttentionLayers,    \* the layers that send attention matrices: of the nodes
                  \* that are drawn not the last two
  None,           \* an empty selected_event_, no matrix, no event in work
  MinViewport, MaxViewport, InitialViewport,    \* 4, 24 and 8 in the code
  MaxTokens, MaxPan, MaxJourney                 \* bounds

ASSUME SessionAssumption ==
  /\ {<<"norm">>, <<"lm_head">>} \cap AttentionLayers = {}
  /\ \A s \in Sessions : s.senders \subseteq Sources /\ \A e \in s.events :
       /\ e # None
       /\ e.type = "model_info" => e.layers \in Nat
       /\ e.type = "attention_weights" => e.layer \in AttentionLayers /\ {e.heads, e.matrices} \subseteq Nat

ASSUME LimitAssumption == Limit \in Nat

ASSUME ViewAssumption ==
  /\ {MinViewport, MaxViewport, InitialViewport, MaxTokens, MaxPan} \subseteq Nat
  /\ MinViewport <= InitialViewport /\ InitialViewport <= MaxViewport

VARIABLES
  session,        \* the session under way
  ring, latest,   \* the ring's events, oldest first, and its matrices
  event,          \* per source: its event in on_event(), past ring_.push()
  following,      \* the sources whose trace has passed the test of on_event()
  ui,             \* "idle" | "sync" | "select" | "drawing", and in snapshot()
                  \* also "settle" | "probe" | "found" | "done"
  picked,         \* the node in select_topology_node()
  tab, focus,
  model,          \* model_.layers
  selected,       \* the path of selected_event_
  topo_idx, stream_idx, journey_idx,
  active,         \* active_attention_
  attn_head, viewport,
  pan,            \* attn_pan_x_ or attn_pan_y_, which are treated alike
  flame_selected, flame_open,   \* flame_open: the inner nodes expanded
  probe,          \* snapshot(): the layers of the model it read, the node it is
                  \* at, from 1, and (history) the fewest layers since
  widest,         \* history: the most layers any model had
  synced,         \* history: no event came and nothing was selected since Sync
  overwrote       \* history: the sources whose trace has replaced a selection since
                  \* a trace last found the inspector empty

screen == <<ui, picked, tab, focus>>
inspector == <<model, selected>>
cursors == <<topo_idx, stream_idx, journey_idx>>
attention == <<active, attn_head, pan, viewport>>
flame == <<flame_selected, flame_open>>
telemetry == <<ring, latest, event, following>>
history == <<widest, synced, overwrote>>
vars == <<session, telemetry, screen, inspector, cursors, attention, flame, probe, history>>

Snapshot == "snapshot" \in session.keys
Traces == TracesOf(ring)

Init ==
  /\ session \in Sessions
  /\ ring = <<>> /\ latest = [p \in AttentionLayers |-> None]
  /\ event = [s \in Sources |-> None] /\ following = {} /\ overwrote = {}
  /\ probe = [layers |-> 0, at |-> 1, fewest |-> 0] /\ widest = 0 /\ synced = FALSE
  /\ ui = (IF Snapshot THEN "settle" ELSE "idle") /\ picked = None /\ tab = 0 /\ focus = 0
  /\ model = 0 /\ selected = None
  /\ topo_idx = 0 /\ stream_idx = 0 /\ journey_idx = 0
  /\ active = None /\ attn_head = 0 /\ pan = 0 /\ viewport = InitialViewport
  /\ flame_selected = Root /\ flame_open = {Root, Block}

-----------------------------------------------------------------------------
(* on_event(), in the threads of the sources.                              *)

Ring == INSTANCE BoundedLog WITH
          log <- ring, Layers <- AttentionLayers, Matrices <- {}, Events <- {}, NoAttention <- None

\* ring_.push(); the other two consumers are Pipeline's.
Push(s, e) ==
  /\ s \in session.senders /\ event[s] = None
  /\ e \in session.events
  /\ IF e.type = "attention_weights" THEN Ring!Replace(e.layer, e) ELSE Ring!Record(e)
  /\ event' = [event EXCEPT ![s] = e] /\ synced' = FALSE
  /\ UNCHANGED <<session, following, screen, inspector, cursors, attention, flame, probe, widest, overwrote>>

\* An inspector that takes every trace, whether or not the user has selected one.
FollowsAlways == focus = 0 /\ tab = 0

\* The inspector is to take the trace: it is empty and the topology has the focus.
Follows == focus = 0 /\ tab = 0 /\ selected = None

\* The source's event of that type has passed on_event().
Leave(s, type) ==
  /\ event[s] # None /\ event[s].type = type
  /\ event' = [event EXCEPT ![s] = None] /\ following' = following \ {s}
  /\ UNCHANGED <<session, ring, latest, screen, cursors, attention, flame>>

\* The test, which reads what the UI thread and the other source write ...
TestTrace(s) ==
  /\ s \notin following
  /\ IF Follows
     THEN /\ event[s] # None /\ event[s].type = "layer_trace"
          /\ following' = following \cup {s}
          /\ UNCHANGED <<session, ring, latest, event, screen, cursors, attention, flame>>
     ELSE Leave(s, "layer_trace")
  /\ overwrote' = (IF selected = None THEN {} ELSE overwrote)
  /\ UNCHANGED <<inspector, probe, widest, synced>>

\* ... and the assignment, whatever they have written by then.
ShowTrace(s) ==
  /\ s \in following /\ Leave(s, "layer_trace")
  /\ selected' = event[s].layer /\ synced' = FALSE
  /\ overwrote' = (IF selected = None THEN overwrote ELSE overwrote \cup {s})
  /\ UNCHANGED <<model, probe, widest>>

ShowModel(s) ==
  /\ Leave(s, "model_info")
  /\ model' = event[s].layers /\ widest' = Most(widest, event[s].layers)
  /\ probe' = [probe EXCEPT !.fewest = Least(@, event[s].layers)]
  /\ UNCHANGED <<selected, synced, overwrote>>

ShowNothing(s) ==
  /\ Leave(s, "attention_weights") \/ Leave(s, "anomaly")
  /\ UNCHANGED <<inspector, probe, history>>

OnEvent(s) == TestTrace(s) \/ ShowTrace(s) \/ ShowModel(s) \/ ShowNothing(s)

-----------------------------------------------------------------------------
(* The UI thread.  It takes one key, or draws one frame, at a time.        *)

focus_count == IF tab \in {0, 1} THEN 2 ELSE 1

\* What no key and no frame changes.
Untouched == UNCHANGED <<session, telemetry, model, widest, overwrote>>

OpenTab(t) ==
  /\ ui = "idle" /\ t \in session.tabs
  /\ tab' = t /\ focus' = 0
  /\ Untouched /\ UNCHANGED <<ui, picked, selected, cursors, attention, flame, probe, synced>>

CycleFocus ==
  /\ ui = "idle"
  /\ \E step \in {1, focus_count - 1} : focus' = (focus + step) % focus_count
  /\ Untouched /\ UNCHANGED <<ui, picked, tab, selected, cursors, attention, flame, probe, synced>>

\* The panel that has the focus takes a key of the group.
Key(group, panel) ==
  /\ ui = "idle" /\ group \in session.keys /\ <<tab, focus>> = panel
  /\ Untouched /\ UNCHANGED <<tab, focus, probe>>

\* j in a list without its clamp.
DownUnclamped(idx, last) == idx + 1

\* j and k in a list.
Down(idx, last) == Least(last, idx + 1)
Up(idx) == Most(0, idx - 1)

MoveTopology ==
  /\ Key("topology", <<0, 0>>)
  /\ topo_idx' \in {Down(topo_idx, Len(TopologyNodes(model)) - 1), Up(topo_idx)}
  /\ UNCHANGED <<ui, picked, selected, stream_idx, journey_idx, attention, flame, synced>>

\* select_topology_node(): the node's latest trace, if the ring still has one ...
PickNode ==
  /\ topo_idx < Len(TopologyNodes(model))
  /\ picked' = TopologyNodes(model)[topo_idx + 1] /\ ui' = "select"
  /\ selected' = IF \E i \in 1 .. Len(Traces) : Traces[i].layer = picked'
                 THEN picked' ELSE selected
  /\ synced' = FALSE

SelectNode == Key("topology", <<0, 0>>) /\ PickNode /\ UNCHANGED <<cursors, attention, flame>>

HasMatrix(node) == node \in AttentionLayers /\ latest[node] # None

\* The head kept from the matrices shown before.
KeptHead == attn_head

\* The head at which matrices are first shown.
FirstHead == 0

\* ... and then its matrix, if it has sent one by now.
SelectMatrix ==
  /\ ui = "select" /\ ui' = IF Snapshot THEN "drawing" ELSE "idle"
  /\ picked' = None
  /\ IF HasMatrix(picked)
     THEN active' = latest[picked] /\ pan' = 0 /\ attn_head' = FirstHead
     ELSE UNCHANGED <<active, pan, attn_head>>
  /\ Untouched /\ UNCHANGED <<tab, focus, selected, cursors, viewport, flame, probe, synced>>

\* j or k in the stream: the cursor moves within the traces the ring has now ...
MoveStream ==
  /\ Key("stream", <<0, 1>>) /\ ui' = "sync" /\ synced' = FALSE
  /\ stream_idx' \in {Down(stream_idx, Most(0, Len(Traces) - 1)), Up(stream_idx)}
  /\ UNCHANGED <<picked, selected, topo_idx, journey_idx, attention, flame>>

\* The trace under the cursor, counted from the oldest.
FromOldest(traces) == traces[stream_idx + 1]

\* The trace under the cursor, counted from the newest.
FromNewest(traces) == traces[Len(traces) - stream_idx]

\* ... and the inspector takes the one under it, of the traces it has by then.
Sync ==
  /\ ui = "sync" /\ ui' = "idle" /\ synced' = TRUE
  /\ selected' = IF stream_idx < Len(Traces) THEN FromNewest(Traces).layer ELSE selected
  /\ Untouched /\ UNCHANGED <<picked, tab, focus, cursors, attention, flame, probe>>

AttentionKey(group) ==
  Key(group, <<1, 0>>) /\ UNCHANGED <<ui, picked, selected, cursors, active, flame, synced>>

\* The last head is the one that num_heads announces.
ChangeHead ==
  /\ AttentionKey("head")
  /\ attn_head' \in {Up(attn_head),
                     IF active = None THEN 0 ELSE Down(attn_head, Most(0, active.heads - 1))}
  /\ UNCHANGED <<pan, viewport>>

Pan ==
  /\ AttentionKey("view")
  /\ pan' \in {Up(pan), Least(MaxPan, pan + 1)}
  /\ UNCHANGED <<attn_head, viewport>>

Resize ==
  /\ AttentionKey("view")
  /\ viewport' \in {Most(MinViewport, viewport - 1), Least(MaxViewport, viewport + 1)}
  /\ UNCHANGED <<attn_head, pan>>

StepJourney ==
  /\ Key("journey", <<1, 1>>)
  /\ journey_idx' \in {Up(journey_idx), Least(MaxJourney, journey_idx + 1)}
  /\ UNCHANGED <<ui, picked, selected, topo_idx, stream_idx, attention, flame, synced>>

FlameKey == Key("flame", <<2, 0>>) /\ UNCHANGED <<ui, picked, selected, cursors, attention, synced>>

\* The keys walk hidden rows as well.
VisibleHidden(layers, open) == FlameNodes(layers)

\* The rows the keys walk, which the dashboard collects for itself.
Visible(layers, open) ==
  LET If(p, rows) == IF p \in open THEN rows ELSE <<>>
      Layer(i) == <<<<"layers", i>>>>
                    \o If(<<"layers", i>>, [k \in 1 .. 4 |-> <<"layers", i, Parts[k]>>])
  IN  <<Root>> \o If(Root, <<<<"embed_tokens">>, Block>>
                             \o If(Block, FlattenSeq([i \in 1 .. layers |-> Layer(i - 1)]))
                             \o <<<<"norm">>, <<"lm_head">>>>)

\* j or k in the call tree; a selection that is no longer shown counts as the first.
MoveFlame ==
  /\ FlameKey
  /\ LET rows == Visible(model, flame_open)
         at == Most(1, SelectInSeq(rows, LAMBDA p : p = flame_selected))
     IN  flame_selected' \in {rows[Least(Len(rows), at + 1)], rows[Most(1, at - 1)]}
  /\ UNCHANGED flame_open

\* Enter expands or collapses; that a leaf is expanded is stored but never read.
ToggleFlame ==
  /\ FlameKey
  /\ LET inner == flame_selected \in {Root, Block} \/ Len(flame_selected) = 2
     IN  flame_open' = IF inner THEN SymDiff(flame_open, {flame_selected}) ELSE flame_open
  /\ UNCHANGED flame_selected

Still == Untouched /\ UNCHANGED <<picked, focus, selected, stream_idx, journey_idx, attention, flame, synced>>

\* build_ui(): the panels read model_ and selected_event_ where they are.
BeginFrame == ui = "idle" /\ ui' = "drawing" /\ Still /\ UNCHANGED <<tab, topo_idx, probe>>

EndFrame ==
  /\ ui = "drawing" /\ ui' = (IF Snapshot THEN "done" ELSE "idle")
  /\ Still /\ UNCHANGED <<tab, topo_idx, probe>>

-----------------------------------------------------------------------------
(* snapshot() of the attention tab, in main().                             *)

BeginProbe ==
  /\ ui = "settle" /\ ui' = "probe"
  /\ tab' = 1 /\ probe' = [layers |-> model, at |-> 1, fewest |-> model]
  /\ Still /\ UNCHANGED topo_idx

\* An index that counts from 1.
IndexFromOne(at) == at

\* The index of the node, which topo_idx_ counts from 0.
Index(at) == at - 1

\* latest_attention() of one node after the other, each under the ring's lock.
Probe ==
  /\ ui = "probe"
  /\ LET nodes == TopologyNodes(probe.layers)
     IN  IF probe.at > Len(nodes) THEN ui' = "drawing" /\ UNCHANGED <<topo_idx, probe>>
         ELSE IF HasMatrix(nodes[probe.at])
         THEN ui' = "found" /\ topo_idx' = Index(probe.at) /\ UNCHANGED probe
         ELSE probe' = [probe EXCEPT !.at = @ + 1] /\ UNCHANGED <<ui, topo_idx>>
  /\ Still /\ UNCHANGED tab

\* select_topology_node() reads the model again: it may have become smaller.
SelectFound ==
  /\ ui = "found"
  /\ PickNode \/ /\ topo_idx >= Len(TopologyNodes(model)) /\ ui' = "drawing"
                 /\ UNCHANGED <<picked, selected, synced>>
  /\ Untouched /\ UNCHANGED <<tab, focus, cursors, attention, flame, probe>>

-----------------------------------------------------------------------------

Press == \/ \E t \in 0 .. 3 : OpenTab(t)
         \/ CycleFocus \/ MoveTopology \/ SelectNode
         \/ MoveStream \/ ChangeHead \/ Pan \/ Resize \/ StepJourney \/ MoveFlame \/ ToggleFlame

Proceed == SelectMatrix \/ Sync \/ EndFrame \/ BeginProbe \/ Probe \/ SelectFound

Next ==
  \/ \E s \in Sources : (\E e \in session.events : Push(s, e)) \/ OnEvent(s)
  \/ Press \/ BeginFrame \/ Proceed

\* What a thread has begun it goes on with.  Nobody has to send or to press a key.
Spec ==
  Init /\ [][Next]_vars /\ (\A s \in Sources : WF_vars(OnEvent(s))) /\ WF_vars(Proceed)

-----------------------------------------------------------------------------

\* Whatever models come and go, the topology cursor stays on a node of the widest
\* of them: only a smaller model_info can leave it beyond the list, where Enter
\* does nothing (dashboard.cpp:74).
TopologyCursorBound == topo_idx \in 0 .. Len(TopologyNodes(widest)) - 1

\* The inspector shows the row that the stream highlights, from the moment the
\* cursor moved until the next event or selection, although the two count the
\* rows in code of their own and the ring may have moved on between the reads.
StreamRowIsInspected ==
  synced /\ stream_idx < Len(Traces) => StreamRow(Traces, stream_idx).layer = selected

\* If a packet carries a matrix for each head that it announces, the panel draws
\* every head the user can reach, also when a packet with fewer heads replaces
\* another.  Key and panel count the heads in different fields, and a packet that
\* announces more than it brings lets the user go on to heads that are not drawn.
HeadIsDrawn ==
  active # None /\ active.matrices # 0 /\ active.heads <= active.matrices
    => DrawsHead(active.matrices, attn_head)

\* However far the user has panned and zoomed, the window is as many rows as fit
\* and lies inside the matrix: rows outside would be read out of bounds.
ViewInMatrix ==
  \A n \in 1 .. MaxTokens :
    LET start == ViewStart(n, pan, viewport)
        end == ViewEnd(n, pan, viewport)
    IN  0 <= start /\ end <= n /\ end - start = Least(n, viewport)

\* The keys walk exactly the rows that are drawn, and expanding and collapsing
\* never hides the selected one: only a smaller model does.
FlameSelectionShown ==
  /\ Visible(model, flame_open) = FlameRows(model, flame_open)
  /\ flame_selected \in ToSet(FlameRows(widest, flame_open))

\* The token cycles show every trace of the ring once, in order, the cycle still
\* being received included, and only the first may lack its beginning.
JourneyComplete ==
  LET cycles == Cycles(Traces)
  IN  /\ FlattenSeq(cycles) = Traces
      /\ \A c \in 2 .. Len(cycles) : cycles[c][1].layer = <<"embed_tokens">>

\* A snapshot of the attention tab that has found a layer with a matrix shows that
\* layer's, whatever arrives in between, unless a smaller model does.
SnapshotShowsMatrix ==
  Snapshot /\ ui = "drawing" /\ probe.at <= Len(TopologyNodes(probe.layers))
    => \/ active # None /\ active.layer = TopologyNodes(probe.layers)[probe.at]
       \/ probe.fewest < probe.layers

\* No lock covers the test and the assignment of on_event(), so a selection does not
\* pin the inspector at once (dashboard.cpp:65-66); yet each source can take one away
\* at most once, with the trace that was between the two when it was made.  After
\* that, only keys change what is inspected.
OneLateTracePerSource ==
  [][\A s \in overwrote : selected' # selected => UNCHANGED event[s]]_vars

\* "Keep the inspector following the live stream" (dashboard.cpp:65): as long as the
\* topology has the focus and the user has not selected anything, each trace that
\* has passed on_event() is the one inspected.  The code takes the first only.
NeverSelects == session.keys \cap {"topology", "stream", "snapshot"} = {}
InspectorFollows ==
  [][\A s \in Sources :
       /\ NeverSelects /\ focus = 0 /\ tab = 0
       /\ event[s] # None /\ event[s].type = "layer_trace" /\ event'[s] = None
       => selected' = event[s].layer]_vars

\* A panel "takes immutable telemetry state" (panels.hpp:1): what the inspector
\* and the topology show does not change under the frame that draws it.
StateIsImmutableWhileDrawn == [][ui = "drawing" => UNCHANGED inspector]_vars
=============================================================================
