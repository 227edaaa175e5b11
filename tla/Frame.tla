--------------------------------- MODULE Frame ---------------------------------
(***************************************************************************)
(* What a frame of the dashboard, or a line of the headless mode, shows is *)
(* read piece by piece, each piece under the lock of its owner, while the  *)
(* producers of Pipeline go on and the server drops what does not decode.  *)
(* Of a piece only the number of events is kept that whoever reads it must *)
(* conclude have been there.                                               *)
(***************************************************************************)
EXTENDS Pipeline, DeviceMonitor

\* The other fields of a load: views, what is drawn, frames, how often, host,
\* whether the counters of the host move, and drops, whether packets are dropped.
CONSTANT TopN    \* 5 in the code

VARIABLES
  view, shown, frames,
  dropped       \* history: the packet that was dropped last, if any

frameVars == <<view, shown, frames>>
pipelineVars == vars
allVars == <<pipelineVars, monitorVars, frameVars, dropped>>

FrameInit ==
  /\ Init
  /\ MonitorInit /\ (~load.host => host = [c \in Counters |-> 0])
  /\ view = "none" /\ shown = <<>> /\ frames = 0 /\ dropped = {}

-----------------------------------------------------------------------------

\* render_performance() with the number of events before the figures.
PerformanceEventsFirst == <<"events", "speed", "average", "slowest">>

\* render_performance()
Performance == <<"speed", "average", "events", "slowest">>

\* The pieces each view is made of, in the order they are read.
Pieces(v) ==
  CASE v = "overview" -> <<"device", "stream", "ledger">> \o Performance
    [] v = "call_tree" -> <<"device", "profile">> \o Performance
    [] v = "headless" -> <<"events", "speed", "average", "ledger">>

Calls(seq) == SumFunctionOnSet([l \in Layers |-> layers[l].calls], ToSet(seq))

\* The events that there must have been for a piece to show what it does: all up to
\* those of the alerts and of the rows.
Evidence(piece) ==
  LET UpTo(ids) == UNION {{id[1]} \X (1 .. id[2]) : id \in ids}
  IN  CASE piece = "device" -> 0
        [] piece = "stream" -> Cardinality(UpTo(ToSet(Ring!GetAll)))
        [] piece = "ledger" -> Cardinality(UpTo({a.id : a \in ToSet(alerts)}))
        [] piece = "profile" -> Calls(Agg!slowest_layers(Cardinality(Layers)))
        [] piece = "speed" -> token_count
        [] piece = "average" -> latency_samples
        [] piece = "events" -> total_events
        [] piece = "slowest" -> Calls(Agg!slowest_layers(TopN))

Begin(v) ==
  /\ view = "none" /\ v \in load.views /\ frames < load.frames
  /\ view' = v /\ shown' = <<>> /\ frames' = frames + 1
  /\ UNCHANGED <<pipelineVars, monitorVars, dropped>>

Read ==
  /\ view # "none" /\ Len(shown) < Len(Pieces(view))
  /\ LET piece == Pieces(view)[Len(shown) + 1]
     IN  /\ shown' = Append(shown, Evidence(piece))
         /\ IF piece = "device" THEN Sample \/ SampleFails ELSE UNCHANGED monitorVars
  /\ UNCHANGED <<pipelineVars, view, frames, dropped>>

End ==
  /\ view # "none" /\ Len(shown) = Len(Pieces(view))
  /\ view' = "none" /\ shown' = <<>>
  /\ UNCHANGED <<pipelineVars, monitorVars, frames, dropped>>

Produce(p) == Step(p) /\ UNCHANGED <<monitorVars, frameVars, dropped>>

\* The server's thread catches what parsing or from_json() throws, and no consumer
\* learns of the packet.
Drop(p) ==
  /\ p \in Remote /\ pc[p] = "idle" /\ load.drops
  /\ \E packet \in Packets(p) : ~Decodes(packet) /\ dropped' = {packet}
  /\ UNCHANGED <<pipelineVars, monitorVars, frameVars>>

TimePasses ==
  /\ load.host
  /\ (\E c \in Counters : Tick(c)) \/ StepBack
  /\ UNCHANGED <<pipelineVars, frameVars, dropped>>

FrameNext ==
  \/ \E p \in Producers : Produce(p) \/ Drop(p)
  \/ \E v \in load.views : Begin(v)
  \/ Read \/ End \/ TimePasses
  \/ Finished /\ view = "none" /\ frames = load.frames /\ UNCHANGED allVars

FrameSpec == FrameInit /\ [][FrameNext]_allVars

-----------------------------------------------------------------------------

\* Although its pieces are of different moments, a frame of the dashboard never
\* contradicts itself: the number of events it shows covers every alert, token and
\* sample beside it, and every row but at most one of each source, which is stored
\* (dashboard.cpp:58) before it is counted (59).  A line of the headless mode may
\* contradict itself (main.cpp:85).
Uncounted(piece) == IF piece = "stream" THEN Cardinality(Producers) ELSE 0
FrameIsCoherent ==
  view \in {"overview", "call_tree"} =>
    \A i, j \in 1 .. Len(shown) :
      Pieces(view)[j] = "events" /\ Pieces(view)[i] # "slowest"
        => shown[i] <= shown[j] + Uncounted(Pieces(view)[i])

\* "Flags NaN or Inf" (README.md:30): if the packet of a trace says that a statistic
\* is one, the ledger tells.  JSON has no word for them, so the packet does not parse
\* and is dropped before the detector sees it.
SaysNonFinite(j) ==
  /\ j # Wrong /\ HasPayload(j) /\ j.payload # Wrong
  /\ Has(j.payload, "stats") /\ ~Writable(j.payload.stats)
NonFiniteIsFlagged ==
  \A packet \in dropped : SaysNonFinite(packet) => \E a \in ToSet(alerts) : a.kind = "non_finite"
=============================================================================
